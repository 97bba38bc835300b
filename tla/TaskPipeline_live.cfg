SPECIFICATION FairSpec
CONSTANTS
    Task = {t1, t2}
    NoMsg = NoMsg
    MaxRetries = 1
    DailyLimit = 0
    MessageTTL = FALSE
    MaxWorkerCrashes = 1
    MaxGatewayCrashes = 1
    MaxFaults = 0
CHECK_DEADLOCK FALSE
PROPERTY EveryTaskIsResolved
