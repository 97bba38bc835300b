SPECIFICATION Spec
CONSTANTS
    Task = {t1, t2}
    NoMsg = NoMsg
    MaxRetries = 1
    DailyLimit = 0
    MessageTTL = TRUE
    MaxWorkerCrashes = 1
    MaxGatewayCrashes = 1
    MaxFaults = 1
CHECK_DEADLOCK FALSE
INVARIANTS
    TypeOK
    QueuedIsAccountedFor
    CompletedIsBacked
    EffectsAreBounded
PROPERTY ImplementsLifecycle
