SPECIFICATION FairSpec
CONSTANTS
    Plan = {starter, premium}
    Starter = starter
    Payment = {p1}
    Request = {q1, q2}
    Reader = {r1}
    NoPayment = NoPayment
    NoInfo = NoInfo
    SuperAdmin = SuperAdmin
    MaxNotices = 2
    MaxChanges = 2
    MaxFaults = 1
CHECK_DEADLOCK FALSE
INVARIANTS
    TypeOK
    StaleIsExplained
    
PROPERTY CacheConverges
