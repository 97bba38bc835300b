SPECIFICATION Spec
CONSTANTS
    Message = {m1, m2}
    Comment = {k1}
    Handler = {h1, h2}
    Reader = {r1}
    NoEvent = NoEvent
    MaxRepeats = 1
    MaxSwitches = 2
    MaxFaults = 1
SYMMETRY Symmetry
CHECK_DEADLOCK FALSE
INVARIANTS
    TypeOK
    AskedOnce
    EveryEventIsSettled
    
    TakeoverIsRespected
