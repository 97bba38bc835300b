SPECIFICATION FairSpec
CONSTANTS
    Conn = {c1, c2, c3, c4}
    Tab = {k1, k2}
    NoConn = NoConn
    Prompt = TRUE
    MaxDrops = 0
CHECK_DEADLOCK FALSE
PROPERTY OneConnectionRemains
