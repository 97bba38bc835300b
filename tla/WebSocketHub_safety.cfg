SPECIFICATION Spec
CONSTANTS
    Conn = {c1, c2, c3, c4}
    Tab = {k1, k2}
    NoConn = NoConn
    Prompt = FALSE
    MaxDrops = 3
SYMMETRY HubSymmetry
CHECK_DEADLOCK FALSE
INVARIANT HubIsTrue
