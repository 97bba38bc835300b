SPECIFICATION Spec
CONSTANTS
    User = {u1, u2}
    NoUser = NoUser
    Tab = {t1, t2}
    NoTab = NoTab
    Request = {r1, r2}
    MaxPairs = 3
    MaxReloads = 1
    MaxSends = 4
CHECK_DEADLOCK FALSE
INVARIANTS TypeOK 
PROPERTIES MixedByLateAnswer SessionEndsForAReason
SYMMETRY Symmetry
