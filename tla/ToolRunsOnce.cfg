CONSTANTS
    Proc = {p1, p2}
    Call = {c1, c2}
    StoreMayFail = FALSE
    MaxGen = 2
    MaxEpoch = 0
SPECIFICATION Spec
INVARIANTS RunsOnce
CHECK_DEADLOCK FALSE
