CONSTANTS
    Proc = {p1, p2}
    Call = {c1, c2}
    StoreMayFail = TRUE
    MaxGen = 2
    MaxEpoch = 1
SPECIFICATION Spec
INVARIANTS RepeatsOnlyUnrecorded OwnerSeesOwnCalls
PROPERTIES OutcomeIsFinal
CHECK_DEADLOCK FALSE
