CONSTANTS
    Call = {c1, c2}
SPECIFICATION AgentSpec
INVARIANTS NoCallLeaks RuntimeOutlivesCalls
PROPERTIES NothingBeginsAfterStop StopReachesEveryone
CHECK_DEADLOCK FALSE
