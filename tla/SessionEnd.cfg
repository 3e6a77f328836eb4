CONSTANTS
    Attempt = {a1, a2, a3}
SPECIFICATION Spec
INVARIANTS UsageReachesTheHook NothingLeaks LeaseOutlivesWrite
PROPERTIES EndIsAnnounced
CHECK_DEADLOCK FALSE
