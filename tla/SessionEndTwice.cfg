CONSTANTS
    Attempt = {a1, a2}
SPECIFICATION Spec
INVARIANTS AnnouncedOnce
CHECK_DEADLOCK FALSE
