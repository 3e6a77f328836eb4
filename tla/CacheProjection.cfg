CONSTANTS
    Worker = {w1, w2}
    Job = {j1}
    MaxInc = 2
    MaxVer = 2
    MaxChild = 1
    MaxPurge = 2
    MaxDrops = 1
SPECIFICATION Spec
SYMMETRY WorkersAlike
INVARIANTS DeletedStaysPurged ProjectedInFull
PROPERTIES NeverGoesBack
CHECK_DEADLOCK FALSE
