CONSTANTS
    h1 = h1
    h2 = h2
    Session = {s1}
    Holder = {h1, h2}
    Ttl = 2
    MaxTime = 4
    MaxGen = 3
SPECIFICATION Spec
SYMMETRY HolderSymmetry
INVARIANTS TypeOK NoZombieTransaction UnfencedExcludesOwner
PROPERTIES DeadGenerationStaysDead OwnershipSpec
CHECK_DEADLOCK FALSE
