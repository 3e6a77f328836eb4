CONSTANTS
    c1 = c1
    r1 = r1
    hc = hc
    hr = hr
    Session = {1, 2}
    Holder = {h1, hr}
    Coordinator = {}
    Reaper = {r1}
    HolderOf <- ReaperOnlyHolderOf
    PageSize = 1
    Ttl = 1
    MaxTime = 1
    MaxGen = 6
    OwnerGens = 2
    MaxFaults = 0
SPECIFICATION FairRecoverySpec
PROPERTIES OrphansEnd
CHECK_DEADLOCK FALSE
