CONSTANTS
    c1 = c1
    r1 = r1
    hc = hc
    hr = hr
    Session = {1}
    Holder = {h1, hc, hr}
    Coordinator = {c1}
    Reaper = {r1}
    HolderOf <- MCHolderOf
    PageSize = 1
    Ttl = 1
    MaxTime = 2
    MaxGen = 3
    OwnerGens = 2
    MaxFaults = 1
SPECIFICATION RecoverySpec
INVARIANTS NoLostSession
CHECK_DEADLOCK FALSE
