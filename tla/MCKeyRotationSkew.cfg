SPECIFICATION SpecRotation
CONSTANTS
    n1 = n1
    n2 = n2
    Nodes <- MCNodes
    Offsets <- MCOffsets
    Tenants <- MCTenants
    Pinned <- MCPinned
    NewKey <- MCNewKey
    OldSets <- MCOldSets
    Facts = {64, 65}
    LastSecond = 10
    Skew = 2
    Lifetime = 2
    Registration = 1
    Start = 2
    MaxMints = 1
    MaxNow = 8
    Backdate = 0
INVARIANTS
    LiveTokenVerifies
