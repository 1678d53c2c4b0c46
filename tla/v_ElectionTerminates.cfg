CONSTANTS
    k1 = k1
    k2 = k2
    k3 = k3
    i1 = i1
    z1 = z1
    Keys <- MCKeys
    Ids = {i1}
    ZoneNames = {z1}
    Tails = {1, 2}
    Times = {0, 1}
    MaxIndex = 4
    SignersStart = 0
    SignersAll = 2
    SignersMin = 1
    NewDomainsInterval = 1
    CheckBlocks = 8
    OverflowChecks = FALSE
    TornTruncation = FALSE
    InitChain <- MCInitChain
    Origin = NoHash
    NoHash = NoHash
    UnknownHash = UnknownHash
    NoTx = NoTx
    NoBlock = NoBlock
    Candidates <- MCCandidates
CONSTRAINT MCKeepLoadedChain
INIT Init
NEXT Next
INVARIANTS
    ElectionTerminates
CHECK_DEADLOCK FALSE
