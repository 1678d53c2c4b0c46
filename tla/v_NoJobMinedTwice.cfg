CONSTANTS
    FullJobs = {j1, j2}
    NoId = NoId
    Threads = 1
    MaxWorkers = 3
    SignersMin = 2
    InitChain <- MCInitChain
    MaxHeight = 6
    MaxQueue = 3
    MaxUserStops = 1
INIT Init
NEXT Next
INVARIANTS
    NoJobMinedTwice
CHECK_DEADLOCK FALSE
