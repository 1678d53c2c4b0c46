CONSTANTS
    FullJobs = {j1}
    NoId = NoId
    Threads = 1
    MaxWorkers = 3
    SignersMin = 2
    InitChain <- MCInitChain
    MaxHeight = 3
    MaxQueue = 2
    MaxUserStops = 1
SPECIFICATION Spec
PROPERTIES
    SignatureProvided
CHECK_DEADLOCK FALSE
