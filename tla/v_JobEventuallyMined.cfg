CONSTANTS
    FullJobs = {j1}
    NoId = NoId
    Threads = 1
    MaxWorkers = 3
    SignersMin = 2
    InitChain <- MCInitChain
    MaxHeight = 3
    MaxQueue = 2
    MaxUserStops = 0
SPECIFICATION LiveNetSpec
PROPERTIES
    JobEventuallyMined
CHECK_DEADLOCK FALSE
