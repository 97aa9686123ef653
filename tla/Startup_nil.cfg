CONSTANTS
    w1 = w1
    Worker <- OneWorker
    IP <- OneHost
    MaxLease = 3
    Job = {j1}
    MayFail = {}

SPECIFICATION StartupSpec

INVARIANT
    NoPanic

CHECK_DEADLOCK FALSE
