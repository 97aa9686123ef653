CONSTANTS
    r1 = r1
    r2 = r2
    r3 = r3
    w1 = w1
    w2 = w2
    Run <- TwoRuns
    Worker <- MCWorker
    Host <- TwoHost
    MaxLease = 3
    MayFail = {}

SPECIFICATION ClusterSpec

INVARIANT
    OnceRunsOnce

CHECK_DEADLOCK FALSE
