CONSTANTS
    r1 = r1
    r2 = r2
    r3 = r3
    w1 = w1
    w2 = w2
    Run <- MCRun
    Worker <- MCWorker
    Host <- MCHost
    MaxLease = 3
    MayFail = {"lock", "delete", "renew"}

SPECIFICATION ClusterFairSpec

INVARIANTS
    ClusterTypeOK
    LeasedExclusion
    WithdrawnWasTaken

PROPERTIES
    KeyIsFreed
    OnceWithdrawn

CHECK_DEADLOCK FALSE
