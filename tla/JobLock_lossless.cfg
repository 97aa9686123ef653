CONSTANTS
    r1 = r1
    r2 = r2
    r3 = r3
    w1 = w1
    w2 = w2
    Run <- MCRun
    Worker <- MCWorker
    Host <- MCHost
    MaxLease = 4

SPECIFICATION ReliableSpec

INVARIANTS
    TypeOK
    MutualExclusion

PROPERTY
    ImplementsExclusiveLock

CHECK_DEADLOCK FALSE
