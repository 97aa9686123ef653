CONSTANTS
    w1 = w1
    w2 = w2
    Worker <- TwoWorkers
    IP <- OneHost
    MaxLease = 3

SPECIFICATION Spec

INVARIANT
    OnlineIsListed

CHECK_DEADLOCK FALSE
