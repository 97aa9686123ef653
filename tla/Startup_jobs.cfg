CONSTANTS
    w1 = w1
    Worker <- OneWorker
    IP <- OneHost
    MaxLease = 3
    Job = {j1}
    MayFail = {"register", "jobMgr", "get"}

SPECIFICATION StartupFairSpec

INVARIANTS
    TypeOK
    StartupTypeOK
    OnlineIsListed
    CaughtUpPlansJobs

PROPERTIES
    DeadIsUnlisted
    JobsArePlanned

CHECK_DEADLOCK FALSE
