CONSTANTS
    c1 = c1
    b1 = b1
    o1 = o1
    Job <- AllJobs
    Typ <- MCTyp
    CronExpr <- MCCronExpr
    Period <- MCPeriod
    ScheduleSleep = 3
    LockOutcomes = {"ok"}
    MayFail = {}
    MaxTime = 3
    MaxKills = 0
    MaxRestarts = 0

SPECIFICATION Spec

INVARIANTS
    NoPanic

CHECK_DEADLOCK FALSE
