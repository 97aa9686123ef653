CONSTANTS
    c1 = c1
    b1 = b1
    o1 = o1
    Job <- CronAndOnce
    Typ <- MCTyp
    CronExpr <- MCCronExpr
    Period <- MCPeriod
    ScheduleSleep = 1
    LockOutcomes = {"ok", "occupied"}
    MayFail = {"delete"}
    MaxTime = 2
    MaxKills = 0
    MaxRestarts = 1

SPECIFICATION Spec

INVARIANTS
    PlanFollowsEtcd
    StatusSettles
    NumCountsRuns
    OnceKeyKept
    OnceRunsOnce

CHECK_DEADLOCK FALSE
