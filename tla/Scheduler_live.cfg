CONSTANTS
    c1 = c1
    b1 = b1
    o1 = o1
    Job <- OneCronJob
    Typ <- MCTyp
    CronExpr <- MCCronExpr
    Period <- MCPeriod
    ScheduleSleep = 3
    LockOutcomes = {"ok", "occupied", "error"}
    MayFail = {"update"}
    MaxTime = 3
    MaxKills = 1
    MaxRestarts = 1

SPECIFICATION FairSpec

INVARIANTS
    TypeOK
    ExecutionAccounting
    NoOversleep
    RunsWithinSchedule

PROPERTIES
    ImplementsExecutions
    ExecutionEnds
    DueRuns

CHECK_DEADLOCK FALSE
