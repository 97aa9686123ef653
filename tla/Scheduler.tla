------------------------------ MODULE Scheduler ------------------------------
(***************************************************************************)
(* One worker process: the schedule loop (worker/core/scheduler.go), the   *)
(* executions it starts (executor.go), the watchers that feed it           *)
(* (job_mgr.go), and the status loop that writes to MySQL (status_mgr.go). *)
(*                                                                         *)
(* The keys /cron/jobs and the rows of the jobs are external, with the     *)
(* master's requests as their clients.  Other workers appear only through  *)
(* the outcome of TryLock (JobLock.tla): the lock may be occupied.         *)
(*                                                                         *)
(* Time is a clock of the model that may advance at any moment.  A handler *)
(* of the loop runs at one instant, and is atomic: the loop is the only    *)
(* user of its tables, and meets the other goroutines only in channels.    *)
(***************************************************************************)
EXTENDS Integers, SequencesExt

CONSTANTS
    Job,            \* the names of jobs; a name is used once, rows are kept
    Typ,            \* 0: cron job, 1: once job
    CronExpr,       \* "": none; "bad": does not parse; "never": parses, but
                    \* has no next time; "valid"
    Period,         \* a valid expression fires at the multiples of its Period
    ScheduleSleep,  \* config: schedule_sleep
    LockOutcomes,   \* what TryLock may return
    MayFail,        \* the worker's calls that may fail: "delete", of a once
                    \* job's key, "update", of a row
    MaxTime,        \* bound: the last instant
    MaxKills,       \* bound: kill history
    MaxRestarts     \* bound: restarts of the worker

ASSUME SchedulerAssumption ==
    /\ Typ \in [Job -> {0, 1}]
    /\ CronExpr \in [Job -> {"", "bad", "never", "valid"}]
    /\ Period \in [Job -> Nat \ {0}]
    /\ ScheduleSleep \in Nat
    /\ LockOutcomes \subseteq {"ok", "occupied", "error"}
    /\ MayFail \subseteq {"delete", "update"}
    /\ MaxTime \in Nat \ {0} /\ MaxKills \in Nat /\ MaxRestarts \in Nat

VARIABLES
    now,                \* the clock
    etcdJobs,           \* the jobs with a key under /cron/jobs
    status, num,        \* columns of the job's row; status NoRow: no row
    alive,              \* the worker process runs
    jobEventChan,       \* SAVE and DELETE events, watched or already queued
    killEvents,         \* number of KILL events under way, per job
    jobPlanTable,       \* NextTime of the planned jobs, else NoPlan
    jobExecutingTable,  \* the jobs being executed
    cancelled,          \* the executions whose CancelFunc was called
    goroutine,          \* the goroutine of ExecuteJob, per job
    jobResultChan,      \* results on their way to the loop
    statusChan,         \* [0] crontabChan, [1] OnceChan, split by job
    timer,              \* when scheduleTimer goes off, or NoTimer
    timerC,             \* scheduleTimer.C holds a tick
    panicked,           \* history: the worker ended by a panic
    ran,                \* history: commands started, per job
    history             \* history: kills and restarts so far, the jobs whose
                        \* deletion or killing was requested, the jobs that
                        \* lost the lock once, and those whose row missed an
                        \* update

worker == <<jobEventChan, killEvents, jobPlanTable, jobExecutingTable, cancelled,
            goroutine, jobResultChan, statusChan, timer, timerC>>
vars == <<now, etcdJobs, status, num, alive, worker, panicked, ran, history>>

NoPlan  == -1
NoTimer == -1
NoRow   == -1

\* common.StatusTyp
Waiting == 0
Planned == 1
Running == 2
Failed == 3
Done == 4
Deleted == 5

Min0(S) == CHOOSE x \in S : \A y \in S : x <= y

Event  == [type : {"save", "delete"}, job : Job]
Result == [job : Job, err : {"none", "occupied", "error"}]
StatusEvent == [status : 0..5, add : 0..1]

TypeOK ==
    /\ now \in 1..MaxTime
    /\ etcdJobs \subseteq Job
    /\ status \in [Job -> {NoRow} \cup 0..5]
    /\ num \in [Job -> Nat]
    /\ alive \in BOOLEAN
    /\ jobEventChan \in Seq(Event)
    /\ killEvents \in [Job -> Nat]
    /\ jobPlanTable \in [Job -> {NoPlan} \cup Nat]
    /\ jobExecutingTable \subseteq Job
    /\ cancelled \subseteq jobExecutingTable
    /\ goroutine \in [Job -> {"none", "sleep", "exec"}]
    /\ jobResultChan \in Seq(Result)
    /\ statusChan \in [{0, 1} -> [Job -> Seq(StatusEvent)]]
    /\ timer \in {NoTimer} \cup Nat
    /\ timerC \in BOOLEAN
    /\ panicked \in BOOLEAN
    /\ ran \in [Job -> Nat]
    /\ history \in [kills : Nat, restarts : Nat, asked : SUBSET Job,
                   lost : SUBSET Job, missed : SUBSET Job]

NothingQueued == [t \in {0, 1} |-> [j \in Job |-> << >>]]

\* The state of a fresh process: InitScheduler, and TrySchedule on no plans.
Init ==
    /\ now = 1
    /\ etcdJobs = {}
    /\ status = [j \in Job |-> NoRow]
    /\ num = [j \in Job |-> 0]
    /\ alive = TRUE
    /\ jobEventChan = << >>
    /\ killEvents = [j \in Job |-> 0]
    /\ jobPlanTable = [j \in Job |-> NoPlan]
    /\ jobExecutingTable = {}
    /\ cancelled = {}
    /\ goroutine = [j \in Job |-> "none"]
    /\ jobResultChan = << >>
    /\ statusChan = NothingQueued
    /\ timer = now + ScheduleSleep
    /\ timerC = FALSE
    /\ panicked = FALSE
    /\ ran = [j \in Job |-> 0]
    /\ history = [kills |-> 0, restarts |-> 0, asked |-> {}, lost |-> {},
                  missed |-> {}]

-----------------------------------------------------------------------------
(* The master's requests, and etcd *)

\* watchJobs and watchKiller push what etcd tells them, while the worker runs.
WatchJobs(type, j) ==
    jobEventChan' = IF alive THEN Append(jobEventChan, [type |-> type, job |-> j])
                             ELSE jobEventChan

WatchKiller(j) ==
    killEvents' = IF alive THEN [killEvents EXCEPT ![j] = @ + 1] ELSE killEvents

\* What watchJobs pushes at first: a SAVE event for each key its Get returns.
SaveEvents ==
    {[i \in DOMAIN s |-> [type |-> "save", job |-> s[i]]] : s \in SetToSeqs(etcdJobs)}

\* JobAdd: the row, then the key; a name that has a row is refused.
JobAdd(j) ==
    /\ status[j] = NoRow
    /\ status' = [status EXCEPT ![j] = Waiting]
    /\ etcdJobs' = etcdJobs \cup {j}
    /\ WatchJobs("save", j)
    /\ UNCHANGED <<now, num, alive, killEvents, jobPlanTable, jobExecutingTable, cancelled,
                   goroutine, jobResultChan, statusChan, timer, timerC, panicked, ran, history>>

\* The key is deleted; the watcher is told only if it was there.
EtcdDelete(j) ==
    /\ etcdJobs' = etcdJobs \ {j}
    /\ IF j \in etcdJobs THEN WatchJobs("delete", j) ELSE UNCHANGED jobEventChan

\* JobDelete: the key; the row is marked only if there was no key any more.
JobDelete(j) ==
    /\ status[j] # NoRow
    /\ j \in etcdJobs \/ status[j] # Deleted
    /\ EtcdDelete(j)
    /\ status' = IF j \in etcdJobs THEN status ELSE [status EXCEPT ![j] = Deleted]
    /\ history' = [history EXCEPT !.asked = @ \cup {j}]
    /\ UNCHANGED <<now, num, alive, killEvents, jobPlanTable, jobExecutingTable, cancelled,
                   goroutine, jobResultChan, statusChan, timer, timerC, panicked, ran>>

\* JobKill: a short-lived key under /cron/killer, seen by watchKiller.
JobKill(j) ==
    /\ history.kills < MaxKills
    /\ status[j] # NoRow
    /\ history' = [history EXCEPT !.kills = @ + 1, !.asked = @ \cup {j}]
    /\ WatchKiller(j)
    /\ UNCHANGED <<now, etcdJobs, status, num, alive, jobEventChan, jobPlanTable,
                   jobExecutingTable, cancelled, goroutine, jobResultChan, statusChan,
                   timer, timerC, panicked, ran>>

-----------------------------------------------------------------------------
(* The schedule loop *)

\* Expr.Next: the zero time when the expression has no next time.
ExprNext(j) == IF CronExpr[j] = "never" THEN 0 ELSE (now \div Period[j] + 1) * Period[j]

\* Mutant: GetNumField ignores its argument.
Push_AlwaysAdd(sc, typ, j, st, add) ==
    [sc EXCEPT ![typ][j] = Append(@, [status |-> st, add |-> 1])]

\* pushStatusEvent: the type of the event's job selects the channel.
Push(sc, typ, j, st, add) ==
    [sc EXCEPT ![typ][j] = Append(@, [status |-> st, add |-> add])]

Due(plan, j) == plan[j] # NoPlan /\ plan[j] <= now

\* Mutant: a job in execution is not skipped.
Starts_Overlap(plan, exec) == {j \in Job : Due(plan, j)}

\* TryStartJob: a due job that is not being executed is started.
Starts(plan, exec) == {j \in Job : Due(plan, j) /\ j \notin exec}

\* Mutant: the NextTime of a cron job that is skipped, or started, stays.
Replan_Kept(plan) == plan

\* The NextTime of a due cron job moves on, started or not.
Replan(plan) ==
    [j \in Job |-> IF Due(plan, j) /\ Typ[j] = 0 THEN ExprNext(j) ELSE plan[j]]

\* Expr is nil without an expression, and Expr.Next panics on nil: in the log
\* line that skips a job in execution, and after the start of a cron job.
NilExpr(plan, exec) ==
    \E j \in Job : Due(plan, j) /\ CronExpr[j] = "" /\ (j \in exec \/ Typ[j] = 0)

\* Mutant: scheduleAfter is always the configured sleep.
Wakeup_Sleep(plan) == now + ScheduleSleep

\* scheduleAfter as an instant: only cron jobs count.
Wakeup(plan) ==
    LET near == {plan[j] : j \in {k \in Job : Typ[k] = 0 /\ plan[k] # NoPlan}} IN
    IF near = {} THEN now + ScheduleSleep ELSE Min0(near)

\* TrySchedule and Reset, the tail of every iteration, from the tables and
\* queues the handler leaves.  A tick already in timerC is not drained.
TrySchedule(plan, exec, sc) ==
    IF NilExpr(plan, exec)
    THEN /\ alive' = FALSE
         /\ panicked' = TRUE
         /\ jobPlanTable' = plan
         /\ jobExecutingTable' = exec
         /\ statusChan' = sc
         /\ UNCHANGED <<goroutine, timer>>
    ELSE LET started == Starts(plan, exec) IN
         /\ jobPlanTable' = Replan(plan)
         /\ jobExecutingTable' = exec \cup started
         /\ goroutine' = [j \in Job |-> IF j \in started THEN "sleep" ELSE goroutine[j]]
         /\ statusChan' = [t \in {0, 1} |-> [j \in Job |->
                IF j \in started /\ Typ[j] = t
                THEN Append(sc[t][j], [status |-> Running, add |-> 0])
                ELSE sc[t][j]]]
         /\ timer' = Wakeup(Replan(plan))
         /\ UNCHANGED <<alive, panicked>>

\* BuildJobSchedulePlan; num is 0 in every key, so a once job is always due.
BuildJobSchedulePlan(j) == IF CronExpr[j] = "" THEN now ELSE ExprNext(j)

\* A SAVE event: the plan is built and replaces any other.
OnSave(j) ==
    IF CronExpr[j] = "bad"
    THEN TrySchedule(jobPlanTable, jobExecutingTable, statusChan)
    ELSE TrySchedule([jobPlanTable EXCEPT ![j] = BuildJobSchedulePlan(j)],
                     jobExecutingTable,
                     Push(statusChan, Typ[j], j, Planned, 0))

\* Mutant: a job in execution keeps its plan.
OnDelete_NotExecuting(j) ==
    IF jobPlanTable[j] = NoPlan \/ j \in jobExecutingTable
    THEN TrySchedule(jobPlanTable, jobExecutingTable, statusChan)
    ELSE TrySchedule([jobPlanTable EXCEPT ![j] = NoPlan],
                     jobExecutingTable,
                     Push(statusChan, 0, j, Deleted, 0))

\* A DELETE event: its Job has a name only, so Typ is 0 whatever the job is.
OnDelete(j) ==
    IF jobPlanTable[j] = NoPlan
    THEN TrySchedule(jobPlanTable, jobExecutingTable, statusChan)
    ELSE TrySchedule([jobPlanTable EXCEPT ![j] = NoPlan],
                     jobExecutingTable,
                     Push(statusChan, 0, j, Deleted, 0))

\* case jobEvent = <-jobEventChan, an event of watchJobs.
OnJobEvent ==
    /\ alive
    /\ jobEventChan # << >>
    /\ jobEventChan' = Tail(jobEventChan)
    /\ LET e == Head(jobEventChan) IN
       \/ e.type = "save" /\ OnSave(e.job)
       \/ e.type = "delete" /\ OnDelete(e.job)
    /\ UNCHANGED <<now, etcdJobs, status, num, killEvents, cancelled, jobResultChan, timerC,
                   ran, history>>

\* Mutant: the executing table is not consulted.
OnKill_Unchecked(j) ==
    /\ alive
    /\ killEvents[j] > 0
    /\ killEvents' = [killEvents EXCEPT ![j] = @ - 1]
    /\ cancelled' = cancelled \cup {j}
    /\ TrySchedule(jobPlanTable, jobExecutingTable, Push(statusChan, Typ[j], j, Failed, 1))
    /\ UNCHANGED <<now, etcdJobs, status, num, jobEventChan, jobResultChan, timerC, ran,
                   history>>

\* case jobEvent = <-jobEventChan, an event of watchKiller.  The two watchers
\* are different goroutines: their events arrive in any order.
OnKill(j) ==
    /\ alive
    /\ killEvents[j] > 0
    /\ killEvents' = [killEvents EXCEPT ![j] = @ - 1]
    /\ \/ /\ j \in jobExecutingTable
          /\ cancelled' = cancelled \cup {j}
          /\ TrySchedule(jobPlanTable, jobExecutingTable, Push(statusChan, Typ[j], j, Failed, 1))
       \/ /\ j \notin jobExecutingTable
          /\ cancelled' = cancelled
          /\ TrySchedule(jobPlanTable, jobExecutingTable, statusChan)
    /\ UNCHANGED <<now, etcdJobs, status, num, jobEventChan, jobResultChan, timerC, ran,
                   history>>

\* The runtime sends the tick.
TimerExpires ==
    /\ alive
    /\ timer # NoTimer /\ timer <= now
    /\ timer' = NoTimer
    /\ timerC' = TRUE
    /\ UNCHANGED <<now, etcdJobs, status, num, alive, jobEventChan, killEvents, jobPlanTable,
                   jobExecutingTable, cancelled, goroutine, jobResultChan, statusChan,
                   panicked, ran, history>>

\* case <-scheduleTimer.C
OnTimer ==
    /\ alive
    /\ timerC
    /\ timerC' = FALSE
    /\ TrySchedule(jobPlanTable, jobExecutingTable, statusChan)
    /\ UNCHANGED <<now, etcdJobs, status, num, jobEventChan, killEvents, cancelled,
                   jobResultChan, ran, history>>

\* The status a result leads to (handleJobResult).
ResultStatus(r) ==
    IF r.err = "error" THEN Failed ELSE IF Typ[r.job] = 0 THEN Planned ELSE Done

\* Mutant: the plan of a once job stays.
PlanAfterResult_Kept(j) == jobPlanTable

\* A once job is over whatever the result: its plan goes ...
PlanAfterResult(j) ==
    IF Typ[j] = 1 THEN [jobPlanTable EXCEPT ![j] = NoPlan] ELSE jobPlanTable

\* ... and its key goes, DeleteJob's error is only logged.
DropOnceJob(j) ==
    \/ Typ[j] = 1 /\ EtcdDelete(j)
    \/ (Typ[j] = 0 \/ "delete" \in MayFail) /\ UNCHANGED <<etcdJobs, jobEventChan>>

\* case jobResult = <-jobResultChan
OnJobResult ==
    /\ alive
    /\ jobResultChan # << >>
    /\ jobResultChan' = Tail(jobResultChan)
    /\ LET r == Head(jobResultChan)
           j == r.job
       IN  /\ cancelled' = cancelled \ {j}
           /\ DropOnceJob(j)
           /\ TrySchedule(PlanAfterResult(j),
                          jobExecutingTable \ {j},
                          IF r.err = "occupied" THEN statusChan
                          ELSE Push(statusChan, Typ[j], j, ResultStatus(r), 1))
    /\ UNCHANGED <<now, status, num, killEvents, timerC, ran, history>>

-----------------------------------------------------------------------------
(* The executions *)

\* Mutant: the loser of the lock returns without a result.
PushJobResult_NotOccupied(j, err) ==
    /\ goroutine' = [goroutine EXCEPT ![j] = "none"]
    /\ jobResultChan' = IF err = "occupied" THEN jobResultChan
                        ELSE Append(jobResultChan, [job |-> j, err |-> err])

\* The goroutine ends with PushJobResult.
PushJobResult(j, err) ==
    /\ goroutine' = [goroutine EXCEPT ![j] = "none"]
    /\ jobResultChan' = Append(jobResultChan, [job |-> j, err |-> err])

\* Mutant: the test of TryLock's error is reversed.
TryLock_Reversed(j, outcome) ==
    /\ alive
    /\ goroutine[j] = "sleep"
    /\ outcome = "ok"
    /\ PushJobResult(j, "none")
    /\ UNCHANGED <<now, etcdJobs, status, num, alive, jobEventChan, killEvents, jobPlanTable,
                   jobExecutingTable, cancelled, statusChan, timer, timerC, panicked, ran,
                   history>>

\* Mutant: the command does not get the context that is cancelled.
TryLock_Uncancelled(j, outcome) ==
    /\ alive
    /\ goroutine[j] = "sleep"
    /\ \/ /\ outcome = "ok"
          /\ goroutine' = [goroutine EXCEPT ![j] = "exec"]
          /\ ran' = [ran EXCEPT ![j] = @ + 1]
          /\ UNCHANGED jobResultChan
       \/ /\ outcome # "ok"
          /\ PushJobResult(j, outcome)
          /\ UNCHANGED ran
    /\ history' = IF outcome = "occupied" THEN [history EXCEPT !.lost = @ \cup {j}] ELSE history
    /\ UNCHANGED <<now, etcdJobs, status, num, alive, jobEventChan, killEvents, jobPlanTable,
                   jobExecutingTable, cancelled, statusChan, timer, timerC, panicked>>

\* After its random sleep the goroutine tries the lock.  The command of a
\* cancelled context does not start.
TryLock(j, outcome) ==
    /\ alive
    /\ goroutine[j] = "sleep"
    /\ \/ /\ outcome = "ok" /\ j \notin cancelled
          /\ goroutine' = [goroutine EXCEPT ![j] = "exec"]
          /\ ran' = [ran EXCEPT ![j] = @ + 1]
          /\ UNCHANGED jobResultChan
       \/ /\ outcome # "ok" \/ j \in cancelled
          /\ PushJobResult(j, IF outcome = "occupied" THEN "occupied" ELSE "error")
          /\ UNCHANGED ran
    /\ history' = IF outcome = "occupied" THEN [history EXCEPT !.lost = @ \cup {j}] ELSE history
    /\ UNCHANGED <<now, etcdJobs, status, num, alive, jobEventChan, killEvents, jobPlanTable,
                   jobExecutingTable, cancelled, statusChan, timer, timerC, panicked>>

\* The command ends by itself, well or badly, or because it was cancelled.
CommandEnds(j) ==
    /\ alive
    /\ goroutine[j] = "exec"
    /\ \E err \in {"none", "error"} : PushJobResult(j, err)
    /\ UNCHANGED <<now, etcdJobs, status, num, alive, jobEventChan, killEvents, jobPlanTable,
                   jobExecutingTable, cancelled, statusChan, timer, timerC, panicked, ran,
                   history>>

-----------------------------------------------------------------------------
(* The status loop *)

\* updateStatusLoop: the row of the event's job is updated; an error is only
\* logged, the event is gone.
UpdateStatus(t, j) ==
    /\ alive
    /\ statusChan[t][j] # << >>
    /\ \/ LET e == Head(statusChan[t][j]) IN
          /\ status' = [status EXCEPT ![j] = e.status]
          /\ num' = [num EXCEPT ![j] = IF t = 0 THEN @ + e.add ELSE 1]
          /\ UNCHANGED history
       \/ /\ "update" \in MayFail
          /\ history' = [history EXCEPT !.missed = @ \cup {j}]
          /\ UNCHANGED <<status, num>>
    /\ statusChan' = [statusChan EXCEPT ![t][j] = Tail(@)]
    /\ UNCHANGED <<now, etcdJobs, alive, jobEventChan, killEvents, jobPlanTable,
                   jobExecutingTable, cancelled, goroutine, jobResultChan, timer, timerC,
                   panicked, ran>>

-----------------------------------------------------------------------------
(* The environment of the process *)

Tick ==
    /\ now < MaxTime
    /\ now' = now + 1
    /\ UNCHANGED <<etcdJobs, status, num, alive, worker, panicked, ran, history>>

\* The process is gone, with its goroutines, tables and channels.
Crash ==
    /\ alive
    /\ history.restarts < MaxRestarts
    /\ alive' = FALSE
    /\ UNCHANGED <<now, etcdJobs, status, num, worker, panicked, ran, history>>

\* A new process: watchJobs sends the jobs it finds in etcd, then the events
\* of later revisions.  Somebody has to start it: nothing in the repository
\* restarts a worker.
Restart ==
    /\ ~alive
    /\ history.restarts < MaxRestarts
    /\ history' = [history EXCEPT !.restarts = @ + 1]
    /\ alive' = TRUE
    /\ jobEventChan' \in SaveEvents
    /\ killEvents' = [j \in Job |-> 0]
    /\ jobPlanTable' = [j \in Job |-> NoPlan]
    /\ jobExecutingTable' = {}
    /\ cancelled' = {}
    /\ goroutine' = [j \in Job |-> "none"]
    /\ jobResultChan' = << >>
    /\ statusChan' = NothingQueued
    /\ timer' = now + ScheduleSleep
    /\ timerC' = FALSE
    /\ UNCHANGED <<now, etcdJobs, status, num, panicked, ran>>

-----------------------------------------------------------------------------

Next ==
    \/ OnJobEvent
    \/ OnTimer
    \/ OnJobResult
    \/ TimerExpires
    \/ Tick
    \/ Crash
    \/ Restart
    \/ \E j \in Job :
          \/ JobAdd(j)
          \/ JobDelete(j)
          \/ JobKill(j)
          \/ OnKill(j)
          \/ \E o \in LockOutcomes : TryLock(j, o)
          \/ CommandEnds(j)
          \/ \E t \in {0, 1} : UpdateStatus(t, j)

Spec == Init /\ [][Next]_vars

\* The loops run, select starves no channel, timers go off, TryLock returns
\* and commands end.  Nobody has to make requests, nor to restart the worker.
Fairness ==
    /\ WF_vars(OnJobEvent) /\ WF_vars(OnTimer) /\ WF_vars(OnJobResult)
    /\ WF_vars(TimerExpires)
    /\ \A j \in Job :
          /\ WF_vars(OnKill(j))
          /\ WF_vars(\E o \in LockOutcomes : TryLock(j, o))
          /\ WF_vars(CommandEnds(j))
          /\ \A t \in {0, 1} : WF_vars(UpdateStatus(t, j))

FairSpec == Spec /\ Fairness

-----------------------------------------------------------------------------
(* Properties *)

InPlan(j) == jobPlanTable[j] # NoPlan

ResultsOf(j) == {i \in DOMAIN jobResultChan : jobResultChan[i].job = j}
EventsOf(j)  == {i \in DOMAIN jobEventChan : jobEventChan[i].job = j}

\* An entry of jobExecutingTable stands for one live goroutine or one queued
\* result, never both, never two: a job does not run twice at once in a
\* worker, and no execution is forgotten (TryStartJob, handleJobResult).
ExecutionAccounting ==
    alive => \A j \in Job :
        Cardinality(ResultsOf(j)) + (IF goroutine[j] = "none" THEN 0 ELSE 1)
            = (IF j \in jobExecutingTable THEN 1 ELSE 0)

\* Is j planned once every queued event is handled?
PlannedAfterEvents(j) ==
    IF EventsOf(j) = {} THEN InPlan(j)
    ELSE jobEventChan[Max(EventsOf(j))].type = "save"

\* No event is lost: once the queued events are handled the plan table has
\* the jobs of etcd, across restarts (watchJobs' Get and Watch, handleJobEvent,
\* the removal of once jobs in handleJobResult).
PlanFollowsEtcd ==
    alive => \A j \in Job : CronExpr[j] # "bad" =>
        /\ PlannedAfterEvents(j) => j \in etcdJobs
        /\ j \in etcdJobs => PlannedAfterEvents(j) \/ (Typ[j] = 1 /\ "delete" \in MayFail)

\* The loop never sleeps past a cron job's time: a tick is waiting, or the
\* timer goes off no later than the next one (scheduleAfter and Reset).
NoOversleep ==
    alive /\ ~timerC =>
        /\ timer # NoTimer
        /\ \A j \in Job : InPlan(j) /\ Typ[j] = 0 => timer <= jobPlanTable[j]

\* Nobody but the user withdraws a once job before its command was started,
\* crashes included, unless another worker had its lock: what the loser then
\* withdraws is the subject of Cluster (handleJobResult, DeleteJob).  (Without
\* errors of TryLock: an error, too, withdraws a job that did not run.)
OnceKeyKept ==
    \A j \in Job :
        /\ Typ[j] = 1 /\ status[j] # NoRow
        /\ j \notin etcdJobs /\ j \notin history.asked \cup history.lost
        => ran[j] >= 1

\* A once job is not started again, unless the worker was restarted: the plan
\* it leaves behind is due, and goes with its result.
OnceRunsOnce == \A j \in Job : Typ[j] = 1 => ran[j] <= 1 + history.restarts

\* A cron job is started at most once for each time its expression names,
\* although its plan may be replaced, skipped while it is executed, and met by
\* ticks that were sent before the timer was set anew (TrySchedule, Reset).
\* (Until the first restart.)
RunsWithinSchedule ==
    \A j \in Job :
        Typ[j] = 0 /\ CronExpr[j] = "valid" /\ history.restarts = 0
            => ran[j] <= now \div Period[j] - 1 \div Period[j]

\* Nothing that could still change the row of j is under way.
Settled(j) ==
    /\ alive
    /\ goroutine[j] = "none" /\ ResultsOf(j) = {} /\ EventsOf(j) = {}
    /\ \A t \in {0, 1} : statusChan[t][j] = << >>

\* Once all is quiet the row tells a planned job from one that runs, with two
\* exceptions that are the code's: the loser of the lock stays Running, and a
\* job deleted while it is executed goes back to Planned or Failed.  (Until
\* the first restart, which loses queued events, and the first update of the
\* row that fails.)
StatusSettles ==
    \A j \in Job : Settled(j) /\ history.restarts = 0 /\ j \notin history.missed =>
        /\ status[j] = Running => j \in history.lost
        /\ status[j] = Planned => InPlan(j) \/ j \in history.asked
        /\ InPlan(j) /\ j \notin history.lost => status[j] \in {Planned, Failed}
        /\ status[j] = Done => ran[j] >= 1

AddsOf(j) == Cardinality({i \in DOMAIN statusChan[0][j] : statusChan[0][j][i].add = 1})

CountedResults(j) == {i \in ResultsOf(j) : jobResultChan[i].err # "occupied"}

\* num counts the commands of a cron job: those in the row, those whose
\* event is queued, and the one that is running or whose result is queued.
\* (Without failing grants of the lock, nor failing updates; a kill is counted
\* beside its result.)
NumCountsRuns ==
    alive /\ history.restarts = 0 /\ history.kills = 0 =>
      \A j \in Job : Typ[j] = 0 /\ j \notin history.missed =>
        num[j] + AddsOf(j) + Cardinality(CountedResults(j))
               + (IF goroutine[j] = "exec" THEN 1 ELSE 0) = ran[j]

\* Tables, goroutines and results are executions as Executions describes them.
Phase(j) ==
    IF ~alive \/ j \notin jobExecutingTable THEN "idle"
    ELSE CASE goroutine[j] = "sleep" -> "waiting"
           [] goroutine[j] = "exec"  -> "running"
           [] goroutine[j] = "none"  -> "ended"

Abstract ==
    INSTANCE Executions WITH phase  <- [j \in Job |-> Phase(j)],
                             killed <- IF alive THEN cancelled ELSE {}

\* One execution of a job at a time: nothing but its result makes room for the
\* next one, whatever events, kills, ticks and crashes come between.  A kill
\* keeps the execution that it finds from starting its command, if that still
\* waits, and concerns no other (TryStartJob, handleJobEvent, handleJobResult,
\* ExecuteJob).  When a command that runs already ends is not said.
ImplementsExecutions == Abstract!Spec

\* An execution ends, whatever the lock and the command answer.
ExecutionEnds ==
    \A j \in Job : j \in jobExecutingTable ~> (j \notin jobExecutingTable \/ ~alive)

\* A cron job whose time has come is executed, unless it is deleted.
DueRuns ==
    \A j \in Job :
        (Typ[j] = 0 /\ Due(jobPlanTable, j))
            ~> (j \in jobExecutingTable \/ ~InPlan(j) \/ ~alive)

\* "If the job is being executed, skip this execution" (scheduler.go:125): the
\* loop goes on.
NoPanic == ~panicked

=============================================================================
