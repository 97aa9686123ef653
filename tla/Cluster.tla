------------------------------- MODULE Cluster -------------------------------
(***************************************************************************)
(* A once job on several workers: JobLock composed with what the schedule  *)
(* loop of each worker (worker/core/scheduler.go) does about that job.     *)
(* Every worker that sees the key plans the job and starts an execution,   *)
(* which sleeps and competes for the lock; every result, also that of a    *)
(* loser, withdraws the job from the plan of its worker and from etcd.     *)
(*                                                                         *)
(* Other jobs, and the waking up of the loop by them or by the timer,      *)
(* appear as OnOther.  Kills and deletions by a user are in Scheduler.     *)
(***************************************************************************)
EXTENDS JobLock, Sequences, FiniteSets

CONSTANT MayFail        \* the workers' calls that may fail: "lock", a call of
                        \* TryLock, "delete", of the job's key, "renew", a
                        \* keep-alive

ASSUME ClusterAssumption == MayFail \subseteq {"lock", "delete", "renew"}

VARIABLES
    jobKey,     \* the key /cron/jobs/<job>: "new" before JobAdd, "put", "gone",
                \* or "kept": it is there, a worker failed to delete it
    up,         \* the workers whose process runs
    events,     \* the job's events on their way to each loop
    plan,       \* the workers with the job in jobPlanTable
    exec,       \* the executions in a worker's jobExecutingTable
    used,       \* the executions that have begun; each name stands for one
    reported,   \* the executions that called PushJobResult
    started,    \* history: the executions whose command was started
    faulty      \* history: a call of TryLock failed, or a worker died

loop == <<jobKey, up, events, plan, exec, used, reported, started, faulty>>
clusterVars == <<vars, loop>>

RunsOf(w) == {r \in Run : Host[r] = w}

\* The types; and an execution in TryLock or at the command is accounted for
\* in the executing table of a running worker, until it reports.
ClusterTypeOK ==
    /\ TypeOK
    /\ jobKey \in {"new", "put", "kept", "gone"}
    /\ up \subseteq Worker
    /\ events \in [Worker -> Seq({"save", "delete"})]
    /\ plan \subseteq up
    /\ used \subseteq Run
    /\ exec \subseteq used
    /\ reported \subseteq used
    /\ started \subseteq used
    /\ \A r \in Run : pc[r] \notin {"idle", "pushed"} => r \in exec \ reported
    /\ \A r \in exec : Host[r] \in up
    /\ faulty \in BOOLEAN

ClusterInit ==
    /\ Init
    /\ jobKey = "new"
    /\ up = Worker
    /\ events = [w \in Worker |-> << >>]
    /\ plan = {}
    /\ exec = {}
    /\ used = {}
    /\ reported = {}
    /\ started = {}
    /\ faulty = FALSE

Exists == jobKey \in {"put", "kept"}

\* watchJobs of every running worker queues a change of the key.
WatchJobs(type) ==
    [w \in Worker |-> IF w \in up THEN Append(events[w], type) ELSE events[w]]

\* The master puts the key, once: its name is refused afterwards.
JobAdd ==
    /\ jobKey = "new"
    /\ jobKey' = "put"
    /\ events' = WatchJobs("save")
    /\ UNCHANGED <<vars, up, plan, exec, used, reported, started, faulty>>

-----------------------------------------------------------------------------
(* The end of a process *)

\* The process ends, with its goroutines, tables and renewals.
ProcessEnds(w) ==
    /\ IF \E r \in RunsOf(w) : pc[r] # "idle" THEN Crash(w) ELSE UNCHANGED vars
    /\ up' = up \ {w}
    /\ plan' = plan \ {w}
    /\ exec' = exec \ RunsOf(w)
    /\ faulty' = TRUE
    /\ UNCHANGED used

WorkerDies(w) ==
    /\ w \in up
    /\ ProcessEnds(w)
    /\ events' = [events EXCEPT ![w] = << >>]
    /\ UNCHANGED <<jobKey, reported, started>>

\* A new process.  Its watchJobs finds the key, or does not.  (Bound: while
\* there is a name left for its execution.)
Restart(w) ==
    /\ w \notin up
    /\ RunsOf(w) \ used # {}
    /\ up' = up \cup {w}
    /\ events' = [events EXCEPT ![w] = IF Exists THEN <<"save">> ELSE << >>]
    /\ UNCHANGED <<vars, jobKey, plan, exec, used, reported, started, faulty>>

-----------------------------------------------------------------------------
(* The schedule loop of worker w *)

Fresh(w) == CHOOSE r \in RunsOf(w) \ used : TRUE

\* TrySchedule, the tail of every iteration, from the plan and the executions
\* the handler leaves.  A planned once job is due: it is started or, if it is
\* being executed, met by the log line that panics on its nil expression.
TrySchedule(w, planned, executing) ==
    \/ planned /\ executing # {} /\ ProcessEnds(w)
    \/ /\ planned /\ executing = {}
       /\ RunsOf(w) \ used # {}
       /\ exec' = (exec \ RunsOf(w)) \cup {Fresh(w)}
       /\ used' = used \cup {Fresh(w)}
       /\ plan' = plan \cup {w}
       /\ UNCHANGED <<vars, up, faulty>>
    \/ /\ ~planned
       /\ plan' = plan \ {w}
       /\ exec' = (exec \ RunsOf(w)) \cup executing
       /\ UNCHANGED <<vars, up, used, faulty>>

\* Mutant: a deleted job leaves the executing table, too.
OnJobEvent_Forgets(w) ==
    /\ w \in up
    /\ events[w] # << >>
    /\ events' = [events EXCEPT ![w] = Tail(@)]
    /\ TrySchedule(w, Head(events[w]) = "save", {})
    /\ UNCHANGED <<jobKey, reported, started>>

\* A SAVE or DELETE event of the job.
OnJobEvent(w) ==
    /\ w \in up
    /\ events[w] # << >>
    /\ events' = [events EXCEPT ![w] = Tail(@)]
    /\ TrySchedule(w, Head(events[w]) = "save", exec \cap RunsOf(w))
    /\ UNCHANGED <<jobKey, reported, started>>

\* The timer, or an event or a result of another job.
OnOther(w) ==
    /\ w \in plan
    /\ TrySchedule(w, TRUE, exec \cap RunsOf(w))
    /\ UNCHANGED <<jobKey, events, reported, started>>

\* A result takes the once job from the plan table ...
PlannedAfterResult == FALSE

\* Mutant: only the worker that started the command deletes the key.
DropJob_WinnerOnly(r) ==
    \/ /\ Exists /\ r \in started
       /\ jobKey' = "gone"
       /\ events' = WatchJobs("delete")
    \/ ~(Exists /\ r \in started) /\ UNCHANGED <<jobKey, events>>

\* ... and from etcd, whatever it says; an error of DeleteJob is only logged.
DropJob(r) ==
    \/ Exists /\ jobKey' = "gone" /\ events' = WatchJobs("delete")
    \/ Exists /\ "delete" \in MayFail /\ jobKey' = "kept" /\ UNCHANGED events
    \/ ~Exists /\ UNCHANGED <<jobKey, events>>

OnJobResult(r) ==
    /\ r \in exec \cap reported
    /\ DropJob(r)
    /\ TrySchedule(Host[r], PlannedAfterResult, {})
    /\ UNCHANGED <<reported, started>>

-----------------------------------------------------------------------------
(* The execution r: ExecuteJob around the steps of JobLock *)

Trying(r) == r \in exec \ reported

\* A step of TryLock; failed: one of its calls returned an error.
LockStep(step, failed) ==
    /\ step
    /\ failed => "lock" \in MayFail
    /\ faulty' = (faulty \/ failed)
    /\ UNCHANGED <<jobKey, up, events, plan, exec, used, started>>

Report(r) == reported' = reported \cup {r}

\* After the random sleep: the lease is granted, or Grant fails.
Begin(r) ==
    /\ Trying(r)
    /\ pc[r] = "idle"
    /\ \/ LockStep(Grant(r), FALSE) /\ UNCHANGED reported
       \/ LockStep(UNCHANGED vars, TRUE) /\ Report(r)

Continue(r) ==
    /\ Trying(r)
    /\ \/ LockStep(KeepAlive(r), pc'[r] = "failing")
       \/ LockStep(TxnSucceeds(r), FALSE)
       \/ LockStep(TxnFails(r), KeyAbsent)
    /\ UNCHANGED reported

\* TryLock returned an error: that is the result.
GiveUp(r) == Trying(r) /\ LockStep(Fail(r), FALSE) /\ Report(r)

\* The command is started under the lock.
StartCommand(r) ==
    /\ pc[r] = "locked"
    /\ r \notin started
    /\ started' = started \cup {r}
    /\ UNCHANGED <<vars, jobKey, up, events, plan, exec, used, reported, faulty>>

CommandEnds(r) == r \in started /\ LockStep(Finish(r), FALSE) /\ Report(r)

Release(r) == LockStep(Unlock(r), FALSE) /\ UNCHANGED reported

Execution(r) ==
    \/ Begin(r)
    \/ Continue(r)
    \/ GiveUp(r)
    \/ StartCommand(r)
    \/ CommandEnds(r)
    \/ Release(r)

-----------------------------------------------------------------------------

Environment ==
    /\ \/ \E l \in alive : Expire(l)
       \/ "renew" \in MayFail /\ \E l \in keep : KeepAliveLost(l)
    /\ UNCHANGED loop

ClusterNext ==
    \/ JobAdd
    \/ \E w \in Worker :
          \/ WorkerDies(w)
          \/ Restart(w)
          \/ OnJobEvent(w)
          \/ OnOther(w)
    \/ \E r \in Run :
          \/ OnJobResult(r)
          \/ Execution(r)
    \/ Environment

ClusterSpec == ClusterInit /\ [][ClusterNext]_clusterVars

\* Loops and executions go on, commands end, and etcd expires leases.
\* Nobody has to add the job, to restart a worker or to wake up its loop.
ClusterFairSpec ==
    /\ ClusterSpec
    /\ \A w \in Worker : WF_clusterVars(OnJobEvent(w))
    /\ \A r \in Run :
          /\ WF_clusterVars(OnJobResult(r))
          /\ WF_clusterVars(Execution(r))
    /\ \A l \in 1..MaxLease : WF_clusterVars(Expire(l) /\ UNCHANGED loop)

-----------------------------------------------------------------------------
(* Properties *)

\* When a once job is withdrawn from etcd somebody has taken it: its command
\* was started, or is about to be.  The loser of the lock withdraws it too, so
\* this rests on the winner.  (While no worker dies and no call of TryLock
\* fails: either can withdraw a job that never ran.)
WithdrawnWasTaken ==
    jobKey = "gone" /\ ~faulty => started # {} \/ \E r \in Run : pc[r] = "locked"

\* A once job does not stay in etcd, where each new worker would find it: it
\* is withdrawn while any worker lives long enough, unless the call fails.
OnceWithdrawn ==
    \A w \in Worker : (jobKey = "put" /\ w \in up) ~> (jobKey # "put" \/ w \notin up)

\* "Once job": its command is started once in the whole cluster, if nothing
\* fails ("delete it from the plan, lest it be scheduled again",
\* scheduler.go:157).
OnceRunsOnce == ~faulty => Cardinality(started) <= 1

=============================================================================
