------------------------------- MODULE Startup -------------------------------
(***************************************************************************)
(* The start of worker processes, worker/main.go, composed with their      *)
(* registration (WorkerRegistry).  main calls InitRegister, InitScheduler, *)
(* InitJobMgr, InitStatusMgr, InitExecutor and InitLogMgr in this order;   *)
(* the goroutines of the first ones run while the later ones are not set   *)
(* up.  An error makes main return, and the process exits.                 *)
(*                                                                         *)
(* The jobs are cron jobs, as the schedule loop sees them (Scheduler): the *)
(* key of each name is put once and deleted at most once.  The history of  *)
(* /cron/jobs is etcd's: its length stands for the revision.               *)
(***************************************************************************)
EXTENDS WorkerRegistry, SequencesExt

CONSTANTS
    Job,        \* the names of jobs
    MayFail     \* the calls at start that may fail: "register", all up to
                \* InitRegister, "jobMgr", the connection of InitJobMgr, "get"

ASSUME StartupAssumption == MayFail \subseteq {"register", "jobMgr", "get"}

VARIABLES
    main,       \* the next call of each worker's main
    changes,    \* the changes of /cron/jobs so far
    rev,        \* the revision of the Get of watchJobs, or NoRev
    cursor,     \* the last revision the watcher delivered, NoRev: not started
    queue,      \* jobEventChan
    plan,       \* jobPlanTable
    exec,       \* jobExecutingTable
    panicked    \* history: a worker ended by a nil manager

worker == <<rev, cursor, queue, plan, exec>>
boot == <<main, changes, worker, panicked>>
startupVars == <<vars, boot>>

NoRev == -1

\* "ready": main blocks in its select.
Stage == {"off", "register", "jobMgr", "get", "statusMgr", "logMgr", "ready"}

Change == [type : {"save", "delete"}, job : Job]

StartupTypeOK ==
    /\ main \in [Worker -> Stage]
    /\ \A w \in Worker : pc[w] = "off" <=> main[w] \in {"off", "register"}
    /\ changes \in Seq(Change)
    /\ rev \in [Worker -> {NoRev} \cup 0..Len(changes)]
    /\ cursor \in [Worker -> {NoRev} \cup 0..Len(changes)]
    /\ queue \in [Worker -> Seq(Change)]
    /\ plan \in [Worker -> SUBSET Job]
    /\ exec \in [Worker -> SUBSET Job]
    /\ panicked \in BOOLEAN

StartupInit ==
    /\ Init
    /\ main = [w \in Worker |-> "off"]
    /\ changes = << >>
    /\ rev = [w \in Worker |-> NoRev]
    /\ cursor = [w \in Worker |-> NoRev]
    /\ queue = [w \in Worker |-> << >>]
    /\ plan = [w \in Worker |-> {}]
    /\ exec = [w \in Worker |-> {}]
    /\ panicked = FALSE

\* The names of the events of a type among a sequence of changes.
Named(type, s) == {s[i].job : i \in {k \in DOMAIN s : s[k].type = type}}

\* The keys under /cron/jobs after some changes.
Keys(s) == Named("save", s) \ Named("delete", s)

\* The master puts or deletes a key.
MasterChanges ==
    /\ \E j \in Job :
          \/ /\ j \notin Named("save", changes)
             /\ changes' = Append(changes, [type |-> "save", job |-> j])
          \/ /\ j \in Keys(changes)
             /\ changes' = Append(changes, [type |-> "delete", job |-> j])
    /\ UNCHANGED <<vars, main, worker, panicked>>

-----------------------------------------------------------------------------
(* main *)

ToStage(w, from, to) ==
    /\ main[w] = from
    /\ main' = [main EXCEPT ![w] = to]
    /\ UNCHANGED <<changes, panicked>>

\* The process exits, with all it had.
ProcessEnds(w) ==
    /\ main' = [main EXCEPT ![w] = "off"]
    /\ IF pc[w] = "off" THEN UNCHANGED vars ELSE Crash(w)
    /\ rev' = [rev EXCEPT ![w] = NoRev]
    /\ cursor' = [cursor EXCEPT ![w] = NoRev]
    /\ queue' = [queue EXCEPT ![w] = << >>]
    /\ plan' = [plan EXCEPT ![w] = {}]
    /\ exec' = [exec EXCEPT ![w] = {}]
    /\ UNCHANGED changes

Boot(w) == ToStage(w, "off", "register") /\ UNCHANGED <<vars, worker>>

\* InitRegister has connected and found an address: keepOnline starts.
InitRegister(w) == ToStage(w, "register", "jobMgr") /\ Start(w) /\ UNCHANGED worker

\* InitScheduler started the loop; InitJobMgr connects.
InitJobMgr(w) == ToStage(w, "jobMgr", "get") /\ UNCHANGED <<vars, worker>>

\* goto ERR.  A worker that is registered stays so until its lease expires.
MainFails(w) ==
    /\ main[w] \in MayFail \cap {"register", "jobMgr"}
    /\ ProcessEnds(w)
    /\ UNCHANGED panicked

\* The Get of watchJobs: its keys are queued as SAVE events.
GetJobs(w) ==
    /\ ToStage(w, "get", "statusMgr")
    /\ rev' = [rev EXCEPT ![w] = Len(changes)]
    /\ \E s \in SetToSeqs(Keys(changes)) :
          queue' = [queue EXCEPT ![w] =
                       [i \in DOMAIN s |-> [type |-> "save", job |-> s[i]]]]
    /\ UNCHANGED <<vars, cursor, plan, exec>>

\* An error of the Get is ignored: there is no watcher.
GetFails(w) ==
    /\ "get" \in MayFail
    /\ ToStage(w, "get", "statusMgr")
    /\ UNCHANGED <<vars, worker>>

InitStatusMgr(w) == ToStage(w, "statusMgr", "logMgr") /\ UNCHANGED <<vars, worker>>

InitLogMgr(w) == ToStage(w, "logMgr", "ready") /\ UNCHANGED <<vars, worker>>

\* The singletons that are nil until main gets there.
GStatusMgrSet(w) == main[w] \in {"logMgr", "ready"}
GLogMgrSet(w) == main[w] = "ready"

-----------------------------------------------------------------------------
(* The goroutines of a starting worker *)

\* Mutant: the watch starts at the present revision.
WatchFrom_Now(w) == Len(changes)

\* Mutant: off by one, the first change is skipped.
WatchFrom_Next(w) == rev[w] + 1

\* watchStartRevision, less one.
WatchFrom(w) == rev[w]

StartWatch(w) ==
    /\ rev[w] # NoRev
    /\ cursor[w] = NoRev
    /\ cursor' = [cursor EXCEPT ![w] = WatchFrom(w)]
    /\ UNCHANGED <<vars, main, changes, rev, queue, plan, exec, panicked>>

\* The next change is pushed to the loop.
WatchJobs(w) ==
    /\ cursor[w] \in 0..(Len(changes) - 1)
    /\ cursor' = [cursor EXCEPT ![w] = @ + 1]
    /\ queue' = [queue EXCEPT ![w] = Append(@, changes[cursor[w] + 1])]
    /\ UNCHANGED <<vars, main, changes, rev, plan, exec, panicked>>

\* A nil manager is called: the panic ends the process.
Panics(w) == ProcessEnds(w) /\ panicked' = TRUE

\* The loop handles an event; a change of the plan is pushed to GStatusMgr.
OnJobEvent(w) ==
    /\ queue[w] # << >>
    /\ LET e == Head(queue[w])
           planned == IF e.type = "save" THEN plan[w] \cup {e.job} ELSE plan[w] \ {e.job}
       IN  \/ /\ GStatusMgrSet(w) \/ (e.type = "delete" /\ planned = plan[w])
              /\ plan' = [plan EXCEPT ![w] = planned]
              /\ queue' = [queue EXCEPT ![w] = Tail(@)]
              /\ UNCHANGED <<vars, main, changes, rev, cursor, exec, panicked>>
           \/ /\ ~GStatusMgrSet(w) /\ (e.type = "save" \/ planned # plan[w])
              /\ Panics(w)

\* A due job is started.  (ExecuteJob works on a nil GExecutor, too.)
JobStarts(w, j) ==
    /\ j \in plan[w] \ exec[w]
    /\ exec' = [exec EXCEPT ![w] = @ \cup {j}]
    /\ UNCHANGED <<vars, main, changes, rev, cursor, queue, plan, panicked>>

\* Its result arrives, before or after InitLogMgr; without the lock there is
\* no log to append.
JobEnds(w, j) ==
    /\ j \in exec[w]
    /\ \/ /\ exec' = [exec EXCEPT ![w] = @ \ {j}]
          /\ UNCHANGED <<vars, main, changes, rev, cursor, queue, plan, panicked>>
       \/ ~GLogMgrSet(w) /\ Panics(w)

ProcessDies(w) == main[w] # "off" /\ ProcessEnds(w) /\ UNCHANGED panicked

-----------------------------------------------------------------------------

\* keepOnline and etcd go on beside main.
Registration(w) ==
    /\ \/ Grant(w)
       \/ KeepAlive(w)
       \/ Put(w)
       \/ KeepAliveEnds(w)
       \/ Retry(w)
    /\ UNCHANGED boot

Environment ==
    /\ \/ \E w \in Worker : \E l \in keep[w] : KeepAliveLost(w, l)
       \/ \E l \in alive : Expire(l)
    /\ UNCHANGED boot

Main(w) ==
    \/ InitRegister(w)
    \/ InitJobMgr(w)
    \/ MainFails(w)
    \/ GetJobs(w)
    \/ GetFails(w)
    \/ InitStatusMgr(w)
    \/ InitLogMgr(w)

Watch(w) == StartWatch(w) \/ WatchJobs(w)

StartupNext ==
    \/ MasterChanges
    \/ \E w \in Worker :
          \/ Boot(w)
          \/ Main(w)
          \/ Watch(w)
          \/ OnJobEvent(w)
          \/ \E j \in Job : JobStarts(w, j) \/ JobEnds(w, j)
          \/ ProcessDies(w)
          \/ Registration(w)
    \/ Environment

StartupSpec == StartupInit /\ [][StartupNext]_startupVars

\* A started process goes on, and etcd expires leases; nobody has to start a
\* process, nor to change the jobs.
StartupFairSpec ==
    /\ StartupSpec
    /\ \A w \in Worker :
          /\ WF_startupVars(Main(w)) /\ WF_startupVars(Watch(w))
          /\ WF_startupVars(OnJobEvent(w)) /\ WF_startupVars(Registration(w))
    /\ \A l \in 1..MaxLease : WF_startupVars(l \in alive /\ Expire(l) /\ UNCHANGED boot)

-----------------------------------------------------------------------------
(* Properties *)

\* Once a worker has caught up, its plan table has the jobs of etcd: what its
\* Get returned and what happened since, in the order of the revisions.
CaughtUpPlansJobs ==
    \A w \in Worker :
        cursor[w] = Len(changes) /\ queue[w] = << >> => plan[w] = Keys(changes)

\* The jobs of etcd reach every worker whose Get succeeded and that lives long
\* enough, whatever happens between its Get and its watch.
JobsArePlanned ==
    \A w \in Worker, j \in Job :
        (j \in Keys(changes) /\ rev[w] # NoRev)
            ~> (j \in plan[w] \/ j \notin Keys(changes) \/ main[w] = "off")

\* The loop of a starting worker takes the jobs that watchJobs finds ("handed
\* to the scheduler", job_mgr.go:54) without ending the process.
NoPanic == ~panicked

=============================================================================
