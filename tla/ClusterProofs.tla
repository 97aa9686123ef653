--------------------------- MODULE ClusterProofs ----------------------------
(***************************************************************************)
(* The once job on several workers, for any workers, executions and        *)
(* leases.  Every step of Cluster is a step of JobLock or leaves the lock  *)
(* alone, so that what is proved of the lock holds inside the schedule     *)
(* loops too.  Beyond it: the tables agree with the executions, and a job  *)
(* that was withdrawn was taken, while nothing fails.                      *)
(*                                                                         *)
(* WithdrawnWasTaken is not inductive: the loser of the lock withdraws the *)
(* job because it found the key, so whoever put the key must have taken it *)
(* (KeyMeansTaken), and so must the reasons to report (LosersMeanTaken).   *)
(*                                                                         *)
(* How often the once job runs: OncePerWorker rests on a worker hearing of *)
(* the job once (HeardOnce), and on a plan that always has an execution    *)
(* (PlannedWhenHeard), so that waking up the loop starts no other.         *)
(***************************************************************************)
EXTENDS Cluster, JobLockProofs, FiniteSetTheorems

-----------------------------------------------------------------------------
(* The steps of Cluster are steps of JobLock *)

\* The steps of the schedule loop leave the lock alone, but for a panic,
\* which crashes the worker.
LEMMA TryScheduleIsLockStep ==
    ASSUME NEW w \in Worker, NEW planned, NEW executing, TrySchedule(w, planned, executing)
    PROVE  Crash(w) \/ UNCHANGED vars
BY DEF TrySchedule, ProcessEnds

\* Every step of an execution is one of TryLock, Finish or Unlock.
LEMMA ExecutionIsLockStep ==
    ASSUME NEW r \in Run, Execution(r)
    PROVE  \/ Grant(r) \/ KeepAlive(r) \/ TxnSucceeds(r) \/ TxnFails(r)
           \/ Fail(r) \/ Finish(r) \/ Unlock(r) \/ UNCHANGED vars
BY DEF Execution, Begin, Continue, GiveUp, StartCommand, CommandEnds, Release, LockStep

\* The only step of the lock that a reliable one does not take is the loss of
\* a keep-alive.
LEMMA LockStepOrLoss ==
    [ClusterNext]_clusterVars =>
        [ReliableNext]_vars \/ ("renew" \in MayFail /\ \E l \in keep : KeepAliveLost(l))
<1> DEFINE Loss == "renew" \in MayFail /\ \E l \in keep : KeepAliveLost(l)
<1> SUFFICES ASSUME [ClusterNext]_clusterVars PROVE [ReliableNext]_vars \/ Loss
  OBVIOUS
<1>0. Host \in [Run -> Worker]
  BY LockAssumption
<1>1. CASE UNCHANGED clusterVars
  BY <1>1 DEF clusterVars
<1>2. CASE JobAdd
  BY <1>2 DEF JobAdd
<1>3. ASSUME NEW w \in Worker,
             WorkerDies(w) \/ Restart(w) \/ OnJobEvent(w) \/ OnOther(w)
      PROVE  [ReliableNext]_vars
  <2>1. Crash(w) \/ UNCHANGED vars
    BY <1>3, TryScheduleIsLockStep DEF WorkerDies, Restart, OnJobEvent, OnOther, ProcessEnds
  <2> QED BY <2>1 DEF ReliableNext
<1>4. ASSUME NEW r \in Run, OnJobResult(r) PROVE [ReliableNext]_vars
  <2>1. Host[r] \in Worker
    BY <1>0
  <2>2. Crash(Host[r]) \/ UNCHANGED vars
    BY <1>4, <2>1, TryScheduleIsLockStep DEF OnJobResult
  <2> QED BY <2>1, <2>2 DEF ReliableNext
<1>5. ASSUME NEW r \in Run, Execution(r) PROVE [ReliableNext]_vars
  BY <1>5, ExecutionIsLockStep DEF ReliableNext
<1>6. CASE Environment
  BY <1>6 DEF Environment, ReliableNext
<1> QED BY <1>1, <1>2, <1>3, <1>4, <1>5, <1>6 DEF ClusterNext

LEMMA ClusterStepIsLockStep == [ClusterNext]_clusterVars => [Next]_vars
BY LockStepOrLoss DEF Next

\* The lock inside the workers is the lock of JobLock: whatever is proved of
\* Spec holds in the cluster.
THEOREM ClusterUsesLock == ClusterSpec => Spec
<1>1. ClusterInit => Init
  BY DEF ClusterInit
<1> QED BY <1>1, ClusterStepIsLockStep, PTL DEF ClusterSpec, Spec

\* Of two executions that believe to hold the lock at most one has its lease,
\* while the loops of the workers start, end and withdraw what they will.
THEOREM ClusterLeasedExclusion == ClusterSpec => []LeasedExclusion
BY ClusterUsesLock, LeasedExclusionHolds, PTL

\* While keep-alives get through, the commands of the once job exclude each
\* other in the whole cluster, one after the other if they are two, whatever
\* workers die, panic or are restarted, and whatever calls of TryLock and of
\* DeleteJob fail.
THEOREM ClusterImplementsExclusiveLock ==
    ASSUME "renew" \notin MayFail
    PROVE  ClusterSpec => ImplementsExclusiveLock
<1>1. ClusterInit => Init
  BY DEF ClusterInit
<1>2. [ClusterNext]_clusterVars => [ReliableNext]_vars
  BY LockStepOrLoss
<1> QED BY <1>1, <1>2, Refinement, PTL DEF ClusterSpec, ReliableSpec

-----------------------------------------------------------------------------
(* Withdrawn means taken *)

Taken == started # {} \/ \E r \in Run : pc[r] = "locked"

\* Only who has taken the job puts the lock key ...
KeyMeansTaken == lockKey # NoLease => Taken

\* ... and only who found the key, or has run the command, reports.
LosersMeanTaken ==
    /\ \A r \in Run : pc[r] = "failing" => Taken
    /\ reported # {} => Taken
    /\ jobKey = "gone" => Taken

TakenInv == ~faulty => KeyMeansTaken /\ LosersMeanTaken

\* An iteration of a loop changes nothing here, or fails.
LEMMA TryScheduleKeepsTaken ==
    ASSUME NEW w, NEW planned, NEW executing, TrySchedule(w, planned, executing),
           UNCHANGED <<reported, started>>, TakenInv,
           jobKey' = "gone" => jobKey = "gone" \/ reported # {}
    PROVE  TakenInv'
<1>1. CASE faulty'
  BY <1>1 DEF TakenInv
<1>2. CASE ~faulty'
  <2>1. UNCHANGED vars /\ faulty' = faulty
    BY <1>2 DEF TrySchedule, ProcessEnds
  <2> QED
    BY <1>2, <2>1 DEF TakenInv, KeyMeansTaken, LosersMeanTaken, Taken, vars
<1> QED BY <1>1, <1>2

\* The steps of an execution keep it: the key appears only with a holder, and
\* a failing attempt without a failed call has found the key.
LEMMA ExecutionKeepsTaken ==
    ASSUME TypeOK, TakenInv, NEW r \in Run, Execution(r)
    PROVE  TakenInv'
<1> USE DEF LockStep, KeyMeansTaken, LosersMeanTaken, Taken, TypeOK
<1> SUFFICES ASSUME ~faulty' PROVE KeyMeansTaken' /\ LosersMeanTaken'
  BY DEF TakenInv
<1>1. ~faulty
  BY DEF Execution, Begin, Continue, GiveUp, StartCommand, CommandEnds, Release
<1>2. KeyMeansTaken /\ LosersMeanTaken
  BY <1>1 DEF TakenInv
<1>3. CASE Begin(r)
  BY <1>2, <1>3 DEF Begin, Grant
<1>4. CASE Continue(r)
  <2>0. UNCHANGED <<reported, started, jobKey>>
    BY <1>4 DEF Continue
  <2>1. CASE KeepAlive(r)
    <3>1. pc' = [pc EXCEPT ![r] = "kept"] \/ pc' = [pc EXCEPT ![r] = "failing"]
      BY <2>1 DEF KeepAlive
    <3>2. CASE pc' = [pc EXCEPT ![r] = "failing"]
      <4>1. pc[r] = "granted" /\ pc'[r] = "failing"
        BY <2>1, <3>2 DEF KeepAlive
      <4>2. faulty'
        BY <1>4, <4>1 DEF Continue, TxnSucceeds, TxnFails
      <4> QED BY <4>2
    <3>3. CASE pc' = [pc EXCEPT ![r] = "kept"]
      BY <1>2, <2>0, <2>1, <3>3 DEF KeepAlive
    <3> QED BY <3>1, <3>2, <3>3
  <2>2. CASE TxnSucceeds(r)
    <3>1. pc'[r] = "locked"
      BY <2>2 DEF TxnSucceeds
    <3> QED BY <3>1
  <2>3. CASE TxnFails(r)
    <3>1. pc[r] = "kept" /\ pc' = [pc EXCEPT ![r] = "failing"]
      BY <2>3 DEF TxnFails
    <3>2. ~KeyAbsent
      BY <1>4, <3>1 DEF Continue, KeepAlive, TxnSucceeds
    <3>3. Taken /\ lockKey' = lockKey
      BY <1>2, <2>3, <3>2 DEF TxnFails, KeyAbsent
    <3>4. Taken'
      BY <2>0, <3>1, <3>3
    <3> QED BY <3>4
  <2> QED BY <1>4, <2>1, <2>2, <2>3 DEF Continue
<1>5. CASE GiveUp(r)
  <2>1. Taken
    BY <1>2, <1>5 DEF GiveUp, Fail
  <2>2. Taken'
    BY <1>5, <2>1 DEF GiveUp, Fail, GiveUpLease
  <2> QED BY <2>2
<1>6. CASE StartCommand(r)
  BY <1>6 DEF StartCommand
<1>7. CASE CommandEnds(r)
  BY <1>7 DEF CommandEnds
<1>8. CASE Release(r)
  <2>1. /\ pc[r] = "pushed" /\ pc' = [pc EXCEPT ![r] = "idle"]
        /\ UNCHANGED <<reported, started, jobKey>>
        /\ lockKey' # NoLease => lockKey # NoLease
    BY <1>8 DEF Release, Unlock, GiveUpLease, LeasesEnd
  <2> QED BY <1>2, <2>1
<1> QED BY <1>3, <1>4, <1>5, <1>6, <1>7, <1>8 DEF Execution

LEMMA NextTakenInv == TypeOK /\ TakenInv /\ [ClusterNext]_clusterVars => TakenInv'
<1> SUFFICES ASSUME TypeOK, TakenInv, [ClusterNext]_clusterVars PROVE TakenInv'
  OBVIOUS
<1>1. CASE UNCHANGED clusterVars
  BY <1>1 DEF clusterVars, loop, vars, TakenInv, KeyMeansTaken, LosersMeanTaken, Taken
<1>2. CASE JobAdd
  BY <1>2 DEF JobAdd, vars, TakenInv, KeyMeansTaken, LosersMeanTaken, Taken
<1>3. ASSUME NEW w \in Worker, WorkerDies(w) PROVE TakenInv'
  BY <1>3 DEF WorkerDies, ProcessEnds, TakenInv
<1>4. ASSUME NEW w \in Worker, Restart(w) PROVE TakenInv'
  BY <1>4 DEF Restart, vars, TakenInv, KeyMeansTaken, LosersMeanTaken, Taken
<1>5. ASSUME NEW w \in Worker, OnJobEvent(w) \/ OnOther(w) PROVE TakenInv'
  BY <1>5, TryScheduleKeepsTaken DEF OnJobEvent, OnOther
<1>6. ASSUME NEW r \in Run, OnJobResult(r) PROVE TakenInv'
  BY <1>6, TryScheduleKeepsTaken DEF OnJobResult
<1>7. ASSUME NEW r \in Run, Execution(r) PROVE TakenInv'
  BY <1>7, ExecutionKeepsTaken
<1>8. CASE Environment
  <2>1. /\ UNCHANGED loop /\ pc' = pc
        /\ lockKey' # NoLease => lockKey # NoLease
    BY <1>8 DEF Environment, Expire, KeepAliveLost, LeasesEnd
  <2> QED BY <2>1 DEF loop, TakenInv, KeyMeansTaken, LosersMeanTaken, Taken
<1> QED BY <1>1, <1>2, <1>3, <1>4, <1>5, <1>6, <1>7, <1>8 DEF ClusterNext

\* The loser of the lock withdraws the once job from etcd while the winner
\* runs it, but never before somebody has it (handleJobResult, DeleteJob),
\* for any number of workers.
THEOREM WithdrawnWasTakenHolds == ClusterSpec => []WithdrawnWasTaken
<1>1. ClusterInit => TakenInv
  BY DEF ClusterInit, Init, TakenInv, KeyMeansTaken, LosersMeanTaken
<1>2. ClusterSpec => []TypeOK
  BY ClusterUsesLock, TypeCorrect, PTL
<1>3. TakenInv => WithdrawnWasTaken
  BY DEF TakenInv, LosersMeanTaken, Taken, WithdrawnWasTaken
<1> QED BY <1>1, <1>2, <1>3, NextTakenInv, PTL DEF ClusterSpec

-----------------------------------------------------------------------------
(* The tables agree with the executions *)

\* A loop starts an execution only when its worker has none: the result of
\* one never removes another from jobExecutingTable.
OnePerWorker == \A r, s \in exec : Host[r] = Host[s] => r = s

AccountInv == ClusterTypeOK /\ OnePerWorker

\* The executing table after an iteration that does not panic.
LEMMA ExecAfterIteration ==
    ASSUME AccountInv, NEW w \in up, NEW planned \in BOOLEAN,
           NEW executing \in {{}, exec \cap RunsOf(w)},
           TrySchedule(w, planned, executing), UNCHANGED reported,
           \A r \in exec \cap RunsOf(w) : r \in executing \/ r \in reported
    PROVE  /\ up' \subseteq up /\ plan' \subseteq up' /\ used' \subseteq Run
           /\ exec' \subseteq used' /\ used \subseteq used'
           /\ \A r \in Run : pc'[r] \notin {"idle", "pushed"} => r \in exec' \ reported
           /\ \A r \in exec' : Host[r] \in up'
           /\ OnePerWorker'
           /\ faulty' \in BOOLEAN
<1> USE DEF AccountInv, ClusterTypeOK, OnePerWorker, RunsOf
<1>1. CASE planned /\ executing # {} /\ ProcessEnds(w)
  <2>1. \A r \in Run : pc'[r] \notin {"idle", "pushed"} =>
            pc[r] \notin {"idle", "pushed"} /\ Host[r] # w
    BY <1>1 DEF ProcessEnds, Crash, vars, TypeOK
  <2> QED BY <1>1, <2>1 DEF ProcessEnds
<1>2. CASE /\ planned /\ executing = {}
           /\ RunsOf(w) \ used # {}
           /\ exec' = (exec \ RunsOf(w)) \cup {Fresh(w)}
           /\ used' = used \cup {Fresh(w)}
           /\ plan' = plan \cup {w}
           /\ UNCHANGED <<vars, up, faulty>>
  <2>1. Fresh(w) \in RunsOf(w) \ used
    BY <1>2 DEF Fresh
  <2>2. UNCHANGED <<pc, up, faulty>>
    BY <1>2 DEF vars
  <2>3. \A r \in exec \cap RunsOf(w) : r \in reported
    BY <1>2
  <2>4. Host[Fresh(w)] = w /\ Fresh(w) \in Run /\ Fresh(w) \notin reported
    BY <2>1
  <2> HIDE DEF Fresh
  <2>5. \A r \in Run : pc'[r] \notin {"idle", "pushed"} => r \in exec' \ reported
    BY <1>2, <2>2, <2>3
  <2> QED BY <1>2, <2>2, <2>4, <2>5
<1>3. CASE /\ ~planned
           /\ plan' = plan \ {w}
           /\ exec' = (exec \ RunsOf(w)) \cup executing
           /\ UNCHANGED <<vars, up, used, faulty>>
  BY <1>3 DEF vars
<1> QED BY <1>1, <1>2, <1>3 DEF TrySchedule

\* An iteration of the loop keeps the invariant.
LEMMA IterationKeepsAccount ==
    ASSUME AccountInv, TypeOK', NEW w \in up, NEW planned \in BOOLEAN,
           NEW executing \in {{}, exec \cap RunsOf(w)},
           TrySchedule(w, planned, executing), UNCHANGED <<reported, started>>,
           \A r \in exec \cap RunsOf(w) : r \in executing \/ r \in reported,
           events' \in [Worker -> Seq({"save", "delete"})],
           jobKey' \in {"new", "put", "kept", "gone"}
    PROVE  AccountInv'
<1>1. /\ up' \subseteq up /\ plan' \subseteq up' /\ used' \subseteq Run
      /\ exec' \subseteq used' /\ used \subseteq used'
      /\ \A r \in Run : pc'[r] \notin {"idle", "pushed"} => r \in exec' \ reported
      /\ \A r \in exec' : Host[r] \in up'
      /\ OnePerWorker'
      /\ faulty' \in BOOLEAN
  BY ExecAfterIteration
<1> QED BY <1>1 DEF AccountInv, ClusterTypeOK

\* The queues of events after a change of the key.
LEMMA WatchJobsType ==
    ASSUME ClusterTypeOK, NEW type \in {"save", "delete"}
    PROVE  WatchJobs(type) \in [Worker -> Seq({"save", "delete"})]
<1>1. \A w \in Worker : Append(events[w], type) \in Seq({"save", "delete"})
  BY DEF ClusterTypeOK
<1> QED BY <1>1 DEF WatchJobs, ClusterTypeOK

\* A step of an execution keeps it: who leaves TryLock or the command reports.
LEMMA ExecutionKeepsAccount ==
    ASSUME AccountInv, TypeOK', NEW r \in Run, Execution(r)
    PROVE  AccountInv'
<1> USE DEF AccountInv, ClusterTypeOK, LockStep, Trying, Report
<1>1. CASE Begin(r)
  <2>1. \A s \in Run : pc'[s] \notin {"idle", "pushed"} => s = r \/ pc'[s] = pc[s]
    BY <1>1 DEF Begin, Grant, vars, TypeOK
  <2>2. reported' = reported \/ (pc' = pc /\ reported' = reported \cup {r})
    BY <1>1 DEF Begin, vars
  <2>3. pc[r] = "idle" /\ r \in exec \ reported
    BY <1>1 DEF Begin
  <2>4. UNCHANGED <<jobKey, up, events, plan, exec, used, started>> /\ faulty' \in BOOLEAN
    BY <1>1 DEF Begin
  <2>5. \A s \in Run : pc'[s] \notin {"idle", "pushed"} => s \in exec' \ reported'
    BY <2>1, <2>2, <2>3, <2>4
  <2>6. reported' \subseteq used'
    BY <2>2, <2>3, <2>4
  <2> QED BY <2>4, <2>5, <2>6 DEF OnePerWorker
<1>2. CASE Continue(r)
  <2>1. \A s \in Run : s = r \/ pc'[s] = pc[s]
    BY <1>2 DEF Continue, KeepAlive, TxnSucceeds, TxnFails, TypeOK
  <2>2. r \in exec \ reported /\ UNCHANGED <<jobKey, up, events, plan, exec, used, reported, started>>
    BY <1>2 DEF Continue
  <2>3. faulty' \in BOOLEAN
    BY <1>2 DEF Continue, TypeOK, KeepAlive, TxnSucceeds, TxnFails
  <2> QED BY <2>1, <2>2, <2>3 DEF OnePerWorker
<1>3. CASE GiveUp(r)
  <2>1. /\ pc' = [pc EXCEPT ![r] = "idle"] /\ reported' = reported \cup {r}
        /\ r \in exec /\ faulty' = faulty
        /\ UNCHANGED <<jobKey, up, events, plan, exec, used, started>>
    BY <1>3 DEF GiveUp, Fail, GiveUpLease
  <2>2. \A s \in Run : pc'[s] \notin {"idle", "pushed"} => s # r /\ pc'[s] = pc[s]
    BY <2>1 DEF TypeOK
  <2> QED BY <2>1, <2>2 DEF OnePerWorker
<1>4. CASE StartCommand(r)
  <2>1. /\ UNCHANGED <<pc, jobKey, up, events, plan, exec, used, reported, faulty>>
        /\ pc[r] = "locked" /\ started' = started \cup {r}
    BY <1>4 DEF StartCommand, vars
  <2> QED BY <2>1 DEF OnePerWorker
<1>5. CASE CommandEnds(r)
  <2>1. /\ pc[r] = "locked" /\ pc' = [pc EXCEPT ![r] = "pushed"]
        /\ reported' = reported \cup {r} /\ faulty' = faulty
        /\ UNCHANGED <<jobKey, up, events, plan, exec, used, started>>
    BY <1>5 DEF CommandEnds, Finish
  <2>2. \A s \in Run : pc'[s] \notin {"idle", "pushed"} => s # r /\ pc'[s] = pc[s]
    BY <2>1 DEF TypeOK
  <2> QED BY <2>1, <2>2 DEF OnePerWorker
<1>6. CASE Release(r)
  <2>1. /\ pc' = [pc EXCEPT ![r] = "idle"] /\ faulty' = faulty
        /\ UNCHANGED <<jobKey, up, events, plan, exec, used, reported, started>>
    BY <1>6 DEF Release, Unlock, GiveUpLease
  <2>2. \A s \in Run : pc'[s] \notin {"idle", "pushed"} => s # r /\ pc'[s] = pc[s]
    BY <2>1 DEF TypeOK
  <2> QED BY <2>1, <2>2 DEF OnePerWorker
<1> QED BY <1>1, <1>2, <1>3, <1>4, <1>5, <1>6 DEF Execution

LEMMA NextAccount == AccountInv /\ TypeOK' /\ [ClusterNext]_clusterVars => AccountInv'
<1> SUFFICES ASSUME AccountInv, TypeOK', [ClusterNext]_clusterVars PROVE AccountInv'
  OBVIOUS
<1> USE DEF AccountInv, ClusterTypeOK
<1>0. /\ \A w \in Worker : events[w] # << >> => Tail(events[w]) \in Seq({"save", "delete"})
      /\ Host \in [Run -> Worker]
  BY LockAssumption
<1>1. CASE UNCHANGED clusterVars
  BY <1>1 DEF clusterVars, loop, vars, OnePerWorker
<1>2. CASE JobAdd
  <2>1. WatchJobs("save") \in [Worker -> Seq({"save", "delete"})]
    BY WatchJobsType
  <2> QED BY <1>2, <2>1 DEF JobAdd, vars, OnePerWorker
<1>3. ASSUME NEW w \in Worker, WorkerDies(w) PROVE AccountInv'
  <2>1. \A r \in Run : pc'[r] \notin {"idle", "pushed"} =>
            pc[r] \notin {"idle", "pushed"} /\ Host[r] # w
    BY <1>3 DEF WorkerDies, ProcessEnds, Crash, vars, TypeOK, RunsOf
  <2>2. events' \in [Worker -> Seq({"save", "delete"})]
    BY <1>3 DEF WorkerDies
  <2> QED BY <1>3, <2>1, <2>2 DEF WorkerDies, ProcessEnds, OnePerWorker, RunsOf
<1>4. ASSUME NEW w \in Worker, Restart(w) PROVE AccountInv'
  <2>1. <<"save">> \in Seq({"save", "delete"}) /\ << >> \in Seq({"save", "delete"})
    OBVIOUS
  <2>2. PICK s \in Seq({"save", "delete"}) : events' = [events EXCEPT ![w] = s]
    BY <1>4, <2>1 DEF Restart
  <2>3. events' \in [Worker -> Seq({"save", "delete"})]
    BY <2>2
  <2> QED BY <1>4, <2>3 DEF Restart, vars, OnePerWorker
<1>5. ASSUME NEW w \in Worker, OnJobEvent(w) PROVE AccountInv'
  <2>1. events' \in [Worker -> Seq({"save", "delete"})]
    BY <1>0, <1>5 DEF OnJobEvent
  <2> QED BY <1>5, <2>1, IterationKeepsAccount DEF OnJobEvent
<1>6. ASSUME NEW w \in Worker, OnOther(w) PROVE AccountInv'
  BY <1>6, IterationKeepsAccount DEF OnOther
<1>7. ASSUME NEW r \in Run, OnJobResult(r) PROVE AccountInv'
  <2>1. Host[r] \in up /\ \A s \in exec \cap RunsOf(Host[r]) : s \in reported
    BY <1>7 DEF OnJobResult, RunsOf, OnePerWorker
  <2>2. WatchJobs("delete") \in [Worker -> Seq({"save", "delete"})]
    BY WatchJobsType
  <2>3. /\ events' \in [Worker -> Seq({"save", "delete"})]
        /\ jobKey' \in {"new", "put", "kept", "gone"}
    BY <1>7, <2>2 DEF OnJobResult, DropJob
  <2> QED BY <1>7, <2>1, <2>3, IterationKeepsAccount DEF OnJobResult, PlannedAfterResult
<1>8. ASSUME NEW r \in Run, Execution(r) PROVE AccountInv'
  BY <1>8, ExecutionKeepsAccount
<1>9. CASE Environment
  <2>1. UNCHANGED loop /\ pc' = pc
    BY <1>9 DEF Environment, Expire, KeepAliveLost
  <2> QED BY <2>1 DEF loop, OnePerWorker
<1> QED BY <1>1, <1>2, <1>3, <1>4, <1>5, <1>6, <1>7, <1>8, <1>9 DEF ClusterNext

\* In every worker the executing table has each execution that is in TryLock
\* or at its command and has not reported, whatever events, results, panics
\* and deaths come between (TryStartJob, handleJobResult), for any workers.
THEOREM ClusterTypeCorrect == ClusterSpec => []ClusterTypeOK
<1>1. ClusterInit /\ TypeOK => AccountInv
  <2>1. << >> \in Seq({"save", "delete"})
    OBVIOUS
  <2> QED BY <2>1 DEF ClusterInit, Init, AccountInv, ClusterTypeOK, OnePerWorker
<1>2. ClusterSpec => []TypeOK
  BY ClusterUsesLock, TypeCorrect, PTL
<1>3. AccountInv => ClusterTypeOK
  BY DEF AccountInv
<1> QED BY <1>1, <1>2, <1>3, NextAccount, PTL DEF ClusterSpec

-----------------------------------------------------------------------------
(* How often a once job runs *)

SavesQueued(w) == {i \in DOMAIN events[w] : events[w][i] = "save"}

\* A worker that lives hears of the job once, ...
HeardOnce ==
    /\ up = Worker
    /\ \A w \in Worker : \A i, k \in SavesQueued(w) : i = k
    /\ jobKey = "new" => \A w \in Worker : events[w] = << >>

\* ... plans it then and not before, and while it is planned has an execution
\* of it, so that it starts no other.
PlannedWhenHeard ==
    \A w \in Worker :
        /\ jobKey = "new" \/ SavesQueued(w) # {} => w \notin plan /\ RunsOf(w) \cap used = {}
        /\ w \in plan => RunsOf(w) \cap exec # {}

OneExecution == \A r, s \in used : Host[r] = Host[s] => r = s

BudgetInv == ~faulty => HeardOnce /\ PlannedWhenHeard /\ OneExecution

\* A command, too, belongs to a worker that has no other.
OncePerWorker == ~faulty => \A r, s \in started : Host[r] = Host[s] => r = s

\* What the changes of a queue do to the SAVE events in it.
LEMMA SavesAfterTail ==
    ASSUME NEW s \in Seq({"save", "delete"}), s # << >>, NEW i \in DOMAIN Tail(s)
    PROVE  i + 1 \in DOMAIN s /\ Tail(s)[i] = s[i + 1] /\ i + 1 # 1
OBVIOUS

LEMMA SavesAfterDelete ==
    ASSUME NEW s \in Seq({"save", "delete"}), NEW i \in DOMAIN Append(s, "delete"),
           Append(s, "delete")[i] = "save"
    PROVE  i \in DOMAIN s /\ s[i] = "save"
OBVIOUS

\* An event of w, from its queue.
LEMMA EventKeepsBudget ==
    ASSUME ClusterTypeOK, BudgetInv, NEW w \in Worker, OnJobEvent(w)
    PROVE  BudgetInv'
<1> SUFFICES ASSUME ~faulty' PROVE (HeardOnce /\ PlannedWhenHeard /\ OneExecution)'
  BY DEF BudgetInv
<1> DEFINE s == events[w]
<1>1. /\ s \in Seq({"save", "delete"}) /\ s # << >>
      /\ events \in [Worker -> Seq({"save", "delete"})]
      /\ events' = [events EXCEPT ![w] = Tail(s)]
      /\ UNCHANGED <<jobKey, started>>
      /\ exec \subseteq used /\ used \subseteq Run
      /\ TrySchedule(w, Head(s) = "save", exec \cap RunsOf(w))
  BY DEF OnJobEvent, ClusterTypeOK
<1>2. ~faulty /\ HeardOnce /\ PlannedWhenHeard /\ OneExecution
  BY DEF BudgetInv, OnJobEvent, TrySchedule, ProcessEnds
<1>3. /\ events'[w] = Tail(s) /\ \A v \in Worker : v # w => events'[v] = events[v]
  BY <1>1
<1>4. jobKey # "new"
  BY <1>1, <1>2 DEF HeardOnce
<1>5. \A i \in DOMAIN Tail(s) : i + 1 \in DOMAIN s /\ Tail(s)[i] = s[i + 1] /\ i + 1 # 1 /\ i \in Nat
  BY <1>1, SavesAfterTail
<1>6. \A i \in SavesQueued(w)' : i + 1 \in SavesQueued(w) /\ i + 1 # 1 /\ i \in Nat
  BY <1>3, <1>5 DEF SavesQueued
<1>7. \A v \in Worker : v # w => SavesQueued(v)' = SavesQueued(v)
  BY <1>3 DEF SavesQueued
<1>8. up' = up
  BY DEF TrySchedule, ProcessEnds, OnJobEvent
<1>9. HeardOnce'
  <2>1. \A i, k \in SavesQueued(w)' : i = k
    BY <1>2, <1>6 DEF HeardOnce
  <2> QED BY <1>1, <1>2, <1>4, <1>7, <1>8, <2>1 DEF HeardOnce
<1>10. CASE Head(s) = "save"
  <2>1. 1 \in SavesQueued(w)
    BY <1>1, <1>10 DEF SavesQueued
  <2>2. w \notin plan /\ RunsOf(w) \cap used = {} /\ exec \cap RunsOf(w) = {}
    BY <1>1, <1>2, <2>1 DEF PlannedWhenHeard
  <2>3. SavesQueued(w)' = {}
    BY <1>2, <1>6, <2>1 DEF HeardOnce
  <2>4. /\ exec' = (exec \ RunsOf(w)) \cup {Fresh(w)} /\ used' = used \cup {Fresh(w)}
        /\ plan' = plan \cup {w} /\ RunsOf(w) \ used # {}
    BY <1>1, <1>10, <2>2 DEF TrySchedule
  <2>5. Fresh(w) \in RunsOf(w)
    BY <2>4 DEF Fresh
  <2> HIDE DEF Fresh
  <2>6. OneExecution'
    BY <1>1, <1>2, <2>2, <2>4, <2>5 DEF OneExecution, RunsOf
  <2>7. PlannedWhenHeard'
    BY <1>1, <1>2, <1>4, <1>7, <2>3, <2>4, <2>5 DEF PlannedWhenHeard, RunsOf
  <2> QED BY <1>9, <2>6, <2>7
<1>11. CASE Head(s) # "save"
  <2>1. plan' = plan \ {w} /\ used' = used /\ exec' = (exec \ RunsOf(w)) \cup (exec \cap RunsOf(w))
    BY <1>1, <1>11 DEF TrySchedule
  <2>2. PlannedWhenHeard'
    BY <1>1, <1>2, <1>4, <1>6, <1>7, <2>1 DEF PlannedWhenHeard, RunsOf
  <2> QED BY <1>2, <1>9, <2>1, <2>2 DEF OneExecution
<1> QED BY <1>10, <1>11

\* A result of w: its execution is over, and its plan with it.
LEMMA ResultKeepsBudget ==
    ASSUME ClusterTypeOK, BudgetInv, NEW r \in Run, OnJobResult(r)
    PROVE  BudgetInv'
<1> SUFFICES ASSUME ~faulty' PROVE (HeardOnce /\ PlannedWhenHeard /\ OneExecution)'
  BY DEF BudgetInv
<1> DEFINE w == Host[r]
<1>1. /\ r \in exec /\ r \in used /\ r \in RunsOf(w) /\ w \in Worker
      /\ events \in [Worker -> Seq({"save", "delete"})]
      /\ DropJob(r)
  BY LockAssumption DEF OnJobResult, ClusterTypeOK, RunsOf
<1>2. /\ plan' = plan \ {w} /\ exec' = exec \ RunsOf(w) /\ UNCHANGED <<up, used, faulty>>
  BY DEF OnJobResult, TrySchedule, PlannedAfterResult
<1>3. HeardOnce /\ PlannedWhenHeard /\ OneExecution
  BY <1>2 DEF BudgetInv
<1>4. jobKey # "new" /\ jobKey' # "new"
  <2>1. jobKey # "new"
    BY <1>1, <1>3 DEF PlannedWhenHeard
  <2> QED BY <1>1, <2>1 DEF DropJob
<1>5. \A v \in Worker : SavesQueued(v)' \subseteq SavesQueued(v)
  <2> TAKE v \in Worker
  <2>1. CASE events'[v] = events[v]
    BY <2>1 DEF SavesQueued
  <2>2. CASE events'[v] = Append(events[v], "delete")
    <3>1. events[v] \in Seq({"save", "delete"})
      BY <1>1
    <3> QED BY <2>2, <3>1, SavesAfterDelete DEF SavesQueued
  <2> QED BY <1>1, <2>1, <2>2 DEF DropJob, WatchJobs
<1>6. HeardOnce'
  BY <1>2, <1>3, <1>4, <1>5 DEF HeardOnce
<1>7. PlannedWhenHeard'
  <2> SUFFICES ASSUME NEW v \in Worker
               PROVE  /\ SavesQueued(v)' # {} => v \notin plan' /\ RunsOf(v) \cap used' = {}
                      /\ v \in plan' => RunsOf(v) \cap exec' # {}
    BY <1>4 DEF PlannedWhenHeard, RunsOf
  <2> QED BY <1>2, <1>3, <1>5 DEF PlannedWhenHeard, RunsOf
<1>8. OneExecution'
  BY <1>2, <1>3 DEF OneExecution
<1> QED BY <1>6, <1>7, <1>8

LEMMA NextBudget == ClusterTypeOK /\ BudgetInv /\ [ClusterNext]_clusterVars => BudgetInv'
<1> SUFFICES ASSUME ClusterTypeOK, BudgetInv, [ClusterNext]_clusterVars PROVE BudgetInv'
  OBVIOUS
<1> DEFINE Same == UNCHANGED <<up, events, jobKey, plan, used, exec>> /\ (faulty => faulty')
<1>0. ASSUME Same PROVE BudgetInv'
  BY <1>0 DEF BudgetInv, HeardOnce, PlannedWhenHeard, OneExecution, SavesQueued, RunsOf
<1>1. CASE UNCHANGED clusterVars
  BY <1>0, <1>1 DEF clusterVars, loop
<1>2. CASE JobAdd
  <2> SUFFICES ASSUME ~faulty' PROVE (HeardOnce /\ PlannedWhenHeard /\ OneExecution)'
    BY DEF BudgetInv
  <2>1. /\ HeardOnce /\ PlannedWhenHeard /\ OneExecution
        /\ jobKey = "new" /\ jobKey' = "put" /\ UNCHANGED <<up, plan, exec, used>>
    BY <1>2 DEF JobAdd, BudgetInv
  <2>2. ASSUME NEW w \in Worker PROVE events'[w] = <<"save">>
    <3>1. w \in up /\ events[w] = << >>
      BY <2>1 DEF HeardOnce
    <3>2. Append(<< >>, "save") = <<"save">>
      OBVIOUS
    <3>3. events'[w] = Append(events[w], "save")
      BY <1>2, <3>1 DEF JobAdd, WatchJobs
    <3> QED BY <3>1, <3>2, <3>3
  <2>3. \A w \in Worker : SavesQueued(w)' = {1}
    BY <2>2 DEF SavesQueued
  <2>4. HeardOnce'
    BY <2>1, <2>3 DEF HeardOnce
  <2>5. PlannedWhenHeard'
    BY <2>1 DEF PlannedWhenHeard, RunsOf
  <2> QED BY <2>1, <2>4, <2>5 DEF OneExecution
<1>3. ASSUME NEW w \in Worker, WorkerDies(w) PROVE BudgetInv'
  BY <1>3 DEF WorkerDies, ProcessEnds, BudgetInv
\* While nothing fails no worker has to be restarted.
<1>4. ASSUME NEW w \in Worker, Restart(w) PROVE BudgetInv'
  BY <1>4 DEF Restart, BudgetInv, HeardOnce
<1>5. ASSUME NEW w \in Worker, OnJobEvent(w) PROVE BudgetInv'
  BY <1>5, EventKeepsBudget
\* A planned job is being executed: the iteration panics.
<1>6. ASSUME NEW w \in Worker, OnOther(w) PROVE BudgetInv'
  <2>1. CASE faulty
    BY <1>6, <2>1 DEF OnOther, TrySchedule, ProcessEnds, BudgetInv
  <2>2. CASE ~faulty
    <3>1. exec \cap RunsOf(w) # {}
      BY <1>6, <2>2 DEF BudgetInv, PlannedWhenHeard, OnOther
    <3> QED BY <1>6, <3>1 DEF OnOther, TrySchedule, ProcessEnds, BudgetInv
  <2> QED BY <2>1, <2>2
<1>7. ASSUME NEW r \in Run, OnJobResult(r) PROVE BudgetInv'
  BY <1>7, ResultKeepsBudget
<1>8. ASSUME NEW r \in Run, Execution(r) PROVE BudgetInv'
  BY <1>0, <1>8 DEF Execution, Begin, Continue, GiveUp, StartCommand, CommandEnds, Release, LockStep
<1>9. CASE Environment
  BY <1>0, <1>9 DEF Environment, loop
<1> QED BY <1>1, <1>2, <1>3, <1>4, <1>5, <1>6, <1>7, <1>8, <1>9 DEF ClusterNext

\* While no worker dies and no call of TryLock fails, one worker starts the
\* command of a once job at most once, whatever its loop is woken up by.  So
\* it takes two workers to run it twice, the second one slow.
THEOREM OncePerWorkerHolds == ClusterSpec => []OncePerWorker
<1>1. ClusterInit => BudgetInv
  BY DEF ClusterInit, BudgetInv, HeardOnce, PlannedWhenHeard, OneExecution, SavesQueued
<1>2. ClusterTypeOK /\ BudgetInv => OncePerWorker
  BY DEF ClusterTypeOK, BudgetInv, OneExecution, OncePerWorker
<1> QED BY <1>1, <1>2, NextBudget, ClusterTypeCorrect, PTL DEF ClusterSpec

\* A cluster of one worker keeps the promise of OnceRunsOnce.
THEOREM OnceRunsOnceAlone ==
    ASSUME \A v, w \in Worker : v = w
    PROVE  ClusterSpec => []OnceRunsOnce
<1>1. ClusterTypeOK /\ OncePerWorker => OnceRunsOnce
  <2> SUFFICES ASSUME ClusterTypeOK, OncePerWorker, ~faulty PROVE Cardinality(started) <= 1
    BY DEF OnceRunsOnce
  <2>1. \A r, s \in started : r = s
    BY LockAssumption DEF ClusterTypeOK, OncePerWorker
  <2>2. CASE started = {}
    <3>1. Cardinality(started) = 0
      BY <2>2, FS_EmptySet, Zenon
    <3> QED BY <3>1
  <2>3. CASE started # {}
    <3>1. PICK r \in started : TRUE
      BY <2>3
    <3>2. started = {r}
      BY <2>1, <3>1
    <3>3. Cardinality(started) = 1
      BY <3>2, FS_Singleton, Zenon
    <3> QED BY <3>3
  <2> QED BY <2>2, <2>3
<1> QED BY <1>1, OncePerWorkerHolds, ClusterTypeCorrect, PTL

=============================================================================
