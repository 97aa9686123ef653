--------------------------- MODULE SchedulerProofs ---------------------------
(***************************************************************************)
(* The schedule loop of a worker for any jobs, expressions, outcomes of    *)
(* the lock and failing calls: the types, the accounting of executions,    *)
(* the timer that is never late, the plan that follows etcd, the once job  *)
(* that is neither lost nor started twice, the cron job that is not        *)
(* started too often, the row and its count, and the refinement of         *)
(* Executions.                                                             *)
(*                                                                         *)
(* The argument follows the loop: each handler leaves tables, queues and   *)
(* goroutines that agree, and the tail of the iteration (TrySchedule and   *)
(* Reset) keeps the agreement and sets the timer anew.  ExecutionAccounting*)
(* counts; here it is stated by cases, without cardinalities (Accounted).  *)
(*                                                                         *)
(* On top of that IInv, one part for each of the other properties: the     *)
(* last queued event decides the plan (PlannedAfter), a name without a row *)
(* is unknown everywhere (RowsFirst), a key goes with an excuse            *)
(* (KeysExcused), and a process has one start of a once job in store       *)
(* (OnceBudget).                                                           *)
(*                                                                         *)
(* For the rest an iteration is seen from one job (Handled): it passes the *)
(* job by, saves, unplans or kills it, or receives its result, and the     *)
(* tail starts the job or leaves it.  Seen so, queues and tables keep an   *)
(* order (Ordered), the last queued status is the right one (RowFollows),  *)
(* a start uses up a time of the expression (Timely), and each command has *)
(* one event that counts it (Covered, Tally).                              *)
(***************************************************************************)
EXTENDS Scheduler, TLAPS, FiniteSetTheorems, SequenceTheorems, WellFoundedInduction

PlanType == [Job -> {NoPlan} \cup Nat]
HistoryType == [kills : Nat, restarts : Nat, asked : SUBSET Job, lost : SUBSET Job,
                missed : SUBSET Job]
ChanType == [{0, 1} -> [Job -> Seq(StatusEvent)]]

ResultsIn(s, j) == {i \in DOMAIN s : s[i].job = j}

\* j is executed by one goroutine, or has one result in the queue s, if and
\* only if it is in the executing table exec.
Accounted(j, exec, s) ==
    \/ j \notin exec /\ goroutine[j] = "none" /\ ResultsIn(s, j) = {}
    \/ j \in exec /\ goroutine[j] # "none" /\ ResultsIn(s, j) = {}
    \/ j \in exec /\ goroutine[j] = "none" /\ \E i : ResultsIn(s, j) = {i}

AllAccounted == alive => \A j \in Job : Accounted(j, jobExecutingTable, jobResultChan)

IInv ==
    /\ TypeOK
    /\ IsFiniteSet(etcdJobs)
    /\ AllAccounted
    /\ NoOversleep

USE DEF NoPlan, NoTimer, NoRow

-----------------------------------------------------------------------------
(* Helpers *)

\* What the parameters are.
LEMMA Constants ==
    /\ \A j \in Job : Typ[j] \in {0, 1} /\ Period[j] \in Nat \ {0}
    /\ ScheduleSleep \in Nat /\ MaxTime \in Nat \ {0}
BY SchedulerAssumption

LEMMA NowType == TypeOK => now \in Nat
<1> SUFFICES ASSUME now \in 1..MaxTime PROVE now \in Nat
  BY DEF TypeOK
<1> QED BY Constants

LessThan == {p \in Nat \X Nat : p[1] < p[2]}

LEMMA LessThanWellFounded == IsWellFoundedOn(LessThan, Nat)
BY NatLessThanWellFounded, Zenon DEF OpToRel, LessThan

\* A set of naturals has a least element, which Min0 chooses.
LEMMA LeastElement ==
    ASSUME NEW S \in SUBSET Nat, S # {}
    PROVE  Min0(S) \in S /\ \A y \in S : Min0(S) <= y
<1>1. PICK x \in S : \A y \in S : ~ (<<y, x>> \in LessThan)
  BY LessThanWellFounded, WFMin
<1>2. ASSUME NEW y \in S PROVE x <= y
  <2>1. x \in Nat /\ y \in Nat
    OBVIOUS
  <2>2. <<y, x>> \in Nat \X Nat /\ <<y, x>>[1] = y /\ <<y, x>>[2] = x
    BY <2>1
  <2>3. y < x => <<y, x>> \in LessThan
    BY <2>2, Zenon DEF LessThan
  <2> QED BY <1>1, <2>1, <2>3
<1> QED BY <1>2 DEF Min0

\* A result that leaves the queue: the others move up by one.
LEMMA TailResults ==
    ASSUME NEW s \in Seq(Result), s # << >>, NEW j
    PROVE  ResultsIn(Tail(s), j) = {i - 1 : i \in ResultsIn(s, j) \ {1}}
<1>1. /\ DOMAIN s = 1..Len(s) /\ Len(s) \in Nat \ {0}
      /\ DOMAIN Tail(s) = 1..(Len(s) - 1)
      /\ \A i \in 1..(Len(s) - 1) : Tail(s)[i] = s[i + 1]
  BY HeadTailProperties, LenProperties, EmptySeq
<1>2. ASSUME NEW i \in ResultsIn(Tail(s), j)
      PROVE  i + 1 \in ResultsIn(s, j) \ {1} /\ i = (i + 1) - 1
  BY <1>1 DEF ResultsIn
<1>3. ASSUME NEW i \in ResultsIn(s, j) \ {1} PROVE i - 1 \in ResultsIn(Tail(s), j)
  <2>1. i \in 2..Len(s) /\ s[i].job = j
    BY <1>1 DEF ResultsIn
  <2>2. i - 1 \in 1..(Len(s) - 1) /\ Tail(s)[i - 1] = s[(i - 1) + 1] /\ (i - 1) + 1 = i
    BY <1>1, <2>1
  <2> QED BY <1>1, <2>1, <2>2 DEF ResultsIn
<1> QED BY <1>2, <1>3

\* A result that joins the queue.
LEMMA AppendResults ==
    ASSUME NEW s \in Seq(Result), NEW r \in Result, NEW j
    PROVE  ResultsIn(Append(s, r), j) =
               ResultsIn(s, j) \cup (IF r.job = j THEN {Len(s) + 1} ELSE {})
<1>1. /\ DOMAIN s = 1..Len(s) /\ Len(s) \in Nat
      /\ DOMAIN Append(s, r) = 1..(Len(s) + 1)
      /\ \A i \in 1..Len(s) : Append(s, r)[i] = s[i]
      /\ Append(s, r)[Len(s) + 1] = r
  BY AppendProperties, LenProperties
<1> QED BY <1>1 DEF ResultsIn

\* The next time of an expression is a time.
LEMMA ExprNextType ==
    ASSUME NEW j \in Job, now \in Nat PROVE ExprNext(j) \in Nat
<1>1. Period[j] \in Nat \ {0}
  BY Constants
<1>2. now \div Period[j] \in Nat
  BY <1>1
<1>3. (now \div Period[j] + 1) * Period[j] \in Nat
  BY <1>1, <1>2
<1> QED BY <1>3 DEF ExprNext

\* What the actions do to the history keeps its type.
LEMMA HistoryKept ==
    ASSUME NEW h \in HistoryType, NEW j \in Job
    PROVE  /\ [h EXCEPT !.asked = @ \cup {j}] \in HistoryType
           /\ [h EXCEPT !.lost = @ \cup {j}] \in HistoryType
           /\ [h EXCEPT !.missed = @ \cup {j}] \in HistoryType
           /\ [h EXCEPT !.restarts = @ + 1] \in HistoryType
           /\ [h EXCEPT !.kills = @ + 1, !.asked = @ \cup {j}] \in HistoryType
<1>1. /\ h = [kills |-> h.kills, restarts |-> h.restarts, asked |-> h.asked,
               lost |-> h.lost, missed |-> h.missed]
      /\ h.kills \in Nat /\ h.restarts \in Nat
      /\ h.asked \cup {j} \in SUBSET Job /\ h.lost \cup {j} \in SUBSET Job
      /\ h.missed \cup {j} \in SUBSET Job
      /\ h.asked \in SUBSET Job /\ h.lost \in SUBSET Job /\ h.missed \in SUBSET Job
  BY DEF HistoryType
<1>2. h.kills + 1 \in Nat /\ h.restarts + 1 \in Nat
  BY <1>1
<1> QED BY <1>1, <1>2 DEF HistoryType

\* Pushing an event keeps the type of the channels.
LEMMA PushType ==
    ASSUME NEW sc \in ChanType, NEW t \in {0, 1}, NEW j \in Job,
           NEW st \in 0..5, NEW add \in 0..1
    PROVE  Push(sc, t, j, st, add) \in ChanType
<1>1. [status |-> st, add |-> add] \in StatusEvent
  BY DEF StatusEvent
<1>2. Append(sc[t][j], [status |-> st, add |-> add]) \in Seq(StatusEvent)
  BY <1>1, AppendProperties DEF ChanType
<1> QED BY <1>2 DEF Push, ChanType

-----------------------------------------------------------------------------
(* The tail of an iteration *)

\* The timer is set to the time of the next cron job, or to the sleep.
LEMMA WakeupInTime ==
    ASSUME NEW plan \in PlanType, now \in Nat
    PROVE  /\ Wakeup(plan) \in Nat
           /\ \A j \in Job : plan[j] # NoPlan /\ Typ[j] = 0 => Wakeup(plan) <= plan[j]
<1> DEFINE near == {plan[j] : j \in {k \in Job : Typ[k] = 0 /\ plan[k] # NoPlan}}
<1>1. near \in SUBSET Nat
  BY DEF PlanType
<1>2. Wakeup(plan) = IF near = {} THEN now + ScheduleSleep ELSE Min0(near)
  BY DEF Wakeup
<1>3. \A j \in Job : plan[j] # NoPlan /\ Typ[j] = 0 => plan[j] \in near
  OBVIOUS
<1> HIDE DEF near
<1>4. CASE near = {}
  BY Constants, <1>2, <1>3, <1>4
<1>5. CASE near # {}
  <2>1. Min0(near) \in near /\ \A y \in near : Min0(near) <= y
    BY <1>1, <1>5, LeastElement
  <2>2. Wakeup(plan) = Min0(near) /\ Min0(near) \in Nat
    BY <1>1, <1>2, <1>5, <2>1
  <2> QED BY <1>3, <2>1, <2>2
<1> QED BY <1>4, <1>5

LEMMA ReplanType ==
    ASSUME NEW plan \in PlanType, now \in Nat PROVE Replan(plan) \in PlanType
BY ExprNextType DEF Replan, PlanType

\* The types after TrySchedule and Reset.
LEMMA TryScheduleTypes ==
    ASSUME TypeOK, NEW plan \in PlanType, NEW exec \in SUBSET Job, NEW sc \in ChanType,
           TrySchedule(plan, exec, sc)
    PROVE  /\ alive' \in BOOLEAN /\ panicked' \in BOOLEAN
           /\ jobPlanTable' \in PlanType
           /\ exec \subseteq jobExecutingTable' /\ jobExecutingTable' \subseteq Job
           /\ goroutine' \in [Job -> {"none", "sleep", "exec"}]
           /\ statusChan' \in ChanType
           /\ timer' \in {NoTimer} \cup Nat
<1>0. now \in Nat
  BY NowType
<1>1. CASE NilExpr(plan, exec)
  BY <1>1 DEF TrySchedule, TypeOK
<1>2. CASE ~NilExpr(plan, exec)
  <2>1. /\ jobPlanTable' = Replan(plan) /\ UNCHANGED <<alive, panicked>>
        /\ jobExecutingTable' = exec \cup Starts(plan, exec)
        /\ goroutine' = [j \in Job |-> IF j \in Starts(plan, exec) THEN "sleep" ELSE goroutine[j]]
        /\ timer' = Wakeup(Replan(plan))
        /\ statusChan' = [t \in {0, 1} |-> [j \in Job |->
                IF j \in Starts(plan, exec) /\ Typ[j] = t
                THEN Append(sc[t][j], [status |-> Running, add |-> 0])
                ELSE sc[t][j]]]
    BY <1>2 DEF TrySchedule
  <2>2. Starts(plan, exec) \subseteq Job
    BY DEF Starts
  <2>3. statusChan' \in ChanType
    <3>1. [status |-> Running, add |-> 0] \in StatusEvent
      BY DEF StatusEvent, Running
    <3>2. \A t \in {0, 1}, j \in Job :
              /\ sc[t][j] \in Seq(StatusEvent)
              /\ Append(sc[t][j], [status |-> Running, add |-> 0]) \in Seq(StatusEvent)
      BY <3>1, AppendProperties DEF ChanType
    <3> QED BY <2>1, <3>2 DEF ChanType
  <2> QED BY <1>0, <2>1, <2>2, <2>3, ReplanType, WakeupInTime DEF TypeOK
<1> QED BY <1>1, <1>2

\* TrySchedule starts only what is not in the executing table, and puts it
\* there; Reset brings the timer forward to the next cron job.
LEMMA TryScheduleKeeps ==
    ASSUME TypeOK, NEW plan \in PlanType, NEW exec \in SUBSET Job, NEW sc \in ChanType,
           TrySchedule(plan, exec, sc),
           \A j \in Job : Accounted(j, exec, jobResultChan')
    PROVE  AllAccounted' /\ NoOversleep'
<1>0. now \in Nat
  BY NowType
<1>1. CASE NilExpr(plan, exec)
  BY <1>1 DEF TrySchedule, AllAccounted, NoOversleep
<1>2. CASE ~NilExpr(plan, exec)
  <2>1. /\ jobPlanTable' = Replan(plan)
        /\ jobExecutingTable' = exec \cup Starts(plan, exec)
        /\ goroutine' = [j \in Job |-> IF j \in Starts(plan, exec) THEN "sleep" ELSE goroutine[j]]
        /\ timer' = Wakeup(Replan(plan))
    BY <1>2 DEF TrySchedule
  <2>2. ASSUME NEW j \in Job PROVE Accounted(j, jobExecutingTable, jobResultChan)'
    <3>1. Accounted(j, exec, jobResultChan')
      OBVIOUS
    <3>2. CASE j \in Starts(plan, exec)
      <4>1. j \notin exec
        BY <3>2 DEF Starts
      <4>2. ResultsIn(jobResultChan', j) = {}
        BY <3>1, <4>1 DEF Accounted
      <4> QED BY <2>1, <3>2, <4>2 DEF Accounted, ResultsIn
    <3>3. CASE j \notin Starts(plan, exec)
      <4>1. goroutine'[j] = goroutine[j] /\ (j \in jobExecutingTable' <=> j \in exec)
        BY <2>1, <3>3
      <4> QED BY <3>1, <4>1 DEF Accounted, ResultsIn
    <3> QED BY <3>2, <3>3
  <2>3. NoOversleep'
    BY <1>0, <2>1, ReplanType, WakeupInTime DEF NoOversleep, InPlan
  <2> QED BY <2>2, <2>3 DEF AllAccounted
<1> QED BY <1>1, <1>2

-----------------------------------------------------------------------------
(* The inductive invariant *)

LEMMA InitIInv == Init => IInv
<1> SUFFICES ASSUME Init PROVE IInv
  OBVIOUS
<1>1. /\ << >> \in Seq(Event) /\ << >> \in Seq(Result) /\ << >> \in Seq(StatusEvent)
      /\ DOMAIN << >> = {} /\ IsFiniteSet({})
  BY EmptySeq, FS_EmptySet
<1>2. NothingQueued \in ChanType
  BY <1>1 DEF NothingQueued, ChanType
<1>3. history \in HistoryType /\ timer \in Nat
  BY Constants DEF Init, HistoryType
<1>4. now \in 1..MaxTime
  BY Constants DEF Init
<1>5. TypeOK
  BY <1>1, <1>2, <1>3, <1>4 DEF Init, TypeOK, ChanType, HistoryType
<1>6. AllAccounted
  BY <1>1 DEF Init, AllAccounted, Accounted, ResultsIn
<1>7. NoOversleep
  BY <1>3 DEF Init, NoOversleep, InPlan
<1> QED BY <1>1, <1>5, <1>6, <1>7 DEF Init, IInv

\* What leaves the loop's tables, the goroutines and the timer alone is kept;
\* a process that ends has nothing to account for.
LEMMA QuietKeeps ==
    ASSUME IInv, alive' => alive,
           UNCHANGED <<jobPlanTable, jobExecutingTable, goroutine, jobResultChan, timer, timerC>>
    PROVE  AllAccounted' /\ NoOversleep'
<1>1. CASE ~alive'
  BY <1>1 DEF AllAccounted, NoOversleep
<1>2. CASE alive'
  <2>1. \A j \in Job : Accounted(j, jobExecutingTable, jobResultChan)
    BY <1>2 DEF IInv, AllAccounted
  <2>2. AllAccounted'
    BY <2>1 DEF AllAccounted, Accounted, ResultsIn
  <2>3. NoOversleep'
    BY <1>2 DEF IInv, NoOversleep, InPlan
  <2> QED BY <2>2, <2>3
<1> QED BY <1>1, <1>2

\* What a watcher pushes is an event.
LEMMA WatchJobsType ==
    ASSUME TypeOK, NEW j \in Job, NEW type \in {"save", "delete"}, WatchJobs(type, j)
    PROVE  jobEventChan' \in Seq(Event)
<1>1. [type |-> type, job |-> j] \in Event
  BY DEF Event
<1>2. jobEventChan \in Seq(Event)
  BY DEF TypeOK
<1> QED BY <1>1, <1>2, AppendProperties DEF WatchJobs

\* A deleted key: the set of keys stays finite, the event is well-formed.
LEMMA EtcdDeleteKeeps ==
    ASSUME TypeOK, IsFiniteSet(etcdJobs), NEW j \in Job, EtcdDelete(j)
    PROVE  /\ etcdJobs' \subseteq Job /\ IsFiniteSet(etcdJobs')
           /\ jobEventChan' \in Seq(Event)
<1>1. etcdJobs' = etcdJobs \ {j}
  BY DEF EtcdDelete
<1>2. jobEventChan' \in Seq(Event)
  BY WatchJobsType DEF EtcdDelete, TypeOK
<1> QED BY <1>1, <1>2, FS_RemoveElement DEF TypeOK

\* The requests of the master.
LEMMA RequestsKeepIInv ==
    ASSUME IInv, NEW j \in Job, JobAdd(j) \/ JobDelete(j) \/ JobKill(j)
    PROVE  IInv'
<1> USE DEF IInv
<1>1. AllAccounted' /\ NoOversleep'
  BY QuietKeeps DEF JobAdd, JobDelete, JobKill
<1>2. CASE JobAdd(j)
  <2>1. jobEventChan' \in Seq(Event)
    BY <1>2, WatchJobsType DEF JobAdd
  <2>2. IsFiniteSet(etcdJobs')
    BY <1>2, FS_AddElement DEF JobAdd
  <2>3. /\ status' \in [Job -> {NoRow} \cup 0..5] /\ etcdJobs' \subseteq Job
        /\ UNCHANGED <<now, num, alive, killEvents, jobPlanTable, jobExecutingTable, cancelled,
                       goroutine, jobResultChan, statusChan, timer, timerC, panicked, ran,
                       history>>
    BY <1>2 DEF JobAdd, TypeOK, Waiting
  <2>4. TypeOK'
    BY <2>1, <2>3 DEF TypeOK
  <2> QED BY <1>1, <2>2, <2>4
<1>3. CASE JobDelete(j)
  <2>1. etcdJobs' \subseteq Job /\ IsFiniteSet(etcdJobs') /\ jobEventChan' \in Seq(Event)
    BY <1>3, EtcdDeleteKeeps DEF JobDelete
  <2>2. status' \in [Job -> {NoRow} \cup 0..5]
    BY <1>3 DEF JobDelete, TypeOK, Deleted
  <2>3. history' \in HistoryType
    BY <1>3, HistoryKept DEF JobDelete, TypeOK, HistoryType
  <2>4. TypeOK'
    BY <1>3, <2>1, <2>2, <2>3 DEF JobDelete, TypeOK, HistoryType
  <2> QED BY <1>1, <2>1, <2>4
<1>4. CASE JobKill(j)
  <2>1. killEvents' \in [Job -> Nat]
    BY <1>4 DEF JobKill, WatchKiller, TypeOK
  <2>2. history' \in HistoryType
    BY <1>4, HistoryKept DEF JobKill, TypeOK, HistoryType
  <2>3. TypeOK'
    BY <1>4, <2>1, <2>2 DEF JobKill, TypeOK, HistoryType
  <2> QED BY <1>1, <1>4, <2>3 DEF JobKill
<1> QED BY <1>2, <1>3, <1>4

\* The types after an iteration, from what its handler leaves.
LEMMA IterationKeepsIInv ==
    ASSUME IInv, NEW plan \in PlanType, NEW exec \in SUBSET Job, NEW sc \in ChanType,
           TrySchedule(plan, exec, sc),
           \A j \in Job : Accounted(j, exec, jobResultChan'),
           cancelled' \subseteq exec,
           etcdJobs' \subseteq Job, IsFiniteSet(etcdJobs'),
           jobEventChan' \in Seq(Event), killEvents' \in [Job -> Nat],
           jobResultChan' \in Seq(Result), timerC' \in BOOLEAN,
           UNCHANGED <<now, status, num, ran, history>>
    PROVE  IInv'
<1>1. AllAccounted' /\ NoOversleep'
  BY TryScheduleKeeps DEF IInv
<1>2. /\ alive' \in BOOLEAN /\ panicked' \in BOOLEAN
      /\ jobPlanTable' \in PlanType
      /\ exec \subseteq jobExecutingTable' /\ jobExecutingTable' \subseteq Job
      /\ goroutine' \in [Job -> {"none", "sleep", "exec"}]
      /\ statusChan' \in ChanType
      /\ timer' \in {NoTimer} \cup Nat
  BY TryScheduleTypes DEF IInv
<1>3. TypeOK'
  BY <1>2 DEF IInv, TypeOK, PlanType, ChanType
<1> QED BY <1>1, <1>3 DEF IInv

\* The tables and channels a handler starts from.
LEMMA LoopTypes ==
    ASSUME IInv, alive
    PROVE  /\ jobPlanTable \in PlanType /\ jobExecutingTable \in SUBSET Job
           /\ statusChan \in ChanType
           /\ \A j \in Job : Accounted(j, jobExecutingTable, jobResultChan)
           /\ \A j \in Job : [jobPlanTable EXCEPT ![j] = NoPlan] \in PlanType
BY DEF IInv, TypeOK, PlanType, ChanType, AllAccounted

\* SAVE and DELETE events.
LEMMA JobEventKeepsIInv == ASSUME IInv, OnJobEvent PROVE IInv'
<1>1. /\ alive /\ jobEventChan # << >> /\ jobEventChan' = Tail(jobEventChan)
      /\ UNCHANGED <<now, etcdJobs, status, num, killEvents, cancelled, jobResultChan, timerC,
                     ran, history>>
  BY DEF OnJobEvent
<1>2. PICK e \in Event : (e.type = "save" /\ OnSave(e.job)) \/ (e.type = "delete" /\ OnDelete(e.job))
  BY <1>1, HeadTailProperties DEF OnJobEvent, IInv, TypeOK
<1>3. e.job \in Job
  BY DEF Event
<1>4. PICK plan \in PlanType, sc \in ChanType : TrySchedule(plan, jobExecutingTable, sc)
  <2>1. CASE OnSave(e.job)
    <3>1. BuildJobSchedulePlan(e.job) \in Nat
      BY <1>3, NowType, ExprNextType DEF BuildJobSchedulePlan, IInv
    <3>2. [jobPlanTable EXCEPT ![e.job] = BuildJobSchedulePlan(e.job)] \in PlanType
      BY <1>1, <3>1, LoopTypes DEF PlanType
    <3>3. Push(statusChan, Typ[e.job], e.job, Planned, 0) \in ChanType
      <4>1. Typ[e.job] \in {0, 1} /\ statusChan \in ChanType
        BY <1>1, <1>3, LoopTypes, Constants
      <4>2. Planned \in 0..5 /\ 0 \in 0..1
        BY DEF Planned
      <4> QED BY <1>3, <4>1, <4>2, PushType
    <3> QED BY <1>1, <2>1, <3>2, <3>3, LoopTypes DEF OnSave
  <2>2. CASE OnDelete(e.job)
    <3>1. Push(statusChan, 0, e.job, Deleted, 0) \in ChanType
      BY <1>1, <1>3, LoopTypes, PushType DEF Deleted
    <3> QED BY <1>1, <1>3, <2>2, <3>1, LoopTypes DEF OnDelete
  <2> QED BY <1>2, <2>1, <2>2
<1>5. jobEventChan' \in Seq(Event)
  BY <1>1, HeadTailProperties DEF IInv, TypeOK
<1>6. /\ cancelled' \subseteq jobExecutingTable /\ etcdJobs' \subseteq Job
      /\ IsFiniteSet(etcdJobs') /\ killEvents' \in [Job -> Nat]
      /\ jobResultChan' \in Seq(Result) /\ timerC' \in BOOLEAN
  BY <1>1 DEF IInv, TypeOK
<1> QED BY <1>1, <1>4, <1>5, <1>6, LoopTypes, IterationKeepsIInv

\* KILL events: only an execution is cancelled.
LEMMA KillKeepsIInv == ASSUME IInv, NEW j \in Job, OnKill(j) PROVE IInv'
<1>1. /\ alive /\ killEvents[j] > 0 /\ killEvents' = [killEvents EXCEPT ![j] = @ - 1]
      /\ UNCHANGED <<now, etcdJobs, status, num, jobEventChan, jobResultChan, timerC, ran,
                     history>>
  BY DEF OnKill
<1>2. cancelled' \subseteq jobExecutingTable
  BY DEF OnKill, IInv, TypeOK
<1>3. PICK sc \in ChanType : TrySchedule(jobPlanTable, jobExecutingTable, sc)
  <2>1. Push(statusChan, Typ[j], j, Failed, 1) \in ChanType
    <3>1. Typ[j] \in {0, 1} /\ statusChan \in ChanType
      BY <1>1, LoopTypes, Constants
    <3>2. Failed \in 0..5 /\ 1 \in 0..1
      BY DEF Failed
    <3> QED BY <3>1, <3>2, PushType
  <2> QED BY <1>1, <2>1, LoopTypes DEF OnKill
<1>4. killEvents' \in [Job -> Nat]
  BY <1>1 DEF IInv, TypeOK
<1>5. /\ etcdJobs' \subseteq Job /\ IsFiniteSet(etcdJobs') /\ jobEventChan' \in Seq(Event)
      /\ jobResultChan' \in Seq(Result) /\ timerC' \in BOOLEAN
  BY <1>1 DEF IInv, TypeOK
<1> QED BY <1>1, <1>2, <1>3, <1>4, <1>5, LoopTypes, IterationKeepsIInv

\* The tick: it is received, and the timer set anew.
LEMMA TimerKeepsIInv == ASSUME IInv, OnTimer PROVE IInv'
<1>1. /\ alive /\ timerC' = FALSE /\ TrySchedule(jobPlanTable, jobExecutingTable, statusChan)
      /\ UNCHANGED <<now, etcdJobs, status, num, jobEventChan, killEvents, cancelled,
                     jobResultChan, ran, history>>
  BY DEF OnTimer
<1>2. /\ cancelled' \subseteq jobExecutingTable /\ etcdJobs' \subseteq Job
      /\ IsFiniteSet(etcdJobs') /\ jobEventChan' \in Seq(Event)
      /\ killEvents' \in [Job -> Nat] /\ jobResultChan' \in Seq(Result)
  BY <1>1 DEF IInv, TypeOK
<1> QED BY <1>1, <1>2, LoopTypes, IterationKeepsIInv

\* A result frees its job: the entry of the table goes with it.
LEMMA JobResultKeepsIInv == ASSUME IInv, OnJobResult PROVE IInv'
<1> DEFINE r == Head(jobResultChan)
<1> DEFINE exec == jobExecutingTable \ {r.job}
<1> DEFINE sc == IF r.err = "occupied" THEN statusChan
                 ELSE Push(statusChan, Typ[r.job], r.job, ResultStatus(r), 1)
<1>1. /\ alive /\ jobResultChan # << >> /\ jobResultChan' = Tail(jobResultChan)
      /\ cancelled' = cancelled \ {r.job} /\ DropOnceJob(r.job)
      /\ TrySchedule(PlanAfterResult(r.job), exec, sc)
      /\ UNCHANGED <<now, status, num, killEvents, timerC, ran, history>>
  BY DEF OnJobResult
<1>2. /\ jobResultChan \in Seq(Result) /\ r \in Result /\ r.job \in Job
      /\ jobResultChan[1] = r /\ 1 \in DOMAIN jobResultChan
      /\ jobResultChan' \in Seq(Result)
  <2>1. jobResultChan \in Seq(Result)
    BY DEF IInv, TypeOK
  <2>2. r \in Result /\ jobResultChan' \in Seq(Result) /\ jobResultChan[1] = r
    BY <1>1, <2>1, HeadTailProperties
  <2>3. 1 \in DOMAIN jobResultChan
    BY <1>1, <2>1, LenProperties, EmptySeq
  <2> QED BY <2>1, <2>2, <2>3 DEF Result
<1>3. PlanAfterResult(r.job) \in PlanType
  BY <1>1, <1>2, LoopTypes DEF PlanAfterResult
<1>4. sc \in ChanType
  <2>1. Typ[r.job] \in {0, 1} /\ statusChan \in ChanType
    BY <1>1, <1>2, LoopTypes, Constants
  <2>2. ResultStatus(r) \in 0..5 /\ 1 \in 0..1
    BY DEF ResultStatus, Failed, Planned, Done
  <2>3. Push(statusChan, Typ[r.job], r.job, ResultStatus(r), 1) \in ChanType
    BY <1>2, <2>1, <2>2, PushType
  <2> QED BY <2>1, <2>3
<1>5. /\ etcdJobs' \subseteq Job /\ IsFiniteSet(etcdJobs')
      /\ jobEventChan' \in Seq(Event)
  <2>1. CASE EtcdDelete(r.job)
    BY <1>2, <2>1, EtcdDeleteKeeps DEF IInv
  <2>2. CASE UNCHANGED <<etcdJobs, jobEventChan>>
    BY <2>2 DEF IInv, TypeOK
  <2> QED BY <1>1, <2>1, <2>2 DEF DropOnceJob
<1>6. cancelled' \subseteq exec /\ killEvents' \in [Job -> Nat] /\ timerC' \in BOOLEAN
  BY <1>1 DEF IInv, TypeOK
<1>7. exec \in SUBSET Job
  BY <1>1, LoopTypes
<1>8. ASSUME NEW j \in Job PROVE Accounted(j, exec, jobResultChan')
  <2>1. Accounted(j, jobExecutingTable, jobResultChan)
    BY <1>1, LoopTypes
  <2>2. ResultsIn(jobResultChan', j) = {i - 1 : i \in ResultsIn(jobResultChan, j) \ {1}}
    BY <1>1, <1>2, TailResults
  <2>3. CASE j = r.job
    <3>1. 1 \in ResultsIn(jobResultChan, j)
      BY <1>2, <2>3 DEF ResultsIn
    <3>2. goroutine[j] = "none" /\ ResultsIn(jobResultChan, j) = {1}
      BY <2>1, <3>1 DEF Accounted
    <3>3. ResultsIn(jobResultChan', j) = {}
      BY <2>2, <3>2
    <3> QED BY <2>3, <3>2, <3>3 DEF Accounted
  <2>4. CASE j # r.job
    <3>1. 1 \notin ResultsIn(jobResultChan, j)
      BY <1>2, <2>4 DEF ResultsIn
    <3>2. ResultsIn(jobResultChan', j) = {i - 1 : i \in ResultsIn(jobResultChan, j)}
      BY <2>2, <3>1
    <3>3. j \in exec <=> j \in jobExecutingTable
      BY <2>4
    <3>4. ResultsIn(jobResultChan, j) = {} => ResultsIn(jobResultChan', j) = {}
      BY <3>2
    <3>5. ASSUME NEW i, ResultsIn(jobResultChan, j) = {i}
          PROVE  ResultsIn(jobResultChan', j) = {i - 1}
      BY <3>2, <3>5
    <3> QED BY <2>1, <3>3, <3>4, <3>5 DEF Accounted
  <2> QED BY <2>3, <2>4
<1> HIDE DEF exec, sc
<1> QED BY <1>1, <1>2, <1>3, <1>4, <1>5, <1>6, <1>7, <1>8, IterationKeepsIInv

\* The tick is sent: a tick waits, so the timer may be off.
LEMMA ExpiryKeepsIInv == ASSUME IInv, TimerExpires PROVE IInv'
<1>1. TypeOK' /\ IsFiniteSet(etcdJobs')
  BY DEF TimerExpires, IInv, TypeOK
<1>2. NoOversleep'
  BY DEF TimerExpires, NoOversleep
<1>3. AllAccounted'
  <2>1. \A j \in Job : Accounted(j, jobExecutingTable, jobResultChan)
    BY LoopTypes DEF TimerExpires
  <2> QED BY <2>1 DEF TimerExpires, AllAccounted, Accounted, ResultsIn
<1> QED BY <1>1, <1>2, <1>3 DEF IInv

\* A goroutine that ends leaves one result behind.
LEMMA EndKeepsAccounts ==
    ASSUME IInv, alive, NEW j \in Job, NEW err \in {"none", "occupied", "error"},
           goroutine[j] # "none", PushJobResult(j, err),
           UNCHANGED <<alive, jobExecutingTable>>
    PROVE  /\ AllAccounted' /\ jobResultChan' \in Seq(Result)
           /\ goroutine' \in [Job -> {"none", "sleep", "exec"}]
<1> DEFINE r == [job |-> j, err |-> err]
<1>1. /\ jobResultChan \in Seq(Result) /\ goroutine \in [Job -> {"none", "sleep", "exec"}]
      /\ r \in Result /\ r.job = j
  BY DEF IInv, TypeOK, Result
<1>2. goroutine' = [goroutine EXCEPT ![j] = "none"] /\ jobResultChan' = Append(jobResultChan, r)
  BY DEF PushJobResult
<1> HIDE DEF r
<1>3. ASSUME NEW k \in Job PROVE Accounted(k, jobExecutingTable, jobResultChan)'
  <2>1. Accounted(k, jobExecutingTable, jobResultChan)
    BY LoopTypes
  <2>2. ResultsIn(jobResultChan', k) = ResultsIn(jobResultChan, k) \cup
            (IF r.job = k THEN {Len(jobResultChan) + 1} ELSE {})
    BY <1>1, <1>2, AppendResults
  <2>3. CASE k = j
    <3>1. k \in jobExecutingTable /\ ResultsIn(jobResultChan, k) = {}
      BY <2>1, <2>3 DEF Accounted
    <3>2. ResultsIn(jobResultChan', k) = {Len(jobResultChan) + 1}
      BY <1>1, <2>2, <2>3, <3>1
    <3>3. goroutine'[k] = "none"
      BY <1>1, <1>2, <2>3
    <3>4. k \in jobExecutingTable' /\ goroutine'[k] = "none"
          /\ \E i : ResultsIn(jobResultChan', k) = {i}
      BY <3>1, <3>2, <3>3
    <3> QED BY <3>4, Zenon DEF Accounted, ResultsIn
  <2>4. CASE k # j
    <3>1. ResultsIn(jobResultChan', k) = ResultsIn(jobResultChan, k)
      BY <1>1, <2>2, <2>4
    <3>2. goroutine'[k] = goroutine[k]
      BY <1>1, <1>2, <2>4
    <3> QED BY <2>1, <3>1, <3>2 DEF Accounted, ResultsIn
  <2> QED BY <2>3, <2>4
<1>4. jobResultChan' \in Seq(Result) /\ goroutine' \in [Job -> {"none", "sleep", "exec"}]
  BY <1>1, <1>2, AppendProperties
<1> QED BY <1>3, <1>4 DEF AllAccounted

\* The lock is taken, and the command starts; or the goroutine ends.
LEMMA TryLockKeepsIInv ==
    ASSUME IInv, NEW j \in Job, NEW o \in LockOutcomes, TryLock(j, o) PROVE IInv'
<1>1. /\ alive /\ goroutine[j] = "sleep"
      /\ UNCHANGED <<now, etcdJobs, status, num, alive, jobEventChan, killEvents,
                     jobPlanTable, jobExecutingTable, cancelled, statusChan, timer, timerC,
                     panicked>>
  BY DEF TryLock
<1>2. history' \in HistoryType
  BY HistoryKept DEF TryLock, IInv, TypeOK, HistoryType
<1>3. /\ AllAccounted' /\ jobResultChan' \in Seq(Result)
      /\ goroutine' \in [Job -> {"none", "sleep", "exec"}] /\ ran' \in [Job -> Nat]
  <2>1. CASE /\ goroutine' = [goroutine EXCEPT ![j] = "exec"]
             /\ ran' = [ran EXCEPT ![j] = @ + 1] /\ UNCHANGED jobResultChan
    <3>1. /\ jobResultChan' \in Seq(Result) /\ ran' \in [Job -> Nat]
          /\ goroutine' \in [Job -> {"none", "sleep", "exec"}]
          /\ goroutine \in [Job -> {"none", "sleep", "exec"}]
      BY <2>1 DEF IInv, TypeOK
    <3>2. ASSUME NEW k \in Job PROVE Accounted(k, jobExecutingTable, jobResultChan)'
      <4>1. Accounted(k, jobExecutingTable, jobResultChan)
        BY <1>1, LoopTypes
      <4>2. goroutine'[k] = "none" <=> goroutine[k] = "none"
        BY <1>1, <2>1, <3>1
      <4> QED BY <1>1, <2>1, <4>1, <4>2 DEF Accounted, ResultsIn
    <3> QED BY <3>1, <3>2 DEF AllAccounted
  <2>2. CASE /\ PushJobResult(j, IF o = "occupied" THEN "occupied" ELSE "error")
             /\ UNCHANGED ran
    <3>1. (IF o = "occupied" THEN "occupied" ELSE "error") \in {"none", "occupied", "error"}
      OBVIOUS
    <3> QED BY <1>1, <2>2, <3>1, EndKeepsAccounts DEF IInv, TypeOK
  <2> QED BY <2>1, <2>2 DEF TryLock
<1>4. TypeOK' /\ IsFiniteSet(etcdJobs')
  BY <1>1, <1>2, <1>3 DEF IInv, TypeOK, HistoryType
<1>5. NoOversleep'
  BY <1>1 DEF IInv, NoOversleep, InPlan
<1> QED BY <1>3, <1>4, <1>5 DEF IInv

\* The command ends, and so does its goroutine.
LEMMA CommandEndsKeepsIInv ==
    ASSUME IInv, NEW j \in Job, CommandEnds(j) PROVE IInv'
<1>1. /\ alive /\ goroutine[j] = "exec"
      /\ UNCHANGED <<now, etcdJobs, status, num, alive, jobEventChan, killEvents,
                     jobPlanTable, jobExecutingTable, cancelled, statusChan, timer, timerC,
                     panicked, ran, history>>
  BY DEF CommandEnds
<1>2. PICK err \in {"none", "error"} : PushJobResult(j, err)
  BY DEF CommandEnds
<1>3. /\ AllAccounted' /\ jobResultChan' \in Seq(Result)
      /\ goroutine' \in [Job -> {"none", "sleep", "exec"}]
  BY <1>1, <1>2, EndKeepsAccounts
<1>4. TypeOK' /\ IsFiniteSet(etcdJobs')
  BY <1>1, <1>3 DEF IInv, TypeOK
<1>5. NoOversleep'
  BY <1>1 DEF IInv, NoOversleep, InPlan
<1> QED BY <1>3, <1>4, <1>5 DEF IInv

\* An event of the status loop changes the row and the queue only.
LEMMA UpdateStatusKeepsIInv ==
    ASSUME IInv, NEW j \in Job, NEW t \in {0, 1}, UpdateStatus(t, j) PROVE IInv'
<1> DEFINE e == Head(statusChan[t][j])
<1>1. /\ statusChan \in ChanType /\ statusChan[t][j] \in Seq(StatusEvent)
      /\ statusChan[t][j] # << >>
  BY DEF IInv, TypeOK, ChanType, UpdateStatus
<1>2. e \in StatusEvent /\ Tail(statusChan[t][j]) \in Seq(StatusEvent)
  BY <1>1, HeadTailProperties
<1>3. e.status \in 0..5 /\ e.add \in Nat
  BY <1>2 DEF StatusEvent
<1>4. statusChan' \in ChanType
  BY <1>1, <1>2 DEF UpdateStatus, ChanType
<1>5. /\ status' \in [Job -> {NoRow} \cup 0..5] /\ num' \in [Job -> Nat]
      /\ history' \in HistoryType
  <2>1. CASE /\ status' = [status EXCEPT ![j] = e.status]
             /\ num' = [num EXCEPT ![j] = IF t = 0 THEN @ + e.add ELSE 1]
             /\ UNCHANGED history
    <3>1. num[j] \in Nat /\ (IF t = 0 THEN num[j] + e.add ELSE 1) \in Nat
      BY <1>3 DEF IInv, TypeOK
    <3> QED BY <1>3, <2>1, <3>1 DEF IInv, TypeOK, HistoryType
  <2>2. CASE /\ history' = [history EXCEPT !.missed = @ \cup {j}]
             /\ UNCHANGED <<status, num>>
    BY <2>2, HistoryKept DEF IInv, TypeOK, HistoryType
  <2> QED BY <2>1, <2>2 DEF UpdateStatus
<1>6. TypeOK' /\ IsFiniteSet(etcdJobs')
  BY <1>4, <1>5 DEF UpdateStatus, IInv, TypeOK, ChanType, HistoryType
<1>7. AllAccounted' /\ NoOversleep'
  BY QuietKeeps DEF UpdateStatus
<1> QED BY <1>6, <1>7 DEF IInv

\* Time passes, or the process ends.
LEMMA EnvironmentKeepsIInv == ASSUME IInv, Tick \/ Crash PROVE IInv'
<1>1. AllAccounted' /\ NoOversleep'
  BY QuietKeeps DEF Tick, Crash, worker
<1>2. now' \in 1..MaxTime
  <2>1. now \in 1..MaxTime
    BY DEF IInv, TypeOK
  <2> QED BY <2>1, Constants DEF Tick, Crash
<1>3. TypeOK' /\ IsFiniteSet(etcdJobs')
  BY <1>2 DEF Tick, Crash, worker, IInv, TypeOK
<1> QED BY <1>1, <1>3 DEF IInv

\* The jobs a fresh process finds in etcd.
LEMMA SaveEventsType ==
    ASSUME TypeOK, IsFiniteSet(etcdJobs) PROVE SaveEvents \subseteq Seq(Event)
<1>1. Cardinality(etcdJobs) \in Nat /\ etcdJobs \subseteq Job
  BY FS_CardinalityType DEF TypeOK
<1>2. ASSUME NEW s \in SetToSeqs(etcdJobs)
      PROVE  [i \in DOMAIN s |-> [type |-> "save", job |-> s[i]]] \in Seq(Event)
  <2>1. s \in [1..Cardinality(etcdJobs) -> etcdJobs]
    BY DEF SetToSeqs
  <2>2. \A i \in 1..Cardinality(etcdJobs) : [type |-> "save", job |-> s[i]] \in Event
    BY <1>1, <2>1 DEF Event
  <2>3. [i \in 1..Cardinality(etcdJobs) |-> [type |-> "save", job |-> s[i]]] \in Seq(Event)
    BY <1>1, <2>2, IsASeq
  <2> QED BY <2>1, <2>3
<1> QED BY <1>2 DEF SaveEvents

\* A fresh process has nothing planned, and its timer is set.
LEMMA RestartKeepsIInv == ASSUME IInv, Restart PROVE IInv'
<1>1. << >> \in Seq(Result) /\ << >> \in Seq(StatusEvent) /\ DOMAIN << >> = {}
  BY EmptySeq
<1>2. NothingQueued \in ChanType
  BY <1>1 DEF NothingQueued, ChanType
<1>3. jobEventChan' \in Seq(Event)
  BY SaveEventsType DEF Restart, IInv
<1>4. timer' \in Nat
  BY NowType, Constants DEF Restart, IInv
<1>5. history' \in HistoryType
  <2>1. history \in HistoryType
    BY DEF IInv, TypeOK, HistoryType
  <2>2. [history EXCEPT !.restarts = @ + 1] \in HistoryType
    BY <2>1 DEF HistoryType
  <2> QED BY <2>2 DEF Restart
<1>6. TypeOK' /\ IsFiniteSet(etcdJobs')
  BY <1>1, <1>2, <1>3, <1>4, <1>5 DEF Restart, IInv, TypeOK, ChanType, HistoryType
<1>7. AllAccounted'
  BY <1>1 DEF Restart, AllAccounted, Accounted, ResultsIn
<1>8. NoOversleep'
  BY <1>4 DEF Restart, NoOversleep, InPlan
<1> QED BY <1>6, <1>7, <1>8 DEF IInv

\* Every step keeps the invariant.
LEMMA NextIInv == IInv /\ [Next]_vars => IInv'
<1> SUFFICES ASSUME IInv, [Next]_vars PROVE IInv'
  OBVIOUS
<1>1. CASE OnJobEvent
  BY <1>1, JobEventKeepsIInv
<1>2. CASE OnTimer
  BY <1>2, TimerKeepsIInv
<1>3. CASE OnJobResult
  BY <1>3, JobResultKeepsIInv
<1>4. CASE TimerExpires
  BY <1>4, ExpiryKeepsIInv
<1>5. CASE Tick \/ Crash
  BY <1>5, EnvironmentKeepsIInv
<1>6. CASE Restart
  BY <1>6, RestartKeepsIInv
<1>7. ASSUME NEW j \in Job, JobAdd(j) \/ JobDelete(j) \/ JobKill(j) PROVE IInv'
  BY <1>7, RequestsKeepIInv
<1>8. ASSUME NEW j \in Job, OnKill(j) PROVE IInv'
  BY <1>8, KillKeepsIInv
<1>9. ASSUME NEW j \in Job, NEW o \in LockOutcomes, TryLock(j, o) PROVE IInv'
  BY <1>9, TryLockKeepsIInv
<1>10. ASSUME NEW j \in Job, CommandEnds(j) PROVE IInv'
  BY <1>10, CommandEndsKeepsIInv
<1>11. ASSUME NEW j \in Job, NEW t \in {0, 1}, UpdateStatus(t, j) PROVE IInv'
  BY <1>11, UpdateStatusKeepsIInv
<1>12. CASE UNCHANGED vars
  <2>1. TypeOK' /\ IsFiniteSet(etcdJobs')
    BY <1>12 DEF vars, worker, IInv, TypeOK
  <2>2. AllAccounted' /\ NoOversleep'
    BY <1>12, QuietKeeps DEF vars, worker
  <2> QED BY <2>1, <2>2 DEF IInv
<1> QED BY <1>1, <1>2, <1>3, <1>4, <1>5, <1>6, <1>7, <1>8, <1>9, <1>10, <1>11, <1>12 DEF Next

-----------------------------------------------------------------------------
(* The theorems *)

\* Tables, queues, goroutines and timer agree, always.
THEOREM Inductive == Spec => []IInv
BY InitIInv, NextIInv, PTL DEF Spec

\* Every variable of the worker and of the stores keeps its type.
THEOREM TypeCorrect == Spec => []TypeOK
<1>1. IInv => TypeOK
  BY DEF IInv
<1> QED BY <1>1, Inductive, PTL

\* Every entry of jobExecutingTable stands for one goroutine or one queued
\* result: no job runs twice at once in a worker, no execution is forgotten,
\* whatever events, ticks, kills and crashes come between (TryStartJob,
\* handleJobResult).
THEOREM ExecutionAccountingHolds == Spec => []ExecutionAccounting
<1>1. IInv => ExecutionAccounting
  <2> SUFFICES ASSUME IInv, alive, NEW j \in Job
               PROVE  Cardinality(ResultsOf(j)) + (IF goroutine[j] = "none" THEN 0 ELSE 1)
                          = (IF j \in jobExecutingTable THEN 1 ELSE 0)
    BY DEF ExecutionAccounting
  <2>1. Accounted(j, jobExecutingTable, jobResultChan)
    BY LoopTypes
  <2>2. ResultsOf(j) = ResultsIn(jobResultChan, j)
    BY DEF ResultsOf, ResultsIn
  <2>3. ResultsOf(j) = {} => Cardinality(ResultsOf(j)) = 0
    BY FS_EmptySet
  <2>4. \A i : ResultsOf(j) = {i} => Cardinality(ResultsOf(j)) = 1
    BY FS_Singleton
  <2> QED BY <2>1, <2>2, <2>3, <2>4 DEF Accounted
<1> QED BY <1>1, Inductive, PTL

\* The loop never sleeps past the time of a planned cron job (scheduleAfter,
\* Reset), whatever the plans, the clock and the ticks already sent.
THEOREM NoOversleepHolds == Spec => []NoOversleep
<1>1. IInv => NoOversleep
  BY DEF IInv
<1> QED BY <1>1, Inductive, PTL

-----------------------------------------------------------------------------
(* No event is lost *)

EventsIn(s, j) == {i \in DOMAIN s : s[i].job = j}

\* The last event of j in the queue s is of this type.
LastIs(s, j, type) ==
    \E i \in EventsIn(s, j) : s[i].type = type /\ \A k \in EventsIn(s, j) : k <= i

\* PlannedAfterEvents for a queue s and a plan.
PlannedAfter(s, plan, j) ==
    \/ EventsIn(s, j) = {} /\ plan[j] # NoPlan
    \/ LastIs(s, j, "save")

\* A set of positions has a greatest one, which Max chooses.
LEMMA GreatestElement ==
    ASSUME NEW n \in Nat, NEW S \in SUBSET (1..n), S # {}
    PROVE  Max(S) \in S /\ \A y \in S : y <= Max(S)
<1> DEFINE D == {n - x : x \in S}
<1>1. D \in SUBSET Nat /\ D # {}
  <2>1. \A x \in 1..n : n - x \in Nat
    OBVIOUS
  <2>2. \A x \in S : n - x \in Nat /\ n - x \in D
    BY <2>1
  <2>3. D # {}
    BY <2>2
  <2>4. \A d \in D : d \in Nat
    BY <2>2
  <2> QED BY <2>3, <2>4
<1>2. Min0(D) \in D /\ \A d \in D : Min0(D) <= d
  BY <1>1, LeastElement
<1>3. PICK m \in S : Min0(D) = n - m
  BY <1>2
<1>4. \A y \in S : n - y \in D /\ y \in Nat
  OBVIOUS
<1>5. ASSUME NEW y \in S PROVE y <= m
  <2>1. n - m <= n - y
    BY <1>2, <1>3, <1>4
  <2> QED BY <2>1
<1> HIDE DEF D
<1>6. \E x \in S : \A y \in S : x >= y
  BY <1>5
<1> QED BY <1>6 DEF Max

LEMMA PlannedAfterIsIt ==
    ASSUME TypeOK, NEW j \in Job
    PROVE  PlannedAfterEvents(j) <=> PlannedAfter(jobEventChan, jobPlanTable, j)
<1>1. /\ Len(jobEventChan) \in Nat /\ EventsOf(j) \in SUBSET (1..Len(jobEventChan))
      /\ EventsOf(j) = EventsIn(jobEventChan, j)
  BY LenProperties DEF TypeOK, EventsOf, EventsIn
<1>2. CASE EventsOf(j) = {}
  BY <1>1, <1>2 DEF PlannedAfterEvents, PlannedAfter, LastIs, InPlan
<1>3. CASE EventsOf(j) # {}
  <2> DEFINE m == Max(EventsOf(j))
  <2>1. m \in EventsOf(j) /\ \A y \in EventsOf(j) : y <= m
    BY <1>1, <1>3, GreatestElement
  <2>2. \A i \in EventsOf(j) : (\A k \in EventsOf(j) : k <= i) => i = m
    BY <1>1, <2>1
  <2>3. LastIs(jobEventChan, j, "save") <=> jobEventChan[m].type = "save"
    BY <1>1, <2>1, <2>2 DEF LastIs
  <2> HIDE DEF m
  <2> QED BY <1>1, <1>3, <2>3 DEF PlannedAfterEvents, PlannedAfter, m
<1> QED BY <1>2, <1>3

\* An event that joins the queue is the last one of its job.
LEMMA AppendPlanned ==
    ASSUME NEW s \in Seq(Event), NEW e \in Event, NEW plan, NEW j
    PROVE  PlannedAfter(Append(s, e), plan, j)
               <=> IF e.job = j THEN e.type = "save" ELSE PlannedAfter(s, plan, j)
<1>1. /\ DOMAIN s = 1..Len(s) /\ Len(s) \in Nat
      /\ DOMAIN Append(s, e) = 1..(Len(s) + 1)
      /\ \A i \in 1..Len(s) : Append(s, e)[i] = s[i]
      /\ Append(s, e)[Len(s) + 1] = e
  BY AppendProperties, LenProperties
<1>2. CASE e.job = j
  <2>1. /\ Len(s) + 1 \in EventsIn(Append(s, e), j)
        /\ \A i \in EventsIn(Append(s, e), j) : i <= Len(s) + 1 /\ i \in Nat
    BY <1>1, <1>2 DEF EventsIn
  <2>2. \A i \in EventsIn(Append(s, e), j) :
            (\A k \in EventsIn(Append(s, e), j) : k <= i) => i = Len(s) + 1
    BY <1>1, <2>1
  <2> QED BY <1>1, <1>2, <2>1, <2>2 DEF PlannedAfter, LastIs
<1>3. CASE e.job # j
  <2>1. EventsIn(Append(s, e), j) = EventsIn(s, j) /\ EventsIn(s, j) \subseteq 1..Len(s)
    BY <1>1, <1>3 DEF EventsIn
  <2> QED BY <1>1, <1>3, <2>1 DEF PlannedAfter, LastIs
<1> QED BY <1>2, <1>3

\* The first event leaves the queue: it decides only if it was the last one.
LEMMA TailPlanned ==
    ASSUME NEW s \in Seq(Event), s # << >>, NEW plan, NEW plan2, NEW j,
           Head(s).job = j => (plan2[j] # NoPlan <=> Head(s).type = "save"),
           Head(s).job # j => (plan2[j] # NoPlan <=> plan[j] # NoPlan)
    PROVE  PlannedAfter(Tail(s), plan2, j) <=> PlannedAfter(s, plan, j)
<1>1. /\ DOMAIN s = 1..Len(s) /\ Len(s) \in Nat \ {0}
      /\ DOMAIN Tail(s) = 1..(Len(s) - 1)
      /\ \A i \in 1..(Len(s) - 1) : Tail(s)[i] = s[i + 1]
      /\ Head(s) = s[1]
  BY HeadTailProperties, LenProperties, EmptySeq
<1> DEFINE E == EventsIn(s, j)
<1> DEFINE T == EventsIn(Tail(s), j)
<1>2. /\ \A i \in T : i \in Nat /\ i + 1 \in E /\ Tail(s)[i] = s[i + 1]
      /\ \A i \in E \ {1} : i - 1 \in T /\ i \in Nat /\ Tail(s)[i - 1] = s[i]
      /\ \A i \in E : i \in Nat /\ 1 <= i
  <2>1. ASSUME NEW i \in T PROVE i \in Nat /\ i + 1 \in E /\ Tail(s)[i] = s[i + 1]
    BY <1>1 DEF EventsIn
  <2>2. ASSUME NEW i \in E \ {1} PROVE i - 1 \in T /\ i \in Nat /\ Tail(s)[i - 1] = s[i]
    <3>1. i \in 2..Len(s) /\ s[i].job = j
      BY <1>1 DEF EventsIn
    <3>2. i - 1 \in 1..(Len(s) - 1) /\ Tail(s)[i - 1] = s[(i - 1) + 1] /\ (i - 1) + 1 = i
      BY <1>1, <3>1
    <3> QED BY <1>1, <3>1, <3>2 DEF EventsIn
  <2>3. \A i \in E : i \in Nat /\ 1 <= i
    BY <1>1 DEF EventsIn
  <2> QED BY <2>1, <2>2, <2>3
<1>3. 1 \in E <=> Head(s).job = j
  BY <1>1 DEF EventsIn
<1>4. PlannedAfter(s, plan, j) <=>
          \/ E = {} /\ plan[j] # NoPlan
          \/ \E i \in E : s[i].type = "save" /\ \A k \in E : k <= i
  BY DEF PlannedAfter, LastIs
<1>5. PlannedAfter(Tail(s), plan2, j) <=>
          \/ T = {} /\ plan2[j] # NoPlan
          \/ \E i \in T : Tail(s)[i].type = "save" /\ \A k \in T : k <= i
  BY DEF PlannedAfter, LastIs
<1> HIDE DEF E, T
<1>6. CASE T = {}
  <2>1. E \subseteq {1}
    BY <1>2, <1>6
  <2>2. CASE 1 \in E
    BY <1>1, <1>3, <1>4, <1>5, <1>6, <2>1, <2>2
  <2>3. CASE 1 \notin E
    BY <1>3, <1>4, <1>5, <1>6, <2>1, <2>3
  <2> QED BY <2>2, <2>3
<1>7. CASE T # {}
  <2>1. ASSUME NEW i \in T, Tail(s)[i].type = "save", \A k \in T : k <= i
        PROVE  i + 1 \in E /\ s[i + 1].type = "save" /\ \A k \in E : k <= i + 1
    <3>1. ASSUME NEW k \in E PROVE k <= i + 1
      <4>1. CASE k = 1
        BY <1>2, <4>1
      <4>2. CASE k # 1
        BY <1>2, <2>1, <4>2
      <4> QED BY <4>1, <4>2
    <3> QED BY <1>2, <2>1, <3>1
  <2>2. ASSUME NEW i \in E, s[i].type = "save", \A k \in E : k <= i
        PROVE  i - 1 \in T /\ Tail(s)[i - 1].type = "save" /\ \A k \in T : k <= i - 1
    <3>1. PICK k \in T : TRUE
      BY <1>7
    <3>2. k + 1 <= i /\ k \in Nat /\ i \in Nat /\ k # 0
      <4>1. k # 0
        BY <1>1, <3>1 DEF T, EventsIn
      <4> QED BY <1>2, <2>2, <4>1
    <3>3. i # 1
      BY <3>2
    <3>4. i - 1 \in T /\ Tail(s)[i - 1] = s[i]
      BY <1>2, <3>3
    <3>5. \A l \in T : l <= i - 1
      BY <1>2, <2>2
    <3> QED BY <2>2, <3>4, <3>5
  <2>3. E # {}
    BY <1>2, <1>7
  <2> QED BY <1>4, <1>5, <1>7, <2>1, <2>2, <2>3
<1> QED BY <1>6, <1>7

\* PlanFollowsEtcd of one job.
Follows(j, etcd, s, plan) ==
    CronExpr[j] # "bad" =>
        /\ PlannedAfter(s, plan, j) => j \in etcd
        /\ j \in etcd => PlannedAfter(s, plan, j) \/ (Typ[j] = 1 /\ "delete" \in MayFail)

AllFollow == alive => \A j \in Job : Follows(j, etcdJobs, jobEventChan, jobPlanTable)

\* The tail of an iteration plans no job anew, and drops none.
LEMMA TryScheduleKeepsPlanned ==
    ASSUME TypeOK, NEW plan \in PlanType, NEW exec, NEW sc, TrySchedule(plan, exec, sc), alive',
           NEW j \in Job
    PROVE  jobPlanTable'[j] # NoPlan <=> plan[j] # NoPlan
<1>1. CASE NilExpr(plan, exec)
  BY <1>1 DEF TrySchedule
<1>2. CASE ~NilExpr(plan, exec)
  <2>1. jobPlanTable'[j] = Replan(plan)[j]
    BY <1>2 DEF TrySchedule
  <2>2. ExprNext(j) \in Nat
    BY NowType, ExprNextType
  <2> QED BY <2>1, <2>2 DEF Replan, Due
<1> QED BY <1>1, <1>2

\* A queue and the plans behind it decide together.
LEMMA SamePlanned ==
    ASSUME NEW s, NEW plan, NEW plan2, NEW j, plan[j] # NoPlan <=> plan2[j] # NoPlan
    PROVE  PlannedAfter(s, plan, j) <=> PlannedAfter(s, plan2, j)
BY DEF PlannedAfter

\* The deletion of a key, with its event.
LEMMA EtcdDeleteFollows ==
    ASSUME TypeOK, alive, NEW k \in Job, EtcdDelete(k), NEW plan, NEW j \in Job,
           Follows(j, etcdJobs, jobEventChan, jobPlanTable),
           IF j = k THEN plan[j] \in {NoPlan, jobPlanTable[j]}
                    ELSE plan[j] # NoPlan <=> jobPlanTable[j] # NoPlan
    PROVE  Follows(j, etcdJobs', jobEventChan', plan)
<1> DEFINE e == [type |-> "delete", job |-> k]
<1>1. etcdJobs' = etcdJobs \ {k} /\ jobEventChan \in Seq(Event) /\ e \in Event
  BY DEF EtcdDelete, TypeOK, Event
<1>2. CASE k \in etcdJobs
  <2>1. jobEventChan' = Append(jobEventChan, e)
    BY <1>2 DEF EtcdDelete, WatchJobs
  <2>2. PlannedAfter(jobEventChan', plan, j)
            <=> IF k = j THEN FALSE ELSE PlannedAfter(jobEventChan, plan, j)
    BY <1>1, <2>1, AppendPlanned
  <2>3. k # j => (PlannedAfter(jobEventChan, plan, j)
                      <=> PlannedAfter(jobEventChan, jobPlanTable, j))
    BY SamePlanned
  <2> QED BY <1>1, <2>2, <2>3 DEF Follows
<1>3. CASE k \notin etcdJobs
  <2>1. jobEventChan' = jobEventChan /\ etcdJobs' = etcdJobs
    BY <1>1, <1>3 DEF EtcdDelete
  <2>2. PlannedAfter(jobEventChan, plan, j) => PlannedAfter(jobEventChan, jobPlanTable, j)
    BY DEF PlannedAfter
  <2>3. j # k => (PlannedAfter(jobEventChan, plan, j)
                      <=> PlannedAfter(jobEventChan, jobPlanTable, j))
    BY SamePlanned
  <2> QED BY <1>3, <2>1, <2>2, <2>3 DEF Follows
<1> QED BY <1>2, <1>3

\* The requests of the master.
LEMMA RequestsFollow ==
    ASSUME IInv, AllFollow, NEW k \in Job, JobAdd(k) \/ JobDelete(k) \/ JobKill(k)
    PROVE  AllFollow'
<1>1. alive' = alive /\ jobPlanTable' = jobPlanTable /\ TypeOK
  BY DEF JobAdd, JobDelete, JobKill, IInv
<1>2. SUFFICES ASSUME alive, NEW j \in Job
               PROVE  Follows(j, etcdJobs', jobEventChan', jobPlanTable)
  BY <1>1 DEF AllFollow, Follows
<1>3. Follows(j, etcdJobs, jobEventChan, jobPlanTable)
  BY <1>2 DEF AllFollow
<1>4. CASE JobAdd(k)
  <2> DEFINE e == [type |-> "save", job |-> k]
  <2>1. /\ etcdJobs' = etcdJobs \cup {k} /\ jobEventChan' = Append(jobEventChan, e)
        /\ jobEventChan \in Seq(Event) /\ e \in Event
    BY <1>1, <1>2, <1>4 DEF JobAdd, WatchJobs, TypeOK, Event
  <2>2. PlannedAfter(jobEventChan', jobPlanTable, j)
            <=> IF k = j THEN TRUE ELSE PlannedAfter(jobEventChan, jobPlanTable, j)
    BY <2>1, AppendPlanned
  <2> QED BY <1>3, <2>1, <2>2 DEF Follows
<1>5. CASE JobDelete(k)
  BY <1>1, <1>2, <1>3, <1>5, EtcdDeleteFollows DEF JobDelete
<1>6. CASE JobKill(k)
  BY <1>3, <1>6 DEF JobKill
<1> QED BY <1>4, <1>5, <1>6

\* An iteration that leaves the queue of job events alone, and the plans but
\* for the times.
LEMMA IterationFollows ==
    ASSUME IInv, AllFollow, alive, NEW exec, NEW sc, TrySchedule(jobPlanTable, exec, sc),
           UNCHANGED <<etcdJobs, jobEventChan>>
    PROVE  AllFollow'
<1> SUFFICES ASSUME alive', NEW j \in Job
             PROVE  Follows(j, etcdJobs, jobEventChan, jobPlanTable')
  BY DEF AllFollow, Follows, PlannedAfter, LastIs, EventsIn
<1>1. jobPlanTable'[j] # NoPlan <=> jobPlanTable[j] # NoPlan
  BY LoopTypes, TryScheduleKeepsPlanned DEF IInv
<1>2. PlannedAfter(jobEventChan, jobPlanTable', j) <=> PlannedAfter(jobEventChan, jobPlanTable, j)
  BY <1>1, SamePlanned
<1> QED BY <1>2 DEF AllFollow, Follows

\* SAVE and DELETE events.
LEMMA JobEventFollows == ASSUME IInv, AllFollow, OnJobEvent PROVE AllFollow'
<1> DEFINE e == Head(jobEventChan)
<1>1. /\ alive /\ jobEventChan # << >> /\ jobEventChan' = Tail(jobEventChan)
      /\ etcdJobs' = etcdJobs /\ TypeOK /\ jobEventChan \in Seq(Event) /\ e \in Event
      /\ e.job \in Job
      /\ (e.type = "save" /\ OnSave(e.job)) \/ (e.type = "delete" /\ OnDelete(e.job))
  <2>1. alive /\ jobEventChan # << >> /\ jobEventChan \in Seq(Event) /\ TypeOK
    BY DEF OnJobEvent, IInv, TypeOK
  <2>2. e \in Event
    BY <2>1, HeadTailProperties
  <2> QED BY <2>1, <2>2 DEF OnJobEvent, Event
<1> HIDE DEF e
<1> SUFFICES ASSUME alive', NEW j \in Job, CronExpr[j] # "bad"
             PROVE  PlannedAfter(jobEventChan', jobPlanTable', j)
                        <=> PlannedAfter(jobEventChan, jobPlanTable, j)
  BY <1>1 DEF AllFollow, Follows, PlannedAfter, LastIs, EventsIn
<1>2. /\ e.job = j => (jobPlanTable'[j] # NoPlan <=> e.type = "save")
      /\ e.job # j => (jobPlanTable'[j] # NoPlan <=> jobPlanTable[j] # NoPlan)
  <2>0. /\ jobPlanTable \in PlanType /\ jobPlanTable \in [Job -> {NoPlan} \cup Nat]
        /\ [jobPlanTable EXCEPT ![e.job] = NoPlan] \in PlanType
    BY <1>1, LoopTypes DEF PlanType
  <2>1. CASE e.type = "save" /\ OnSave(e.job)
    <3>1. CASE CronExpr[e.job] = "bad"
      <4>1. TrySchedule(jobPlanTable, jobExecutingTable, statusChan) /\ e.job # j
        BY <2>1, <3>1 DEF OnSave
      <4> QED BY <1>1, <2>0, <4>1, TryScheduleKeepsPlanned
    <3>2. CASE CronExpr[e.job] # "bad"
      <4> DEFINE p == [jobPlanTable EXCEPT ![e.job] = BuildJobSchedulePlan(e.job)]
      <4>1. BuildJobSchedulePlan(e.job) \in Nat
        BY <1>1, NowType, ExprNextType DEF BuildJobSchedulePlan
      <4>2. p \in PlanType /\ (e.job = j => p[j] # NoPlan)
            /\ (e.job # j => p[j] = jobPlanTable[j])
        BY <1>1, <2>0, <4>1 DEF PlanType
      <4>3. PICK sc : TrySchedule(p, jobExecutingTable, sc)
        BY <2>1, <3>2 DEF OnSave
      <4> HIDE DEF p
      <4>4. jobPlanTable'[j] # NoPlan <=> p[j] # NoPlan
        BY <1>1, <4>2, <4>3, TryScheduleKeepsPlanned
      <4> QED BY <2>1, <4>2, <4>4
    <3> QED BY <3>1, <3>2
  <2>2. CASE e.type = "delete" /\ OnDelete(e.job)
    <3> DEFINE p == [jobPlanTable EXCEPT ![e.job] = NoPlan]
    <3>1. p \in PlanType /\ (e.job = j => p[j] = NoPlan) /\ (e.job # j => p[j] = jobPlanTable[j])
      BY <1>1, <2>0
    <3>2. CASE jobPlanTable[e.job] = NoPlan
      <4>1. TrySchedule(jobPlanTable, jobExecutingTable, statusChan)
        BY <2>2, <3>2 DEF OnDelete
      <4>2. jobPlanTable'[j] # NoPlan <=> jobPlanTable[j] # NoPlan
        BY <1>1, <2>0, <4>1, TryScheduleKeepsPlanned
      <4> QED BY <2>2, <3>2, <4>2
    <3>3. CASE jobPlanTable[e.job] # NoPlan
      <4>1. PICK sc : TrySchedule(p, jobExecutingTable, sc)
        BY <2>2, <3>3 DEF OnDelete
      <4> HIDE DEF p
      <4>2. jobPlanTable'[j] # NoPlan <=> p[j] # NoPlan
        BY <1>1, <3>1, <4>1, TryScheduleKeepsPlanned
      <4> QED BY <2>2, <3>1, <4>2
    <3> QED BY <3>2, <3>3
  <2> QED BY <1>1, <2>1, <2>2
<1> QED BY <1>1, <1>2, TailPlanned DEF e

\* A result: the plan of a once job goes, and its key, if etcd answers.
LEMMA JobResultFollows == ASSUME IInv, AllFollow, OnJobResult PROVE AllFollow'
<1> DEFINE k == Head(jobResultChan).job
<1>1. /\ alive /\ TypeOK /\ k \in Job /\ DropOnceJob(k)
      /\ \E exec, sc : TrySchedule(PlanAfterResult(k), exec, sc)
  <2>1. jobResultChan \in Seq(Result) /\ jobResultChan # << >> /\ TypeOK
    BY DEF IInv, TypeOK, OnJobResult
  <2>2. Head(jobResultChan) \in Result
    BY <2>1, HeadTailProperties
  <2> QED BY <2>1, <2>2 DEF Result, OnJobResult
<1> HIDE DEF k
<1>2. /\ PlanAfterResult(k) \in PlanType /\ jobPlanTable \in [Job -> {NoPlan} \cup Nat]
  BY <1>1, LoopTypes DEF PlanAfterResult, PlanType
<1> SUFFICES ASSUME alive', NEW j \in Job
             PROVE  Follows(j, etcdJobs', jobEventChan', jobPlanTable')
  BY DEF AllFollow, Follows, PlannedAfter, LastIs, EventsIn
<1>3. Follows(j, etcdJobs, jobEventChan, jobPlanTable)
  BY <1>1 DEF AllFollow
<1>4. jobPlanTable'[j] # NoPlan <=> PlanAfterResult(k)[j] # NoPlan
  BY <1>1, <1>2, TryScheduleKeepsPlanned
<1>5. IF Typ[k] = 1 /\ j = k THEN jobPlanTable'[j] = NoPlan
                             ELSE jobPlanTable'[j] # NoPlan <=> jobPlanTable[j] # NoPlan
  BY <1>1, <1>2, <1>4 DEF PlanAfterResult
<1>6. CASE Typ[k] = 1 /\ EtcdDelete(k)
  BY <1>1, <1>3, <1>5, <1>6, EtcdDeleteFollows
<1>7. CASE (Typ[k] = 0 \/ "delete" \in MayFail) /\ UNCHANGED <<etcdJobs, jobEventChan>>
  <2>1. CASE Typ[k] = 1 /\ j = k
    <3>1. PlannedAfter(jobEventChan, jobPlanTable', j) => PlannedAfter(jobEventChan, jobPlanTable, j)
      BY <1>5, <2>1 DEF PlannedAfter
    <3> QED BY <1>3, <1>7, <2>1, <3>1 DEF Follows
  <2>2. CASE ~(Typ[k] = 1 /\ j = k)
    <3>1. PlannedAfter(jobEventChan, jobPlanTable', j)
              <=> PlannedAfter(jobEventChan, jobPlanTable, j)
      BY <1>5, <2>2, SamePlanned
    <3> QED BY <1>3, <1>7, <3>1 DEF Follows
  <2> QED BY <2>1, <2>2
<1> QED BY <1>1, <1>6, <1>7 DEF DropOnceJob

\* A fresh process finds one SAVE event for each key.
LEMMA FreshEvents ==
    ASSUME IInv, Restart
    PROVE  /\ \A j : j \notin etcdJobs => EventsIn(jobEventChan', j) = {}
           /\ \A j \in etcdJobs : \E m \in Nat :
                 EventsIn(jobEventChan', j) = {m} /\ jobEventChan'[m].type = "save"
<1> DEFINE n == Cardinality(etcdJobs)
<1>1. n \in Nat /\ IsFiniteSet(etcdJobs) /\ Cardinality(1..n) = n
  BY FS_CardinalityType, FS_Interval DEF IInv
<1>2. PICK s \in SetToSeqs(etcdJobs) :
          jobEventChan' = [i \in DOMAIN s |-> [type |-> "save", job |-> s[i]]]
  BY DEF Restart, SaveEvents
<1>3. /\ s \in [1..n -> etcdJobs] /\ \A i, k \in 1..n : i # k => s[i] # s[k]
      /\ \A j \in etcdJobs : \E i \in 1..n : s[i] = j
  <2>1. s \in [1..n -> etcdJobs] /\ \A i, k \in 1..n : i # k => s[i] # s[k]
    BY DEF SetToSeqs
  <2>2. s \in Injection(1..n, etcdJobs)
    BY <2>1 DEF Injection, IsInjective
  <2>3. s \in Surjection(1..n, etcdJobs)
    BY <1>1, <2>2, FS_Injection
  <2> QED BY <2>1, <2>3 DEF Surjection
<1> DEFINE q == jobEventChan'
<1>4. DOMAIN q = 1..n /\ \A i \in 1..n : q[i].type = "save" /\ q[i].job = s[i]
  BY <1>2, <1>3
<1> HIDE DEF q, n
<1>5. ASSUME NEW j, j \notin etcdJobs PROVE EventsIn(q, j) = {}
  BY <1>3, <1>4, <1>5 DEF EventsIn
<1>6. ASSUME NEW j \in etcdJobs PROVE \E m \in Nat : EventsIn(q, j) = {m} /\ q[m].type = "save"
  <2>1. PICK m \in 1..n : s[m] = j
    BY <1>3
  <2>2. EventsIn(q, j) = {m} /\ q[m].type = "save" /\ m \in Nat
    BY <1>1, <1>3, <1>4, <2>1 DEF EventsIn
  <2> QED BY <2>2
<1> QED BY <1>5, <1>6 DEF q

\* So it will have the jobs of etcd.
LEMMA RestartFollows == ASSUME IInv, Restart PROVE AllFollow'
<1>1. etcdJobs' = etcdJobs /\ jobPlanTable' = [j \in Job |-> NoPlan]
  BY DEF Restart
<1>2. ASSUME NEW j \in Job PROVE PlannedAfter(jobEventChan', jobPlanTable', j) <=> j \in etcdJobs
  <2>1. CASE j \notin etcdJobs
    BY <1>1, <2>1, FreshEvents DEF PlannedAfter, LastIs
  <2>2. CASE j \in etcdJobs
    <3>1. PICK m \in Nat : EventsIn(jobEventChan', j) = {m} /\ jobEventChan'[m].type = "save"
      BY <2>2, FreshEvents
    <3>2. LastIs(jobEventChan', j, "save")
      BY <3>1 DEF LastIs
    <3> QED BY <2>2, <3>2 DEF PlannedAfter
  <2> QED BY <2>1, <2>2
<1> QED BY <1>1, <1>2 DEF AllFollow, Follows, PlannedAfter, LastIs, EventsIn

LEMMA NextAllFollow == IInv /\ AllFollow /\ [Next]_vars => AllFollow'
<1> SUFFICES ASSUME IInv, AllFollow, [Next]_vars PROVE AllFollow'
  OBVIOUS
<1>1. ASSUME UNCHANGED <<etcdJobs, jobEventChan, jobPlanTable>>, alive' => alive PROVE AllFollow'
  BY <1>1 DEF AllFollow, Follows, PlannedAfter, LastIs, EventsIn
<1>2. CASE OnTimer
  BY <1>2, IterationFollows DEF OnTimer
<1>3. CASE TimerExpires \/ Tick \/ Crash \/ UNCHANGED vars
  BY <1>1, <1>3 DEF TimerExpires, Tick, Crash, vars, worker
<1>4. ASSUME NEW j \in Job, OnKill(j) PROVE AllFollow'
  BY <1>4, IterationFollows DEF OnKill
<1>5. ASSUME NEW j \in Job, NEW o \in LockOutcomes, TryLock(j, o) PROVE AllFollow'
  BY <1>1, <1>5 DEF TryLock
<1>6. ASSUME NEW j \in Job, CommandEnds(j) PROVE AllFollow'
  BY <1>1, <1>6 DEF CommandEnds
<1>7. ASSUME NEW j \in Job, NEW t \in {0, 1}, UpdateStatus(t, j) PROVE AllFollow'
  BY <1>1, <1>7 DEF UpdateStatus
<1> QED BY <1>2, <1>3, <1>4, <1>5, <1>6, <1>7, RequestsFollow, JobEventFollows,
           JobResultFollows, RestartFollows DEF Next

LEMMA InitFollows == Init => AllFollow
<1>1. Init => \A j \in Job : EventsIn(jobEventChan, j) = {}
  BY EmptySeq DEF Init, EventsIn
<1> QED BY <1>1 DEF Init, AllFollow, Follows, PlannedAfter, LastIs

\* No event is lost or applied out of order: with the queued events handled
\* the plan table has the jobs of etcd, for any jobs, requests, results and
\* restarts (watchJobs, handleJobEvent, handleJobResult).
THEOREM PlanFollowsEtcdHolds == Spec => []PlanFollowsEtcd
<1>1. IInv /\ AllFollow => PlanFollowsEtcd
  BY PlannedAfterIsIt DEF IInv, AllFollow, Follows, PlanFollowsEtcd
<1> QED BY <1>1, InitFollows, InitIInv, NextIInv, NextAllFollow, PTL DEF Spec

-----------------------------------------------------------------------------
(* Once jobs *)

\* What is known of a name without a row: nothing.
Unregistered(j) ==
    /\ j \notin etcdJobs /\ EventsIn(jobEventChan, j) = {} /\ killEvents[j] = 0
    /\ jobPlanTable[j] = NoPlan /\ j \notin jobExecutingTable
    /\ \A t \in {0, 1} : statusChan[t][j] = << >>
    /\ ran[j] = 0

RowsFirst == \A j \in Job : status[j] = NoRow => Unregistered(j)

\* What TrySchedule does to one job.
LEMMA TryScheduleEffects ==
    ASSUME TypeOK, NEW plan \in PlanType, NEW exec \in SUBSET Job, NEW sc \in ChanType,
           TrySchedule(plan, exec, sc), NEW j \in Job
    PROVE  /\ alive' => alive
           /\ jobPlanTable'[j] # NoPlan <=> plan[j] # NoPlan
           /\ j \in exec => j \in jobExecutingTable'
           /\ plan[j] = NoPlan \/ j \in exec =>
                 /\ goroutine'[j] = goroutine[j]
                 /\ j \in jobExecutingTable' <=> j \in exec
           /\ \/ goroutine'[j] = goroutine[j] /\ (j \in jobExecutingTable' <=> j \in exec)
              \/ goroutine'[j] = "sleep" /\ j \in jobExecutingTable'
           /\ plan[j] = NoPlan => \A t \in {0, 1} : statusChan'[t][j] = sc[t][j]
<1>1. CASE NilExpr(plan, exec)
  BY <1>1 DEF TrySchedule
<1>2. CASE ~NilExpr(plan, exec)
  <2>1. /\ jobPlanTable' = Replan(plan) /\ alive' = alive
        /\ jobExecutingTable' = exec \cup Starts(plan, exec)
        /\ goroutine' = [k \in Job |-> IF k \in Starts(plan, exec) THEN "sleep" ELSE goroutine[k]]
        /\ statusChan' = [t \in {0, 1} |-> [k \in Job |->
                IF k \in Starts(plan, exec) /\ Typ[k] = t
                THEN Append(sc[t][k], [status |-> Running, add |-> 0])
                ELSE sc[t][k]]]
    BY <1>2 DEF TrySchedule
  <2>2. ExprNext(j) \in Nat
    BY NowType, ExprNextType
  <2>3. jobPlanTable'[j] # NoPlan <=> plan[j] # NoPlan
    BY <2>1, <2>2 DEF Replan, Due
  <2>4. j \in Starts(plan, exec) => j \notin exec /\ plan[j] # NoPlan
    BY DEF Starts, Due
  <2>5. /\ goroutine'[j] = IF j \in Starts(plan, exec) THEN "sleep" ELSE goroutine[j]
        /\ j \in jobExecutingTable' <=> j \in exec \/ j \in Starts(plan, exec)
        /\ j \notin Starts(plan, exec) => \A t \in {0, 1} : statusChan'[t][j] = sc[t][j]
    BY <2>1
  <2> QED BY <2>1, <2>3, <2>4, <2>5
<1> QED BY <1>1, <1>2

\* An event for k leaves the queues of other jobs alone.
LEMMA PushLeaves ==
    ASSUME NEW sc \in ChanType, NEW t \in {0, 1}, NEW k \in Job, NEW st, NEW add,
           NEW j \in Job, j # k, NEW u \in {0, 1}
    PROVE  Push(sc, t, k, st, add)[u][j] = sc[u][j]
BY DEF Push, ChanType

\* The events that remain when the first is received.
LEMMA TailEvents ==
    ASSUME NEW s \in Seq(Event), s # << >>, NEW j, NEW i \in EventsIn(Tail(s), j)
    PROVE  i \in Nat \ {0} /\ i + 1 \in EventsIn(s, j) /\ Tail(s)[i] = s[i + 1]
<1>1. /\ DOMAIN s = 1..Len(s) /\ Len(s) \in Nat \ {0}
      /\ DOMAIN Tail(s) = 1..(Len(s) - 1)
      /\ \A k \in 1..(Len(s) - 1) : Tail(s)[k] = s[k + 1]
  BY HeadTailProperties, LenProperties, EmptySeq
<1> QED BY <1>1 DEF EventsIn

LEMMA AppendEvents ==
    ASSUME NEW s \in Seq(Event), NEW e \in Event, NEW j
    PROVE  /\ EventsIn(Append(s, e), j) =
                  EventsIn(s, j) \cup (IF e.job = j THEN {Len(s) + 1} ELSE {})
           /\ \A i \in EventsIn(s, j) : Append(s, e)[i] = s[i]
           /\ Append(s, e)[Len(s) + 1] = e
<1>1. /\ DOMAIN s = 1..Len(s) /\ Len(s) \in Nat
      /\ DOMAIN Append(s, e) = 1..(Len(s) + 1)
      /\ \A i \in 1..Len(s) : Append(s, e)[i] = s[i]
      /\ Append(s, e)[Len(s) + 1] = e
  BY AppendProperties, LenProperties
<1> QED BY <1>1 DEF EventsIn

\* The event of the loop is about a job with a row.
LEMMA HeadEvent ==
    ASSUME IInv, OnJobEvent
    PROVE  \E e \in Event :
              /\ e = Head(jobEventChan) /\ e.job \in Job
              /\ 1 \in EventsIn(jobEventChan, e.job) /\ jobEventChan[1] = e
              /\ \/ e.type = "save" /\ OnSave(e.job)
                 \/ e.type = "delete" /\ OnDelete(e.job)
<1>1. jobEventChan # << >> /\ jobEventChan \in Seq(Event)
  BY DEF OnJobEvent, IInv, TypeOK
<1>2. Head(jobEventChan) \in Event /\ jobEventChan[1] = Head(jobEventChan)
      /\ 1 \in DOMAIN jobEventChan
  BY <1>1, HeadTailProperties, LenProperties, EmptySeq
<1> QED BY <1>1, <1>2 DEF OnJobEvent, Event, EventsIn

\* The plan and the status events a handler leaves differ from those before
\* at the job of its event only.
LEMMA EventHandler ==
    ASSUME IInv, OnJobEvent, NEW k \in Job, OnSave(k) \/ OnDelete(k)
    PROVE  \E plan \in PlanType, sc \in ChanType :
              /\ TrySchedule(plan, jobExecutingTable, sc)
              /\ \A j \in Job \ {k} : plan[j] = jobPlanTable[j]
              /\ \A j \in Job \ {k}, t \in {0, 1} : sc[t][j] = statusChan[t][j]
<1>1. /\ alive /\ jobPlanTable \in PlanType /\ statusChan \in ChanType
      /\ jobPlanTable \in [Job -> {NoPlan} \cup Nat]
      /\ Typ[k] \in {0, 1} /\ 0 \in {0, 1} /\ Planned \in 0..5 /\ Deleted \in 0..5 /\ 0 \in 0..1
  BY LoopTypes, Constants DEF OnJobEvent, PlanType, Planned, Deleted
<1>2. ASSUME NEW p \in {NoPlan} \cup Nat, NEW t \in {0, 1}, NEW st \in 0..5,
             TrySchedule([jobPlanTable EXCEPT ![k] = p], jobExecutingTable,
                         Push(statusChan, t, k, st, 0))
      PROVE  \E plan \in PlanType, sc \in ChanType :
                /\ TrySchedule(plan, jobExecutingTable, sc)
                /\ \A j \in Job \ {k} : plan[j] = jobPlanTable[j]
                /\ \A j \in Job \ {k}, u \in {0, 1} : sc[u][j] = statusChan[u][j]
  <2> DEFINE plan == [jobPlanTable EXCEPT ![k] = p]
  <2> DEFINE sc == Push(statusChan, t, k, st, 0)
  <2>1. plan \in PlanType /\ \A j \in Job \ {k} : plan[j] = jobPlanTable[j]
    BY <1>1 DEF PlanType
  <2>2. \A j \in Job \ {k}, u \in {0, 1} : sc[u][j] = statusChan[u][j]
    BY <1>1, PushLeaves
  <2>0. sc \in ChanType
    <3>1. statusChan \in ChanType /\ 0 \in 0..1
      BY <1>1
    <3> QED BY <3>1, PushType
  <2>3. TrySchedule(plan, jobExecutingTable, sc)
    BY <1>2
  <2> HIDE DEF plan, sc
  <2> QED BY <2>0, <2>1, <2>2, <2>3
<1>3. CASE TrySchedule(jobPlanTable, jobExecutingTable, statusChan)
  BY <1>1, <1>3
<1>4. BuildJobSchedulePlan(k) \in Nat
  BY NowType, ExprNextType DEF BuildJobSchedulePlan, IInv
<1>5. CASE OnSave(k)
  <2>1. CASE CronExpr[k] = "bad"
    BY <1>3, <1>5, <2>1 DEF OnSave
  <2>2. CASE CronExpr[k] # "bad"
    BY <1>1, <1>2, <1>4, <1>5, <2>2 DEF OnSave
  <2> QED BY <2>1, <2>2
<1>6. CASE OnDelete(k)
  <2>1. CASE jobPlanTable[k] = NoPlan
    BY <1>3, <1>6, <2>1 DEF OnDelete
  <2>2. CASE jobPlanTable[k] # NoPlan
    BY <1>1, <1>2, <1>6, <2>2 DEF OnDelete
  <2> QED BY <2>1, <2>2
<1> QED BY <1>5, <1>6

\* A kill event is about one job, and changes no plan.
LEMMA KillHandler ==
    ASSUME IInv, NEW k \in Job, OnKill(k)
    PROVE  \E sc \in ChanType :
              /\ TrySchedule(jobPlanTable, jobExecutingTable, sc)
              /\ \A j \in Job \ {k}, t \in {0, 1} : sc[t][j] = statusChan[t][j]
<1>1. /\ alive /\ statusChan \in ChanType /\ Typ[k] \in {0, 1}
      /\ Failed \in 0..5 /\ 1 \in 0..1
  BY LoopTypes, Constants DEF OnKill, Failed
<1>2. CASE TrySchedule(jobPlanTable, jobExecutingTable, statusChan)
  BY <1>1, <1>2
<1>3. CASE TrySchedule(jobPlanTable, jobExecutingTable, Push(statusChan, Typ[k], k, Failed, 1))
  <2> DEFINE sc == Push(statusChan, Typ[k], k, Failed, 1)
  <2>1. \A j \in Job \ {k}, t \in {0, 1} : sc[t][j] = statusChan[t][j]
    BY <1>1, PushLeaves
  <2>2. sc \in ChanType
    BY <1>1, PushType
  <2>3. TrySchedule(jobPlanTable, jobExecutingTable, sc)
    BY <1>3
  <2> HIDE DEF sc
  <2> QED BY <2>1, <2>2, <2>3
<1> QED BY <1>2, <1>3 DEF OnKill

\* A result is about a job in execution, which leaves the table; the plan of a
\* once job goes, other plans stay.
LEMMA ResultHandler ==
    ASSUME IInv, OnJobResult
    PROVE  \E k \in jobExecutingTable, plan \in PlanType, sc \in ChanType :
              /\ k = Head(jobResultChan).job /\ DropOnceJob(k)
              /\ ResultsIn(jobResultChan, k) # {}
              /\ TrySchedule(plan, jobExecutingTable \ {k}, sc)
              /\ \A j \in Job \ {k} : plan[j] = jobPlanTable[j]
              /\ Typ[k] = 1 => plan[k] = NoPlan
              /\ \A j \in Job \ {k}, t \in {0, 1} : sc[t][j] = statusChan[t][j]
<1> DEFINE r == Head(jobResultChan)
<1> DEFINE k == r.job
<1>1. /\ alive /\ jobResultChan # << >> /\ jobResultChan \in Seq(Result) /\ DropOnceJob(k)
      /\ TrySchedule(PlanAfterResult(k), jobExecutingTable \ {k},
                     IF r.err = "occupied" THEN statusChan
                     ELSE Push(statusChan, Typ[k], k, ResultStatus(r), 1))
  BY DEF OnJobResult, IInv, TypeOK
<1>2. r \in Result /\ jobResultChan[1] = r /\ 1 \in DOMAIN jobResultChan
  BY <1>1, HeadTailProperties, LenProperties, EmptySeq
<1>3. k \in Job /\ 1 \in ResultsIn(jobResultChan, k)
  BY <1>2 DEF Result, ResultsIn
<1>4. k \in jobExecutingTable
  BY <1>1, <1>3, LoopTypes DEF Accounted
<1>5. /\ statusChan \in ChanType /\ Typ[k] \in {0, 1} /\ 1 \in 0..1 /\ ResultStatus(r) \in 0..5
      /\ jobPlanTable \in [Job -> {NoPlan} \cup Nat] /\ jobPlanTable \in PlanType
  BY <1>1, <1>3, LoopTypes, Constants DEF ResultStatus, Failed, Planned, Done, PlanType
<1> DEFINE plan == PlanAfterResult(k)
<1> DEFINE sc == IF r.err = "occupied" THEN statusChan
                 ELSE Push(statusChan, Typ[k], k, ResultStatus(r), 1)
<1> HIDE DEF k, r
<1>6. /\ plan \in PlanType /\ \A j \in Job \ {k} : plan[j] = jobPlanTable[j]
      /\ Typ[k] = 1 => plan[k] = NoPlan
  BY <1>3, <1>5 DEF PlanAfterResult, PlanType
<1>7. sc \in ChanType /\ \A j \in Job \ {k}, t \in {0, 1} : sc[t][j] = statusChan[t][j]
  <2>1. \A j \in Job \ {k}, t \in {0, 1} : sc[t][j] = statusChan[t][j]
    BY <1>3, <1>5, PushLeaves
  <2>2. Push(statusChan, Typ[k], k, ResultStatus(r), 1) \in ChanType
    BY <1>3, <1>5, PushType
  <2> QED BY <1>5, <2>1, <2>2
<1>8. TrySchedule(plan, jobExecutingTable \ {k}, sc)
  BY <1>1
<1>9. k = Head(jobResultChan).job
  BY DEF k, r
<1> HIDE DEF plan, sc
<1> QED BY <1>1, <1>3, <1>4, <1>6, <1>7, <1>8, <1>9

\* An iteration learns of names that have rows only.
LEMMA IterationRowsFirst ==
    ASSUME IInv, NEW plan \in PlanType, NEW exec \in SUBSET Job, NEW sc \in ChanType,
           TrySchedule(plan, exec, sc), UNCHANGED <<status, ran>>,
           \A j \in Job : status[j] = NoRow =>
               /\ plan[j] = NoPlan /\ j \notin exec /\ \A t \in {0, 1} : sc[t][j] = << >>
               /\ j \notin etcdJobs' /\ EventsIn(jobEventChan', j) = {} /\ killEvents'[j] = 0
               /\ ran[j] = 0
    PROVE  RowsFirst'
<1> SUFFICES ASSUME NEW j \in Job, status[j] = NoRow PROVE Unregistered(j)'
  BY DEF RowsFirst
<1>1. TypeOK
  BY DEF IInv
<1>2. /\ jobPlanTable'[j] # NoPlan <=> plan[j] # NoPlan
      /\ plan[j] = NoPlan \/ j \in exec => (j \in jobExecutingTable' <=> j \in exec)
      /\ plan[j] = NoPlan => \A t \in {0, 1} : statusChan'[t][j] = sc[t][j]
  BY <1>1, TryScheduleEffects
<1> QED BY <1>2 DEF Unregistered, EventsIn

\* An event of k is none of j.
LEMMA WatchLeaves ==
    ASSUME jobEventChan \in Seq(Event), NEW k \in Job, NEW type \in {"save", "delete"},
           WatchJobs(type, k), NEW j, j # k
    PROVE  EventsIn(jobEventChan', j) = EventsIn(jobEventChan, j)
<1> DEFINE e == [type |-> type, job |-> k]
<1>1. e \in Event /\ e.job = k
  BY DEF Event
<1>2. jobEventChan' = jobEventChan \/ jobEventChan' = Append(jobEventChan, e)
  BY DEF WatchJobs
<1> HIDE DEF e
<1>3. EventsIn(Append(jobEventChan, e), j) = EventsIn(jobEventChan, j)
  <2>1. EventsIn(Append(jobEventChan, e), j) = EventsIn(jobEventChan, j)
            \cup (IF e.job = j THEN {Len(jobEventChan) + 1} ELSE {})
    BY <1>1, AppendEvents
  <2> QED BY <1>1, <2>1
<1> QED BY <1>2, <1>3

LEMMA NextRowsFirst == IInv /\ RowsFirst /\ [Next]_vars => RowsFirst'
<1> SUFFICES ASSUME IInv, RowsFirst, [Next]_vars PROVE RowsFirst'
  OBVIOUS
<1>0. /\ status \in [Job -> {NoRow} \cup 0..5] /\ jobEventChan \in Seq(Event)
      /\ killEvents \in [Job -> Nat] /\ ran \in [Job -> Nat] /\ statusChan \in ChanType
      /\ goroutine \in [Job -> {"none", "sleep", "exec"}]
  BY DEF IInv, TypeOK, ChanType
<1>1. ASSUME UNCHANGED <<status, etcdJobs, jobEventChan, killEvents, jobPlanTable,
                         jobExecutingTable, statusChan, ran>>
      PROVE  RowsFirst'
  BY <1>1 DEF RowsFirst, Unregistered, EventsIn
<1>2. CASE TimerExpires \/ Tick \/ Crash \/ UNCHANGED vars
  BY <1>1, <1>2 DEF TimerExpires, Tick, Crash, vars, worker
<1>3. ASSUME NEW k \in Job, JobAdd(k) PROVE RowsFirst'
  <2>1. /\ \A j \in Job \ {k} : status'[j] = status[j]
        /\ status'[k] # NoRow /\ etcdJobs' = etcdJobs \cup {k}
        /\ UNCHANGED <<killEvents, jobPlanTable, jobExecutingTable, statusChan, ran>>
    BY <1>0, <1>3 DEF JobAdd, Waiting
  <2>2. \A j \in Job \ {k} : EventsIn(jobEventChan', j) = EventsIn(jobEventChan, j)
    BY <1>0, <1>3, WatchLeaves DEF JobAdd
  <2> QED BY <2>1, <2>2 DEF RowsFirst, Unregistered, EventsIn
<1>4. ASSUME NEW k \in Job, EtcdDelete(k)
      PROVE  \A j \in Job : status[j] = NoRow =>
                j \notin etcdJobs' /\ EventsIn(jobEventChan', j) = {}
  <2> SUFFICES ASSUME NEW j \in Job, status[j] = NoRow
               PROVE  j \notin etcdJobs' /\ EventsIn(jobEventChan', j) = {}
    OBVIOUS
  <2>1. j \notin etcdJobs /\ EventsIn(jobEventChan, j) = {} /\ etcdJobs' = etcdJobs \ {k}
    BY <1>4 DEF RowsFirst, Unregistered, EtcdDelete
  <2>2. jobEventChan' = jobEventChan \/ (k # j /\ WatchJobs("delete", k))
    BY <1>4, <2>1 DEF EtcdDelete
  <2>3. EventsIn(jobEventChan', j) = EventsIn(jobEventChan, j)
    BY <1>0, <2>2, WatchLeaves DEF EventsIn
  <2> QED BY <2>1, <2>3
<1>5. ASSUME NEW k \in Job, JobDelete(k) PROVE RowsFirst'
  <2>1. /\ \A j \in Job : status'[j] = NoRow => status[j] = NoRow
        /\ EtcdDelete(k)
        /\ UNCHANGED <<killEvents, jobPlanTable, jobExecutingTable, statusChan, ran>>
    BY <1>0, <1>5 DEF JobDelete, Deleted
  <2> QED BY <1>4, <2>1 DEF RowsFirst, Unregistered, EventsIn
<1>6. ASSUME NEW k \in Job, JobKill(k) PROVE RowsFirst'
  <2>1. /\ status[k] # NoRow /\ \A j \in Job \ {k} : killEvents'[j] = killEvents[j]
        /\ UNCHANGED <<status, etcdJobs, jobEventChan, jobPlanTable, jobExecutingTable,
                       statusChan, ran>>
    BY <1>0, <1>6 DEF JobKill, WatchKiller
  <2> QED BY <2>1 DEF RowsFirst, Unregistered, EventsIn
<1>7. CASE OnJobEvent
  <2>1. PICK e \in Event :
            /\ e = Head(jobEventChan) /\ e.job \in Job
            /\ 1 \in EventsIn(jobEventChan, e.job) /\ jobEventChan[1] = e
            /\ OnSave(e.job) \/ OnDelete(e.job)
    BY <1>7, HeadEvent
  <2>2. PICK plan \in PlanType, sc \in ChanType :
            /\ TrySchedule(plan, jobExecutingTable, sc)
            /\ \A j \in Job \ {e.job} : plan[j] = jobPlanTable[j]
            /\ \A j \in Job \ {e.job}, t \in {0, 1} : sc[t][j] = statusChan[t][j]
    BY <1>7, <2>1, EventHandler
  <2>3. /\ jobEventChan # << >> /\ jobEventChan' = Tail(jobEventChan)
        /\ UNCHANGED <<status, ran, etcdJobs, killEvents>>
    BY <1>7 DEF OnJobEvent
  <2>4. status[e.job] # NoRow
    BY <2>1 DEF RowsFirst, Unregistered
  <2>5. \A j \in Job : EventsIn(jobEventChan, j) = {} => EventsIn(jobEventChan', j) = {}
    BY <1>0, <2>3, TailEvents
  <2>6. jobExecutingTable \in SUBSET Job
    BY DEF IInv, TypeOK
  <2>7. \A j \in Job : status[j] = NoRow =>
            /\ plan[j] = NoPlan /\ j \notin jobExecutingTable
            /\ \A t \in {0, 1} : sc[t][j] = << >>
            /\ j \notin etcdJobs' /\ EventsIn(jobEventChan', j) = {} /\ killEvents'[j] = 0
            /\ ran[j] = 0
    BY <2>2, <2>3, <2>4, <2>5 DEF RowsFirst, Unregistered
  <2> QED BY <2>2, <2>3, <2>6, <2>7, IterationRowsFirst
<1>8. ASSUME NEW k \in Job, OnKill(k) PROVE RowsFirst'
  <2>1. PICK sc \in ChanType :
            /\ TrySchedule(jobPlanTable, jobExecutingTable, sc)
            /\ \A j \in Job \ {k}, t \in {0, 1} : sc[t][j] = statusChan[t][j]
    BY <1>8, KillHandler
  <2>2. /\ status[k] # NoRow /\ \A j \in Job \ {k} : killEvents'[j] = killEvents[j]
        /\ UNCHANGED <<status, ran, etcdJobs, jobEventChan>>
    BY <1>0, <1>8 DEF OnKill, RowsFirst, Unregistered
  <2>3. jobPlanTable \in PlanType /\ jobExecutingTable \in SUBSET Job
    BY DEF IInv, TypeOK, PlanType
  <2>7. \A j \in Job : status[j] = NoRow =>
            /\ jobPlanTable[j] = NoPlan /\ j \notin jobExecutingTable
            /\ \A t \in {0, 1} : sc[t][j] = << >>
            /\ j \notin etcdJobs' /\ EventsIn(jobEventChan', j) = {} /\ killEvents'[j] = 0
            /\ ran[j] = 0
    BY <2>1, <2>2 DEF RowsFirst, Unregistered
  <2> QED BY <2>1, <2>2, <2>3, <2>7, IterationRowsFirst
<1>9. CASE OnTimer
  <2>1. /\ TrySchedule(jobPlanTable, jobExecutingTable, statusChan)
        /\ UNCHANGED <<status, ran, etcdJobs, jobEventChan, killEvents>>
    BY <1>9 DEF OnTimer
  <2>2. jobPlanTable \in PlanType /\ jobExecutingTable \in SUBSET Job
    BY DEF IInv, TypeOK, PlanType
  <2>3. statusChan \in ChanType
    BY <1>0
  <2>4. \A j \in Job : status[j] = NoRow =>
            /\ jobPlanTable[j] = NoPlan /\ j \notin jobExecutingTable
            /\ \A t \in {0, 1} : statusChan[t][j] = << >>
            /\ j \notin etcdJobs' /\ EventsIn(jobEventChan', j) = {} /\ killEvents'[j] = 0
            /\ ran[j] = 0
    BY <2>1 DEF RowsFirst, Unregistered
  <2> QED BY <2>1, <2>2, <2>3, <2>4, IterationRowsFirst
<1>10. CASE OnJobResult
  <2>1. PICK k \in jobExecutingTable, plan \in PlanType, sc \in ChanType :
            /\ DropOnceJob(k)
            /\ TrySchedule(plan, jobExecutingTable \ {k}, sc)
            /\ \A j \in Job \ {k} : plan[j] = jobPlanTable[j]
            /\ \A j \in Job \ {k}, t \in {0, 1} : sc[t][j] = statusChan[t][j]
    BY <1>10, ResultHandler
  <2>2. k \in Job /\ jobExecutingTable \in SUBSET Job
    BY DEF IInv, TypeOK
  <2>3. status[k] # NoRow
    BY <2>2 DEF RowsFirst, Unregistered
  <2>4. UNCHANGED <<status, ran, killEvents>>
    BY <1>10 DEF OnJobResult
  <2>5. \A j \in Job : status[j] = NoRow =>
            j \notin etcdJobs' /\ EventsIn(jobEventChan', j) = {}
    BY <1>4, <2>1, <2>2 DEF DropOnceJob, RowsFirst, Unregistered
  <2>6. jobExecutingTable \ {k} \in SUBSET Job
    BY <2>2
  <2>7. \A j \in Job : status[j] = NoRow =>
            /\ plan[j] = NoPlan /\ j \notin (jobExecutingTable \ {k}) /\ \A t \in {0, 1} : sc[t][j] = << >>
            /\ j \notin etcdJobs' /\ EventsIn(jobEventChan', j) = {} /\ killEvents'[j] = 0
            /\ ran[j] = 0
    BY <2>1, <2>2, <2>3, <2>4, <2>5 DEF RowsFirst, Unregistered
  <2> QED BY <2>1, <2>4, <2>6, <2>7, IterationRowsFirst
<1>11. ASSUME NEW k \in Job, NEW o \in LockOutcomes, TryLock(k, o) PROVE RowsFirst'
  <2>1. k \in jobExecutingTable
    BY <1>11, LoopTypes DEF TryLock, Accounted
  <2>2. /\ status[k] # NoRow /\ \A j \in Job \ {k} : ran'[j] = ran[j]
        /\ UNCHANGED <<status, etcdJobs, jobEventChan, killEvents, jobPlanTable,
                       jobExecutingTable, statusChan>>
    BY <1>0, <1>11, <2>1 DEF TryLock, RowsFirst, Unregistered
  <2> QED BY <2>2 DEF RowsFirst, Unregistered, EventsIn
<1>12. ASSUME NEW k \in Job, CommandEnds(k) PROVE RowsFirst'
  BY <1>1, <1>12 DEF CommandEnds
<1>13. ASSUME NEW k \in Job, NEW t \in {0, 1}, UpdateStatus(t, k) PROVE RowsFirst'
  <2>1. status[k] # NoRow
    BY <1>13 DEF UpdateStatus, RowsFirst, Unregistered
  <2>2. \A j \in Job : status'[j] = NoRow => j # k /\ status[j] = NoRow
    <3>1. Head(statusChan[t][k]).status \in 0..5
      <4>1. statusChan[t][k] \in Seq(StatusEvent) /\ statusChan[t][k] # << >>
        BY <1>0, <1>13 DEF UpdateStatus, ChanType
      <4>2. Head(statusChan[t][k]) \in StatusEvent
        BY <4>1, HeadTailProperties
      <4> QED BY <4>2 DEF StatusEvent
    <3> QED BY <1>0, <1>13, <2>1, <3>1 DEF UpdateStatus
  <2>3. \A j \in Job \ {k}, u \in {0, 1} : statusChan'[u][j] = statusChan[u][j]
    BY <1>0, <1>13 DEF UpdateStatus, ChanType
  <2>4. UNCHANGED <<etcdJobs, jobEventChan, killEvents, jobPlanTable, jobExecutingTable, ran>>
    BY <1>13 DEF UpdateStatus
  <2> QED BY <2>2, <2>3, <2>4 DEF RowsFirst, Unregistered, EventsIn
<1>14. CASE Restart
  <2>1. \A j \in Job : j \notin etcdJobs => EventsIn(jobEventChan', j) = {}
    BY <1>14, FreshEvents
  <2> QED BY <1>14, <2>1 DEF Restart, RowsFirst, Unregistered, NothingQueued, EventsIn
<1> QED BY <1>2, <1>3, <1>5, <1>6, <1>7, <1>8, <1>9, <1>10, <1>11, <1>12, <1>13, <1>14 DEF Next

LEMMA InitRowsFirst == Init => RowsFirst
<1>1. Init => \A j \in Job : EventsIn(jobEventChan, j) = {}
  BY EmptySeq DEF Init, EventsIn
<1> QED BY <1>1 DEF Init, RowsFirst, Unregistered, NothingQueued

-----------------------------------------------------------------------------
(* Who withdraws a once job *)

Excused(j) == ran[j] >= 1 \/ j \in history.asked \cup history.lost

\* A key that is gone, or a result that will take it away, has an excuse.
KeysExcused ==
    /\ \A j \in Job : Typ[j] = 1 /\ status[j] # NoRow /\ j \notin etcdJobs => Excused(j)
    /\ alive => \A j \in Job :
          /\ goroutine[j] = "exec" => ran[j] >= 1
          /\ ResultsIn(jobResultChan, j) # {} => Excused(j)
          /\ j \in cancelled \/ killEvents[j] > 0 => j \in history.asked

\* What the steps add to the history.
LEMMA HistorySteps ==
    ASSUME [Next]_vars
    PROVE  \/ history' = history
           \/ \E k \in Job : history' = [history EXCEPT !.asked = @ \cup {k}]
           \/ \E k \in Job : history' = [history EXCEPT !.kills = @ + 1, !.asked = @ \cup {k}]
           \/ \E k \in Job : history' = [history EXCEPT !.lost = @ \cup {k}]
           \/ \E k \in Job : history' = [history EXCEPT !.missed = @ \cup {k}]
           \/ history' = [history EXCEPT !.restarts = @ + 1]
BY DEF Next, OnJobEvent, OnTimer, OnJobResult, TimerExpires, Tick, Crash, Restart, JobAdd,
       JobDelete, JobKill, OnKill, TryLock, CommandEnds, UpdateStatus, vars

\* What has happened stays in the history.
LEMMA HistoryGrows ==
    ASSUME IInv, [Next]_vars
    PROVE  /\ history.kills <= history'.kills
           /\ history.missed \subseteq history'.missed
<1>1. history \in HistoryType /\ history.kills \in Nat
  BY DEF IInv, TypeOK, HistoryType
<1>2. \/ history'.kills = history.kills
      \/ history'.kills = history.kills + 1
  BY <1>1, HistorySteps DEF HistoryType
<1>3. \A k \in history.missed : k \in history'.missed
  BY <1>1, HistorySteps DEF HistoryType
<1> QED BY <1>1, <1>2, <1>3

\* Excuses stay.
LEMMA ExcusesStay ==
    ASSUME IInv, [Next]_vars, NEW j \in Job
    PROVE  /\ j \in history.asked => j \in history'.asked
           /\ j \in history.lost => j \in history'.lost
           /\ ran[j] >= 1 => ran'[j] >= 1
           /\ Excused(j) => Excused(j)'
<1>1. /\ history \in HistoryType /\ ran \in [Job -> Nat]
  BY DEF IInv, TypeOK, HistoryType
<1>2. /\ j \in history.asked => j \in history'.asked
      /\ j \in history.lost => j \in history'.lost
  <2>1. history' \in HistoryType
    BY NextIInv DEF IInv, TypeOK, HistoryType
  <2> QED BY <1>1, HistorySteps DEF HistoryType
<1>3. ran[j] >= 1 => ran'[j] >= 1
  <2>1. ran' = ran \/ \E k \in Job : ran' = [ran EXCEPT ![k] = @ + 1]
    BY DEF Next, OnJobEvent, OnTimer, OnJobResult, TimerExpires, Tick, Crash, Restart, JobAdd,
           JobDelete, JobKill, OnKill, TryLock, CommandEnds, UpdateStatus, vars
  <2> QED BY <1>1, <2>1
<1> QED BY <1>2, <1>3 DEF Excused

\* Steps that take no key away, end nothing and cancel nobody.
LEMMA QuietExcused ==
    ASSUME IInv, KeysExcused, [Next]_vars, alive' => alive, UNCHANGED jobResultChan,
           \A j \in Job : status'[j] # NoRow /\ j \notin etcdJobs'
                             => status[j] # NoRow /\ j \notin etcdJobs,
           alive' => \A j \in Job :
               /\ goroutine'[j] = "exec" => goroutine[j] = "exec"
               /\ j \in cancelled' \/ killEvents'[j] > 0 => j \in cancelled \/ killEvents[j] > 0
    PROVE  KeysExcused'
<1>1. \A j \in Job : Excused(j) => Excused(j)'
  BY ExcusesStay
<1>2. \A j \in Job : j \in history.asked => j \in history'.asked
  BY ExcusesStay
<1>3. \A j \in Job : ran[j] >= 1 => ran'[j] >= 1
  BY ExcusesStay
<1> QED BY <1>1, <1>2, <1>3 DEF KeysExcused, ResultsIn

\* A goroutine that ends leaves a result that has an excuse.
LEMMA EndExcused ==
    ASSUME IInv, KeysExcused, [Next]_vars, alive, NEW k \in Job, Excused(k)',
           NEW err \in {"none", "occupied", "error"}, PushJobResult(k, err),
           UNCHANGED <<etcdJobs, status, alive, killEvents, cancelled>>
    PROVE  KeysExcused'
<1>1. \A j \in Job : Excused(j) => Excused(j)'
  BY ExcusesStay
<1>2. \A j \in Job : j \in history.asked => j \in history'.asked
  BY ExcusesStay
<1>3. \A j \in Job : ran[j] >= 1 => ran'[j] >= 1
  BY ExcusesStay
<1> DEFINE r == [job |-> k, err |-> err]
<1>4. r \in Result /\ r.job = k /\ jobResultChan \in Seq(Result)
      /\ goroutine \in [Job -> {"none", "sleep", "exec"}]
  BY DEF Result, IInv, TypeOK
<1>5. jobResultChan' = Append(jobResultChan, r) /\ goroutine' = [goroutine EXCEPT ![k] = "none"]
  BY DEF PushJobResult
<1> HIDE DEF r
<1>6. ASSUME NEW j \in Job, j # k PROVE ResultsIn(jobResultChan', j) = ResultsIn(jobResultChan, j)
  <2>1. ResultsIn(jobResultChan', j) = ResultsIn(jobResultChan, j)
            \cup (IF r.job = j THEN {Len(jobResultChan) + 1} ELSE {})
    BY <1>4, <1>5, AppendResults
  <2> QED BY <1>4, <1>6, <2>1
<1>7. ASSUME NEW j \in Job
      PROVE  /\ goroutine'[j] = "exec" => ran'[j] >= 1
             /\ ResultsIn(jobResultChan', j) # {} => Excused(j)'
             /\ j \in cancelled \/ killEvents[j] > 0 => j \in history'.asked
  BY <1>1, <1>2, <1>3, <1>4, <1>5, <1>6 DEF KeysExcused
<1> QED BY <1>1, <1>7 DEF KeysExcused, ResultsIn

LEMMA NextKeysExcused ==
    ASSUME "error" \notin LockOutcomes
    PROVE  IInv /\ RowsFirst /\ KeysExcused /\ [Next]_vars => KeysExcused'
<1> SUFFICES ASSUME IInv, RowsFirst, KeysExcused, [Next]_vars PROVE KeysExcused'
  OBVIOUS
<1>0. /\ status \in [Job -> {NoRow} \cup 0..5] /\ killEvents \in [Job -> Nat]
      /\ ran \in [Job -> Nat] /\ history \in HistoryType /\ TypeOK
      /\ goroutine \in [Job -> {"none", "sleep", "exec"}]
  BY DEF IInv, TypeOK, HistoryType
<1>1. CASE TimerExpires \/ Tick \/ Crash \/ UNCHANGED vars
  BY <1>1, QuietExcused DEF TimerExpires, Tick, Crash, vars, worker
<1>2. ASSUME NEW k \in Job, JobAdd(k) PROVE KeysExcused'
  <2>1. /\ \A j \in Job \ {k} : status'[j] = status[j]
        /\ etcdJobs' = etcdJobs \cup {k}
        /\ UNCHANGED <<alive, jobResultChan, goroutine, cancelled, killEvents>>
    BY <1>0, <1>2 DEF JobAdd
  <2> QED BY <2>1, QuietExcused
<1>3. ASSUME NEW k \in Job, JobDelete(k) PROVE KeysExcused'
  <2>1. /\ \A j \in Job \ {k} : status'[j] = status[j]
        /\ etcdJobs' = etcdJobs \ {k} /\ status[k] # NoRow
        /\ history' = [history EXCEPT !.asked = @ \cup {k}]
        /\ UNCHANGED <<alive, jobResultChan, goroutine, cancelled, killEvents, ran>>
    BY <1>0, <1>3 DEF JobDelete, EtcdDelete
  <2>2. k \in history'.asked
    BY <1>0, <2>1 DEF HistoryType
  <2>3. \A j \in Job : Excused(j) => Excused(j)'
    BY ExcusesStay
  <2>4. \A j \in Job : j \in history.asked => j \in history'.asked
    BY ExcusesStay
  <2>5. Excused(k)'
    BY <2>2 DEF Excused
  <2> QED BY <2>1, <2>3, <2>4, <2>5 DEF KeysExcused, ResultsIn
<1>4. ASSUME NEW k \in Job, JobKill(k) PROVE KeysExcused'
  <2>1. /\ \A j \in Job \ {k} : killEvents'[j] = killEvents[j]
        /\ history' = [history EXCEPT !.kills = @ + 1, !.asked = @ \cup {k}]
        /\ UNCHANGED <<alive, jobResultChan, goroutine, cancelled, status, etcdJobs, ran>>
    BY <1>0, <1>4 DEF JobKill, WatchKiller
  <2>2. k \in history'.asked
    BY <1>0, <2>1 DEF HistoryType
  <2>3. \A j \in Job : Excused(j) => Excused(j)'
    BY ExcusesStay
  <2>4. \A j \in Job : j \in history.asked => j \in history'.asked
    BY ExcusesStay
  <2> QED BY <2>1, <2>2, <2>3, <2>4 DEF KeysExcused, ResultsIn
<1>5. ASSUME NEW plan \in PlanType, NEW exec \in SUBSET Job, NEW sc \in ChanType,
             TrySchedule(plan, exec, sc)
      PROVE  (alive' => alive) /\ \A j \in Job : goroutine'[j] = "exec" => goroutine[j] = "exec"
  <2>1. alive' => alive
    BY <1>5 DEF TrySchedule
  <2>2. ASSUME NEW j \in Job PROVE goroutine'[j] = "exec" => goroutine[j] = "exec"
    BY <1>0, <1>5, TryScheduleEffects
  <2> QED BY <2>1, <2>2
<1>6. CASE OnJobEvent
  <2>1. PICK e \in Event : e.job \in Job /\ (OnSave(e.job) \/ OnDelete(e.job))
    BY <1>6, HeadEvent
  <2>2. PICK plan \in PlanType, sc \in ChanType : TrySchedule(plan, jobExecutingTable, sc)
    BY <1>6, <2>1, EventHandler
  <2>3. jobExecutingTable \in SUBSET Job
    BY <1>0 DEF TypeOK
  <2>4. (alive' => alive) /\ \A j \in Job : goroutine'[j] = "exec" => goroutine[j] = "exec"
    BY <1>5, <2>2, <2>3
  <2> QED BY <1>6, <2>4, QuietExcused DEF OnJobEvent
<1>7. ASSUME NEW k \in Job, OnKill(k) PROVE KeysExcused'
  <2>1. PICK sc \in ChanType : TrySchedule(jobPlanTable, jobExecutingTable, sc)
    BY <1>7, KillHandler
  <2>2. jobPlanTable \in PlanType /\ jobExecutingTable \in SUBSET Job
    BY <1>0 DEF TypeOK, PlanType
  <2>3. (alive' => alive) /\ \A j \in Job : goroutine'[j] = "exec" => goroutine[j] = "exec"
    BY <1>5, <2>1, <2>2
  <2>4. /\ cancelled' \subseteq cancelled \cup {k} /\ killEvents[k] > 0
        /\ killEvents' = [killEvents EXCEPT ![k] = @ - 1]
        /\ UNCHANGED <<jobResultChan, status, etcdJobs>>
    BY <1>7 DEF OnKill
  <2>5. ASSUME NEW j \in Job
        PROVE  j \in cancelled' \/ killEvents'[j] > 0 => j \in cancelled \/ killEvents[j] > 0
    <3>1. CASE j = k
      BY <2>4, <3>1
    <3>2. CASE j # k
      BY <1>0, <2>4, <3>2
    <3> QED BY <3>1, <3>2
  <2> QED BY <2>3, <2>4, <2>5, QuietExcused
<1>8. CASE OnTimer
  <2>1. /\ TrySchedule(jobPlanTable, jobExecutingTable, statusChan)
        /\ UNCHANGED <<status, etcdJobs, killEvents, cancelled, jobResultChan>>
    BY <1>8 DEF OnTimer
  <2>2. jobPlanTable \in PlanType /\ jobExecutingTable \in SUBSET Job /\ statusChan \in ChanType
    BY <1>0 DEF TypeOK, PlanType, ChanType
  <2>3. (alive' => alive) /\ \A j \in Job : goroutine'[j] = "exec" => goroutine[j] = "exec"
    BY <1>5, <2>1, <2>2
  <2> QED BY <2>1, <2>3, QuietExcused
<1>9. CASE OnJobResult
  <2>1. PICK k \in jobExecutingTable, plan \in PlanType, sc \in ChanType :
            /\ DropOnceJob(k) /\ k = Head(jobResultChan).job
            /\ ResultsIn(jobResultChan, k) # {}
            /\ TrySchedule(plan, jobExecutingTable \ {k}, sc)
    BY <1>9, ResultHandler
  <2>2. /\ alive /\ jobResultChan # << >> /\ jobResultChan' = Tail(jobResultChan)
        /\ cancelled' \subseteq cancelled /\ UNCHANGED <<status, killEvents, history, ran>>
    BY <1>9 DEF OnJobResult
  <2>3. k \in Job /\ jobExecutingTable \ {k} \in SUBSET Job /\ jobResultChan \in Seq(Result)
    BY <1>0 DEF TypeOK
  <2>4. \A j \in Job : goroutine'[j] = "exec" => goroutine[j] = "exec"
    BY <1>5, <2>1, <2>3
  <2>5. Excused(k)
    BY <2>1, <2>2, <2>3 DEF KeysExcused
  <2>6. ASSUME NEW j \in Job PROVE ResultsIn(jobResultChan', j) # {} => ResultsIn(jobResultChan, j) # {}
    <3>1. ResultsIn(jobResultChan', j) = {i - 1 : i \in ResultsIn(jobResultChan, j) \ {1}}
      BY <2>2, <2>3, TailResults
    <3> QED BY <3>1
  <2>7. \A j \in Job : j \notin etcdJobs' => j \notin etcdJobs \/ j = k
    BY <2>1 DEF DropOnceJob, EtcdDelete
  <2>8. \A j \in Job : Excused(j)' <=> Excused(j)
    BY <2>2 DEF Excused
  <2>9. ASSUME NEW j \in Job, Typ[j] = 1, status'[j] # NoRow, j \notin etcdJobs' PROVE Excused(j)'
    BY <2>2, <2>5, <2>7, <2>8, <2>9 DEF KeysExcused
  <2>10. ASSUME NEW j \in Job
         PROVE  /\ goroutine'[j] = "exec" => ran'[j] >= 1
                /\ ResultsIn(jobResultChan', j) # {} => Excused(j)'
                /\ j \in cancelled' \/ killEvents'[j] > 0 => j \in history'.asked
    BY <2>2, <2>4, <2>6, <2>8 DEF KeysExcused
  <2> QED BY <2>9, <2>10 DEF KeysExcused, ResultsIn
<1>10. ASSUME NEW k \in Job, NEW o \in LockOutcomes, TryLock(k, o) PROVE KeysExcused'
  <2>1. /\ alive /\ o \in {"ok", "occupied"}
        /\ UNCHANGED <<etcdJobs, status, alive, killEvents, cancelled>>
    BY <1>10, SchedulerAssumption DEF TryLock
  <2>2. CASE /\ goroutine' = [goroutine EXCEPT ![k] = "exec"]
             /\ ran' = [ran EXCEPT ![k] = @ + 1] /\ UNCHANGED jobResultChan
    <3>1. \A j \in Job : Excused(j) => Excused(j)'
      BY ExcusesStay
    <3>2. \A j \in Job : j \in history.asked => j \in history'.asked
      BY ExcusesStay
    <3>3. \A j \in Job : ran[j] >= 1 => ran'[j] >= 1
      BY ExcusesStay
    <3>4. ran'[k] >= 1 /\ \A j \in Job \ {k} : goroutine'[j] = goroutine[j]
      BY <1>0, <2>2
    <3> QED BY <2>1, <2>2, <3>1, <3>2, <3>3, <3>4 DEF KeysExcused, ResultsIn
  <2>3. CASE /\ o # "ok" \/ k \in cancelled
             /\ PushJobResult(k, IF o = "occupied" THEN "occupied" ELSE "error")
    <3>1. CASE o = "occupied"
      <4>1. history' = [history EXCEPT !.lost = @ \cup {k}]
        BY <1>10, <3>1 DEF TryLock
      <4>2. k \in history'.lost
        BY <1>0, <4>1 DEF HistoryType
      <4>3. Excused(k)'
        BY <4>2 DEF Excused
      <4> QED BY <2>1, <2>3, <3>1, <4>3, EndExcused
    <3>2. CASE o # "occupied"
      <4>1. k \in history.asked
        BY <2>1, <2>3, <3>2 DEF KeysExcused
      <4>2. Excused(k)
        BY <4>1 DEF Excused
      <4>3. Excused(k)'
        BY <4>2, ExcusesStay
      <4> QED BY <2>1, <2>3, <3>2, <4>3, EndExcused
    <3> QED BY <3>1, <3>2
  <2> QED BY <1>10, <2>2, <2>3 DEF TryLock
<1>11. ASSUME NEW k \in Job, CommandEnds(k) PROVE KeysExcused'
  <2>1. /\ alive /\ goroutine[k] = "exec"
        /\ UNCHANGED <<etcdJobs, status, alive, killEvents, cancelled>>
    BY <1>11 DEF CommandEnds
  <2>2. PICK err \in {"none", "error"} : PushJobResult(k, err)
    BY <1>11 DEF CommandEnds
  <2>3. Excused(k)
    BY <2>1 DEF KeysExcused, Excused
  <2>4. Excused(k)'
    BY <2>3, ExcusesStay
  <2> QED BY <2>1, <2>2, <2>4, EndExcused
<1>12. ASSUME NEW k \in Job, NEW t \in {0, 1}, UpdateStatus(t, k) PROVE KeysExcused'
  <2>1. status[k] # NoRow
    BY <1>12 DEF UpdateStatus, RowsFirst, Unregistered
  <2>2. \A j \in Job : status'[j] # NoRow => status[j] # NoRow
    BY <1>0, <1>12, <2>1 DEF UpdateStatus
  <2>3. UNCHANGED <<alive, jobResultChan, etcdJobs, goroutine, cancelled, killEvents>>
    BY <1>12 DEF UpdateStatus
  <2> QED BY <2>2, <2>3, QuietExcused
<1>13. CASE Restart
  <2>1. \A j \in Job : Excused(j) => Excused(j)'
    BY ExcusesStay
  <2>2. /\ UNCHANGED <<status, etcdJobs>> /\ jobResultChan' = << >> /\ cancelled' = {}
        /\ \A j \in Job : goroutine'[j] = "none" /\ killEvents'[j] = 0
    BY <1>13 DEF Restart
  <2>3. \A j \in Job : ResultsIn(jobResultChan', j) = {}
    BY <2>2, EmptySeq DEF ResultsIn
  <2> QED BY <2>1, <2>2, <2>3 DEF KeysExcused, ResultsIn
<1> QED BY <1>1, <1>2, <1>3, <1>4, <1>6, <1>7, <1>8, <1>9, <1>10, <1>11, <1>12, <1>13 DEF Next

\* Nobody but the user, or the loser of the lock, withdraws a once job before
\* its command was started, whatever crashes, kills and results come between:
\* while the grant of a lock does not fail.
THEOREM OnceKeyKeptHolds == ASSUME "error" \notin LockOutcomes PROVE Spec => []OnceKeyKept
<1>1. Init => KeysExcused
  <2> SUFFICES ASSUME Init PROVE KeysExcused
    OBVIOUS
  <2>1. \A j \in Job : ResultsIn(jobResultChan, j) = {}
    BY EmptySeq DEF Init, ResultsIn
  <2> QED BY <2>1 DEF Init, KeysExcused
<1>2. KeysExcused => OnceKeyKept
  BY DEF KeysExcused, Excused, OnceKeyKept
<1> QED BY <1>1, <1>2, InitIInv, NextIInv, InitRowsFirst, NextRowsFirst, NextKeysExcused, PTL
        DEF Spec

-----------------------------------------------------------------------------
(* How often a once job runs *)

SavesIn(s, j) == {i \in EventsIn(s, j) : s[i].type = "save"}

\* j may be started once more in this process.
MayRun(j) == ran[j] <= history.restarts

\* A process starts a once job one time: a queued SAVE event, which is the only
\* one, or a plan that is not being executed, or a goroutine that still sleeps.
BudgetOf(j, s, plan, exec) ==
    /\ ran[j] <= 1 + history.restarts
    /\ goroutine[j] = "sleep" => MayRun(j)
    /\ plan[j] # NoPlan /\ j \notin exec => MayRun(j)
    /\ \A i \in SavesIn(s, j) :
          MayRun(j) /\ plan[j] = NoPlan /\ j \notin exec /\ SavesIn(s, j) = {i}

OnceBudget ==
    \A j \in Job : Typ[j] = 1 =>
        /\ ran[j] <= 1 + history.restarts
        /\ alive => BudgetOf(j, jobEventChan, jobPlanTable, jobExecutingTable)

\* What the watchers push changes the SAVE events of its job only, and a
\* DELETE event none.
LEMMA WatchSaves ==
    ASSUME jobEventChan \in Seq(Event), NEW k \in Job, NEW type \in {"save", "delete"},
           WatchJobs(type, k), NEW j
    PROVE  /\ j # k \/ type = "delete" => SavesIn(jobEventChan', j) = SavesIn(jobEventChan, j)
           /\ SavesIn(jobEventChan, j) = {} =>
                 \A i \in SavesIn(jobEventChan', j) : SavesIn(jobEventChan', j) = {i}
<1> DEFINE e == [type |-> type, job |-> k]
<1>1. e \in Event /\ e.job = k /\ e.type = type
  BY DEF Event
<1>2. jobEventChan' = jobEventChan \/ jobEventChan' = Append(jobEventChan, e)
  BY DEF WatchJobs
<1> HIDE DEF e
<1>3. EventsIn(Append(jobEventChan, e), j) = EventsIn(jobEventChan, j)
          \cup (IF e.job = j THEN {Len(jobEventChan) + 1} ELSE {})
  BY <1>1, AppendEvents
<1>4. \A i \in EventsIn(jobEventChan, j) : Append(jobEventChan, e)[i] = jobEventChan[i]
  BY <1>1 DEF EventsIn
<1>5. Append(jobEventChan, e)[Len(jobEventChan) + 1] = e
  BY <1>1
<1>6. j # k \/ type = "delete" => SavesIn(Append(jobEventChan, e), j) = SavesIn(jobEventChan, j)
  BY <1>1, <1>3, <1>4, <1>5 DEF SavesIn
<1>7. SavesIn(jobEventChan, j) = {} =>
          SavesIn(Append(jobEventChan, e), j) \subseteq {Len(jobEventChan) + 1}
  BY <1>1, <1>3, <1>4, <1>5 DEF SavesIn
<1>8. SavesIn(jobEventChan, j) = {} =>
          \A i \in SavesIn(Append(jobEventChan, e), j) : SavesIn(Append(jobEventChan, e), j) = {i}
  BY <1>7
<1> QED BY <1>2, <1>6, <1>8

LEMMA EtcdDeleteSaves ==
    ASSUME jobEventChan \in Seq(Event), NEW k \in Job, EtcdDelete(k), NEW j
    PROVE  SavesIn(jobEventChan', j) = SavesIn(jobEventChan, j)
<1>1. CASE k \in etcdJobs
  BY <1>1, WatchSaves DEF EtcdDelete
<1>2. CASE k \notin etcdJobs
  BY <1>2 DEF EtcdDelete
<1> QED BY <1>1, <1>2

\* The DELETE event leaves no plan.
LEMMA DeleteHandler ==
    ASSUME IInv, OnJobEvent, NEW k \in Job, OnDelete(k)
    PROVE  \E plan \in PlanType, sc \in ChanType :
              /\ TrySchedule(plan, jobExecutingTable, sc)
              /\ \A j \in Job \ {k} : plan[j] = jobPlanTable[j]
              /\ plan[k] = NoPlan
<1>1. /\ alive /\ jobPlanTable \in PlanType /\ statusChan \in ChanType
      /\ jobPlanTable \in [Job -> {NoPlan} \cup Nat]
      /\ 0 \in {0, 1} /\ Deleted \in 0..5 /\ 0 \in 0..1
  BY LoopTypes DEF OnJobEvent, PlanType, Deleted
<1>2. CASE jobPlanTable[k] = NoPlan
  BY <1>1, <1>2 DEF OnDelete
<1>3. CASE jobPlanTable[k] # NoPlan
  <2> DEFINE plan == [jobPlanTable EXCEPT ![k] = NoPlan]
  <2> DEFINE sc == Push(statusChan, 0, k, Deleted, 0)
  <2>1. plan \in PlanType /\ plan[k] = NoPlan /\ \A j \in Job \ {k} : plan[j] = jobPlanTable[j]
    BY <1>1 DEF PlanType
  <2>2. sc \in ChanType
    BY <1>1, PushType
  <2>3. TrySchedule(plan, jobExecutingTable, sc)
    BY <1>3 DEF OnDelete
  <2> HIDE DEF plan, sc
  <2> QED BY <2>1, <2>2, <2>3
<1> QED BY <1>2, <1>3

\* Only a restart counts as one.
LEMMA RestartsCount ==
    ASSUME IInv, [Next]_vars
    PROVE  /\ Restart => history'.restarts = history.restarts + 1
           /\ Restart \/ history'.restarts = history.restarts
           /\ history.restarts \in Nat
<1>1. history \in HistoryType /\ history.restarts \in Nat
  BY DEF IInv, TypeOK, HistoryType
<1>2. \/ history' = history
      \/ \E k \in Job : history' = [history EXCEPT !.asked = @ \cup {k}]
      \/ \E k \in Job : history' = [history EXCEPT !.kills = @ + 1, !.asked = @ \cup {k}]
      \/ \E k \in Job : history' = [history EXCEPT !.lost = @ \cup {k}]
      \/ \E k \in Job : history' = [history EXCEPT !.missed = @ \cup {k}]
      \/ Restart
  BY DEF Next, OnJobEvent, OnTimer, OnJobResult, TimerExpires, Tick, Crash, JobAdd,
         JobDelete, JobKill, OnKill, TryLock, CommandEnds, UpdateStatus, vars
<1>3. Restart => history' = [history EXCEPT !.restarts = @ + 1]
  BY DEF Restart
<1> QED BY <1>1, <1>2, <1>3 DEF HistoryType

\* The tail of an iteration starts what may run.
LEMMA IterationBudget ==
    ASSUME IInv, NEW plan \in PlanType, NEW exec \in SUBSET Job, NEW sc \in ChanType,
           TrySchedule(plan, exec, sc), ran' = ran, history' = history,
           \A j \in Job : Typ[j] = 1 => BudgetOf(j, jobEventChan', plan, exec)
    PROVE  OnceBudget'
<1>1. TypeOK
  BY DEF IInv
<1> SUFFICES ASSUME NEW j \in Job, Typ[j] = 1
             PROVE  /\ ran[j] <= 1 + history.restarts
                    /\ BudgetOf(j, jobEventChan, jobPlanTable, jobExecutingTable)'
  BY DEF OnceBudget
<1>2. /\ jobPlanTable'[j] # NoPlan <=> plan[j] # NoPlan
      /\ j \in exec => j \in jobExecutingTable'
      /\ plan[j] = NoPlan \/ j \in exec =>
            /\ goroutine'[j] = goroutine[j]
            /\ j \in jobExecutingTable' <=> j \in exec
  BY <1>1, TryScheduleEffects
<1>3. BudgetOf(j, jobEventChan', plan, exec)
  OBVIOUS
<1>4. goroutine'[j] = "sleep" => MayRun(j)
  BY <1>2, <1>3 DEF BudgetOf
<1>5. jobPlanTable'[j] # NoPlan /\ j \notin jobExecutingTable' => MayRun(j)
  BY <1>2, <1>3 DEF BudgetOf
<1>6. \A i \in SavesIn(jobEventChan', j) :
          /\ MayRun(j) /\ jobPlanTable'[j] = NoPlan /\ j \notin jobExecutingTable'
          /\ SavesIn(jobEventChan', j) = {i}
  BY <1>2, <1>3 DEF BudgetOf
<1>7. (MayRun(j)' <=> MayRun(j)) /\ ran[j] <= 1 + history.restarts
  BY <1>3 DEF MayRun, BudgetOf
<1> QED BY <1>4, <1>5, <1>6, <1>7 DEF BudgetOf, SavesIn, EventsIn

LEMMA NextOnceBudget == IInv /\ RowsFirst /\ OnceBudget /\ [Next]_vars => OnceBudget'
<1> SUFFICES ASSUME IInv, RowsFirst, OnceBudget, [Next]_vars PROVE OnceBudget'
  OBVIOUS
<1>0. /\ jobEventChan \in Seq(Event) /\ ran \in [Job -> Nat] /\ TypeOK
      /\ goroutine \in [Job -> {"none", "sleep", "exec"}]
      /\ jobPlanTable \in PlanType /\ jobExecutingTable \in SUBSET Job /\ statusChan \in ChanType
  BY DEF IInv, TypeOK, PlanType, ChanType
<1>1. ASSUME history'.restarts = history.restarts, ran' = ran, alive' => alive,
             \A j \in Job : goroutine'[j] = "sleep" => goroutine[j] = "sleep",
             UNCHANGED <<jobPlanTable, jobExecutingTable>>,
             \A j \in Job : SavesIn(jobEventChan', j) = SavesIn(jobEventChan, j)
      PROVE  OnceBudget'
  <2>1. \A j \in Job : MayRun(j)' <=> MayRun(j)
    BY <1>1 DEF MayRun
  <2> QED BY <1>1, <2>1 DEF OnceBudget, BudgetOf, SavesIn, EventsIn
<1>2. jobEventChan' = jobEventChan =>
          \A j \in Job : SavesIn(jobEventChan', j) = SavesIn(jobEventChan, j)
  BY DEF SavesIn, EventsIn
<1>3. CASE TimerExpires \/ Tick \/ Crash \/ UNCHANGED vars
  BY <1>1, <1>2, <1>3 DEF TimerExpires, Tick, Crash, vars, worker
<1>4. ASSUME NEW k \in Job, JobAdd(k) PROVE OnceBudget'
  <2>1. /\ UNCHANGED <<history, ran, alive, goroutine, jobPlanTable, jobExecutingTable>>
        /\ Unregistered(k) /\ WatchJobs("save", k)
    BY <1>4 DEF JobAdd, RowsFirst
  <2>2. \A j \in Job \ {k} : SavesIn(jobEventChan', j) = SavesIn(jobEventChan, j)
    BY <1>0, <2>1, WatchSaves
  <2>3. /\ SavesIn(jobEventChan, k) = {}
        /\ \A i \in SavesIn(jobEventChan', k) : SavesIn(jobEventChan', k) = {i}
    <3>1. SavesIn(jobEventChan, k) = {}
      BY <2>1 DEF Unregistered, SavesIn
    <3> QED BY <1>0, <2>1, <3>1, WatchSaves
  <2>4. MayRun(k)
    BY <2>1, RestartsCount DEF MayRun, Unregistered
  <2>5. \A j \in Job : MayRun(j)' <=> MayRun(j)
    BY <2>1 DEF MayRun
  <2>6. \A j \in Job \ {k} : Typ[j] = 1 =>
            /\ ran'[j] <= 1 + history'.restarts
            /\ alive' => BudgetOf(j, jobEventChan, jobPlanTable, jobExecutingTable)'
    BY <2>1, <2>2, <2>5 DEF OnceBudget, BudgetOf, SavesIn, EventsIn
  <2>7. Typ[k] = 1 =>
            /\ ran'[k] <= 1 + history'.restarts
            /\ alive' => BudgetOf(k, jobEventChan, jobPlanTable, jobExecutingTable)'
    BY <2>1, <2>3, <2>4, <2>5 DEF OnceBudget, BudgetOf, SavesIn, EventsIn, Unregistered
  <2> QED BY <2>6, <2>7 DEF OnceBudget
<1>5. ASSUME NEW k \in Job, JobDelete(k) PROVE OnceBudget'
  <2>1. /\ UNCHANGED <<ran, alive, goroutine, jobPlanTable, jobExecutingTable>>
        /\ EtcdDelete(k)
    BY <1>5 DEF JobDelete
  <2>2. history'.restarts = history.restarts
    BY <1>5 DEF JobDelete, IInv, TypeOK
  <2> QED BY <1>0, <1>1, <2>1, <2>2, EtcdDeleteSaves
<1>6. ASSUME NEW k \in Job, JobKill(k) PROVE OnceBudget'
  <2>1. history'.restarts = history.restarts
    BY <1>6 DEF JobKill, IInv, TypeOK
  <2> QED BY <1>1, <1>2, <1>6, <2>1 DEF JobKill
<1>7. CASE OnJobEvent
  <2>1. PICK e \in Event :
            /\ e = Head(jobEventChan) /\ e.job \in Job
            /\ 1 \in EventsIn(jobEventChan, e.job) /\ jobEventChan[1] = e
            /\ \/ e.type = "save" /\ OnSave(e.job)
               \/ e.type = "delete" /\ OnDelete(e.job)
    BY <1>7, HeadEvent
  <2>2. /\ alive /\ jobEventChan # << >> /\ jobEventChan' = Tail(jobEventChan)
        /\ UNCHANGED <<ran, history>>
    BY <1>7 DEF OnJobEvent
  <2>3. \A j \in Job : \A i \in SavesIn(jobEventChan', j) :
            i \in Nat \ {0} /\ i + 1 \in SavesIn(jobEventChan, j)
    BY <1>0, <2>2, TailEvents DEF SavesIn
  <2>4. ASSUME NEW j \in Job, NEW i \in SavesIn(jobEventChan', j), Typ[j] = 1
        PROVE  /\ MayRun(j) /\ jobPlanTable[j] = NoPlan /\ j \notin jobExecutingTable
               /\ SavesIn(jobEventChan', j) = {i} /\ 1 \notin SavesIn(jobEventChan, j)
    <3>1. i \in Nat \ {0} /\ i + 1 \in SavesIn(jobEventChan, j)
      BY <2>3, <2>4
    <3>2. /\ MayRun(j) /\ jobPlanTable[j] = NoPlan /\ j \notin jobExecutingTable
          /\ SavesIn(jobEventChan, j) = {i + 1}
      BY <2>2, <2>4, <3>1 DEF OnceBudget, BudgetOf
    <3>3. ASSUME NEW l \in SavesIn(jobEventChan', j) PROVE l = i
      <4>1. l \in Nat /\ l + 1 = i + 1
        BY <2>3, <3>2
      <4> QED BY <3>1, <4>1
    <3>4. SavesIn(jobEventChan', j) = {i}
      BY <3>3, <2>4
    <3>5. 1 \notin SavesIn(jobEventChan, j)
      <4>1. i + 1 # 1
        BY <3>1
      <4> QED BY <3>2, <4>1
    <3> QED BY <3>2, <3>4, <3>5
  <2>5. \A j \in Job : Typ[j] = 1 => BudgetOf(j, jobEventChan, jobPlanTable, jobExecutingTable)
    BY <2>2 DEF OnceBudget
  <2>6. CASE e.type = "save" /\ OnSave(e.job)
    <3>1. PICK plan \in PlanType, sc \in ChanType :
              /\ TrySchedule(plan, jobExecutingTable, sc)
              /\ \A j \in Job \ {e.job} : plan[j] = jobPlanTable[j]
      BY <1>7, <2>1, <2>6, EventHandler
    <3>2. 1 \in SavesIn(jobEventChan, e.job)
      BY <2>1, <2>6 DEF SavesIn
    <3>3. ASSUME NEW j \in Job, Typ[j] = 1
          PROVE  BudgetOf(j, jobEventChan', plan, jobExecutingTable)
      <4>1. BudgetOf(j, jobEventChan, jobPlanTable, jobExecutingTable)
        BY <2>5, <3>3
      <4>2. CASE j = e.job
        <5>1. SavesIn(jobEventChan', j) = {} /\ MayRun(j)
          BY <2>4, <3>2, <3>3, <4>1, <4>2 DEF BudgetOf
        <5> QED BY <4>1, <5>1 DEF BudgetOf
      <4>3. CASE j # e.job
        <5>1. plan[j] = jobPlanTable[j]
          BY <3>1, <4>3
        <5> QED BY <2>4, <3>3, <4>1, <5>1 DEF BudgetOf
      <4> QED BY <4>2, <4>3
    <3> QED BY <1>0, <2>2, <3>1, <3>3, IterationBudget
  <2>7. CASE e.type = "delete" /\ OnDelete(e.job)
    <3>1. PICK plan \in PlanType, sc \in ChanType :
              /\ TrySchedule(plan, jobExecutingTable, sc)
              /\ \A j \in Job \ {e.job} : plan[j] = jobPlanTable[j]
              /\ plan[e.job] = NoPlan
      BY <1>7, <2>1, <2>7, DeleteHandler
    <3>2. ASSUME NEW j \in Job, Typ[j] = 1
          PROVE  BudgetOf(j, jobEventChan', plan, jobExecutingTable)
      <4>1. BudgetOf(j, jobEventChan, jobPlanTable, jobExecutingTable)
        BY <2>5, <3>2
      <4>2. plan[j] = NoPlan \/ plan[j] = jobPlanTable[j]
        BY <3>1
      <4> QED BY <2>4, <3>2, <4>1, <4>2 DEF BudgetOf
    <3> QED BY <1>0, <2>2, <3>1, <3>2, IterationBudget
  <2> QED BY <2>1, <2>6, <2>7
<1>8. ASSUME NEW sc \in ChanType, TrySchedule(jobPlanTable, jobExecutingTable, sc), alive,
             UNCHANGED <<ran, history, jobEventChan>>
      PROVE  OnceBudget'
  <2>1. \A j \in Job : Typ[j] = 1 => BudgetOf(j, jobEventChan', jobPlanTable, jobExecutingTable)
    BY <1>8 DEF OnceBudget
  <2> QED BY <1>0, <1>8, <2>1, IterationBudget
<1>9. ASSUME NEW k \in Job, OnKill(k) PROVE OnceBudget'
  BY <1>8, <1>9, KillHandler DEF OnKill
<1>10. CASE OnTimer
  BY <1>0, <1>8, <1>10 DEF OnTimer
<1>11. CASE OnJobResult
  <2>1. PICK k \in jobExecutingTable, plan \in PlanType, sc \in ChanType :
            /\ DropOnceJob(k)
            /\ TrySchedule(plan, jobExecutingTable \ {k}, sc)
            /\ \A j \in Job \ {k} : plan[j] = jobPlanTable[j]
            /\ Typ[k] = 1 => plan[k] = NoPlan
    BY <1>11, ResultHandler
  <2>2. alive /\ ran' = ran /\ history' = history /\ k \in Job
    BY <1>0, <1>11 DEF OnJobResult
  <2>3. \A j \in Job : SavesIn(jobEventChan', j) = SavesIn(jobEventChan, j)
    BY <1>0, <1>2, <2>1, <2>2, EtcdDeleteSaves DEF DropOnceJob
  <2>4. ASSUME NEW j \in Job, Typ[j] = 1
        PROVE  BudgetOf(j, jobEventChan', plan, jobExecutingTable \ {k})
    <3>1. BudgetOf(j, jobEventChan, jobPlanTable, jobExecutingTable)
      BY <2>2, <2>4 DEF OnceBudget
    <3>2. CASE j = k
      BY <2>1, <2>3, <2>4, <3>1, <3>2 DEF BudgetOf
    <3>3. CASE j # k
      <4>1. plan[j] = jobPlanTable[j]
        BY <2>1, <3>3
      <4>2. j \in (jobExecutingTable \ {k}) <=> j \in jobExecutingTable
        BY <3>3
      <4>3. SavesIn(jobEventChan', j) = SavesIn(jobEventChan, j)
        BY <2>3
      <4> QED BY <3>1, <4>1, <4>2, <4>3 DEF BudgetOf
    <3> QED BY <3>2, <3>3
  <2>5. jobExecutingTable \ {k} \in SUBSET Job
    BY <1>0
  <2> QED BY <2>1, <2>2, <2>4, <2>5, IterationBudget
<1>12. ASSUME NEW k \in Job, NEW o \in LockOutcomes, TryLock(k, o) PROVE OnceBudget'
  <2>1. /\ alive /\ goroutine[k] = "sleep"
        /\ UNCHANGED <<alive, jobEventChan, jobPlanTable, jobExecutingTable>>
    BY <1>12 DEF TryLock
  <2>2. history'.restarts = history.restarts
    BY <1>12 DEF TryLock, IInv, TypeOK
  <2>3. CASE goroutine' = [goroutine EXCEPT ![k] = "exec"] /\ ran' = [ran EXCEPT ![k] = @ + 1]
    <3>1. k \in jobExecutingTable
      BY <2>1, LoopTypes DEF Accounted
    <3>2. ASSUME NEW j \in Job, Typ[j] = 1
          PROVE  /\ ran'[j] <= 1 + history'.restarts
                 /\ BudgetOf(j, jobEventChan, jobPlanTable, jobExecutingTable)'
      <4>1. BudgetOf(j, jobEventChan, jobPlanTable, jobExecutingTable)
        BY <2>1, <3>2 DEF OnceBudget
      <4>2. CASE j # k
        <5>1. goroutine'[j] = goroutine[j] /\ ran'[j] = ran[j]
          BY <1>0, <2>3, <4>2
        <5>2. MayRun(j)' <=> MayRun(j)
          BY <2>2, <5>1 DEF MayRun
        <5> QED BY <2>1, <2>2, <4>1, <5>1, <5>2 DEF BudgetOf, SavesIn, EventsIn
      <4>3. CASE j = k
        <5>1. goroutine'[j] = "exec" /\ ran'[j] = ran[j] + 1 /\ ran[j] \in Nat
          BY <1>0, <2>3, <4>3
        <5>2. ran[j] <= history.restarts /\ history.restarts \in Nat
          BY <2>1, <4>1, <4>3, RestartsCount DEF BudgetOf, MayRun
        <5>3. ran'[j] <= 1 + history'.restarts
          BY <2>2, <5>1, <5>2
        <5>4. SavesIn(jobEventChan', j) = {}
          BY <2>1, <3>1, <4>1, <4>3 DEF BudgetOf
        <5> QED BY <2>1, <3>1, <4>3, <5>1, <5>3, <5>4 DEF BudgetOf
      <4> QED BY <4>2, <4>3
    <3> QED BY <3>2 DEF OnceBudget
  <2>4. CASE ran' = ran /\ goroutine' = [goroutine EXCEPT ![k] = "none"]
    <3>1. \A j \in Job : goroutine'[j] = "sleep" => goroutine[j] = "sleep"
      BY <1>0, <2>4
    <3> QED BY <1>1, <1>2, <2>1, <2>2, <2>4, <3>1
  <2> QED BY <1>12, <2>3, <2>4 DEF TryLock, PushJobResult
<1>13. ASSUME NEW k \in Job, CommandEnds(k) PROVE OnceBudget'
  <2>1. \A j \in Job : goroutine'[j] = "sleep" => goroutine[j] = "sleep"
    BY <1>0, <1>13 DEF CommandEnds, PushJobResult
  <2> QED BY <1>1, <1>2, <1>13, <2>1 DEF CommandEnds
<1>14. ASSUME NEW k \in Job, NEW t \in {0, 1}, UpdateStatus(t, k) PROVE OnceBudget'
  <2>1. history'.restarts = history.restarts
    BY <1>14 DEF UpdateStatus, IInv, TypeOK
  <2> QED BY <1>1, <1>2, <1>14, <2>1 DEF UpdateStatus
<1>15. CASE Restart
  <2>1. /\ history'.restarts = history.restarts + 1 /\ history.restarts \in Nat /\ ran' = ran
    BY <1>15, RestartsCount DEF Restart
  <2>2. ASSUME NEW j \in Job, Typ[j] = 1 PROVE MayRun(j)' /\ ran'[j] <= 1 + history'.restarts
    <3>1. ran[j] \in Nat /\ ran[j] <= 1 + history.restarts
      BY <1>0, <2>2 DEF OnceBudget
    <3> QED BY <2>1, <3>1 DEF MayRun
  <2>3. \A j \in Job : goroutine'[j] = "none" /\ jobPlanTable'[j] = NoPlan /\ j \notin jobExecutingTable'
    BY <1>15 DEF Restart
  <2>4. ASSUME NEW j \in Job, NEW i \in SavesIn(jobEventChan', j)
        PROVE  SavesIn(jobEventChan', j) = {i}
    <3>1. j \in etcdJobs
      BY <1>15, <2>4, FreshEvents DEF SavesIn
    <3>2. PICK m \in Nat : EventsIn(jobEventChan', j) = {m}
      BY <1>15, <3>1, FreshEvents
    <3> QED BY <2>4, <3>2 DEF SavesIn
  <2> QED BY <2>2, <2>3, <2>4 DEF OnceBudget, BudgetOf, SavesIn, EventsIn
<1> QED BY <1>3, <1>4, <1>5, <1>6, <1>7, <1>9, <1>10, <1>11, <1>12, <1>13, <1>14, <1>15 DEF Next

\* A process starts a once job no more than one time, whatever events, ticks,
\* kills and results come between.
THEOREM OnceRunsOnceHolds == Spec => []OnceRunsOnce
<1>1. Init => OnceBudget
  <2> SUFFICES ASSUME Init PROVE OnceBudget
    OBVIOUS
  <2>1. \A j \in Job : SavesIn(jobEventChan, j) = {}
    BY EmptySeq DEF Init, SavesIn, EventsIn
  <2>2. \A j \in Job : ran[j] = 0 /\ goroutine[j] = "none" /\ jobPlanTable[j] = NoPlan
    BY DEF Init
  <2>3. history.restarts = 0
    BY DEF Init
  <2> QED BY <2>1, <2>2, <2>3 DEF OnceBudget, BudgetOf, MayRun
<1>2. OnceBudget => OnceRunsOnce
  BY DEF OnceBudget, OnceRunsOnce
<1> QED BY <1>1, <1>2, InitIInv, NextIInv, InitRowsFirst, NextRowsFirst, NextOnceBudget, PTL
        DEF Spec

-----------------------------------------------------------------------------
(* An iteration of the loop, seen by one job *)

\* An event of this type of j is queued.
Coming(s, j, type) == \E i \in EventsIn(s, j) : s[i].type = type

OneSave(s, j) == \A i, l \in SavesIn(s, j) : i = l

ErrsIn(s, j) == {s[i].err : i \in ResultsIn(s, j)}

\* The queues of j in sc are those of the channels, or one has an event more.
SameChans(j, sc) == \A t \in {0, 1} : sc[t][j] = statusChan[t][j]

Pushed(j, sc, t, st, add) ==
    /\ sc[t][j] = Append(statusChan[t][j], [status |-> st, add |-> add])
    /\ \A u \in {0, 1} \ {t} : sc[u][j] = statusChan[u][j]

\* No new event for j, and its key stays as it is.
EventsShrink(j) ==
    /\ \A type : Coming(jobEventChan', j, type) => Coming(jobEventChan, j, type)
    /\ OneSave(jobEventChan, j) => OneSave(jobEventChan', j)
    /\ j \in etcdJobs' <=> j \in etcdJobs

SameExecution(j, exec) ==
    /\ j \in exec <=> j \in jobExecutingTable
    /\ ErrsIn(jobResultChan', j) = ErrsIn(jobResultChan, j)

\* What a handler may leave of j for the tail of the iteration.
Passed(j, plan, exec, sc) ==
    /\ plan[j] = jobPlanTable[j] /\ SameExecution(j, exec)
    /\ SameChans(j, sc) /\ EventsShrink(j)

Saved(j, plan, exec, sc) ==
    /\ CronExpr[j] # "bad"
    /\ Coming(jobEventChan, j, "save")
    /\ OneSave(jobEventChan, j) => ~Coming(jobEventChan', j, "save")
    /\ plan[j] = BuildJobSchedulePlan(j) /\ SameExecution(j, exec)
    /\ Pushed(j, sc, Typ[j], Planned, 0) /\ EventsShrink(j)

Unplanned(j, plan, exec, sc) ==
    /\ Coming(jobEventChan, j, "delete") /\ jobPlanTable[j] # NoPlan
    /\ plan[j] = NoPlan /\ SameExecution(j, exec)
    /\ Pushed(j, sc, 0, Deleted, 0) /\ EventsShrink(j)

Killed(j, plan, exec, sc) ==
    /\ j \in jobExecutingTable /\ killEvents[j] > 0
    /\ plan[j] = jobPlanTable[j] /\ SameExecution(j, exec)
    /\ Pushed(j, sc, Typ[j], Failed, 1) /\ EventsShrink(j)

Finished(j, plan, exec, sc) ==
    /\ j \in jobExecutingTable /\ j \notin exec /\ goroutine[j] = "none"
    /\ \E r \in Result :
          /\ r.job = j
          /\ ErrsIn(jobResultChan, j) = {r.err} /\ ErrsIn(jobResultChan', j) = {}
          /\ IF r.err = "occupied" THEN SameChans(j, sc)
                                   ELSE Pushed(j, sc, Typ[j], ResultStatus(r), 1)
    /\ plan[j] = IF Typ[j] = 1 THEN NoPlan ELSE jobPlanTable[j]
    /\ \/ EventsShrink(j)
       \/ /\ Typ[j] = 1 /\ j \notin etcdJobs'
          /\ SavesIn(jobEventChan', j) = SavesIn(jobEventChan, j)

Handled(j, plan, exec, sc) ==
    \/ Passed(j, plan, exec, sc)
    \/ Saved(j, plan, exec, sc)
    \/ Unplanned(j, plan, exec, sc)
    \/ Killed(j, plan, exec, sc)
    \/ Finished(j, plan, exec, sc)

Iteration == OnJobEvent \/ OnTimer \/ OnJobResult \/ \E k \in Job : OnKill(k)

\* A queue without its first event.
LEMMA TailShrinks ==
    ASSUME NEW s \in Seq(Event), s # << >>, NEW j
    PROVE  /\ \A type : Coming(Tail(s), j, type) => Coming(s, j, type)
           /\ OneSave(s, j) => OneSave(Tail(s), j)
           /\ s[1].type = "save" /\ s[1].job = j /\ OneSave(s, j) => ~Coming(Tail(s), j, "save")
<1>1. \A i \in EventsIn(Tail(s), j) :
          i \in Nat \ {0} /\ i + 1 \in EventsIn(s, j) /\ Tail(s)[i] = s[i + 1]
  BY TailEvents
<1>2. \A type : Coming(Tail(s), j, type) => Coming(s, j, type)
  BY <1>1 DEF Coming
<1>3. \A i \in SavesIn(Tail(s), j) : i \in Nat \ {0} /\ i + 1 \in SavesIn(s, j)
  BY <1>1 DEF SavesIn
<1>4. ASSUME OneSave(s, j) PROVE OneSave(Tail(s), j)
  <2> SUFFICES ASSUME NEW i \in SavesIn(Tail(s), j), NEW l \in SavesIn(Tail(s), j) PROVE i = l
    BY DEF OneSave
  <2>1. i + 1 = l + 1 /\ i \in Nat /\ l \in Nat
    BY <1>3, <1>4 DEF OneSave
  <2> QED BY <2>1
<1>5. ASSUME s[1].type = "save", s[1].job = j, OneSave(s, j)
      PROVE  ~Coming(Tail(s), j, "save")
  <2> SUFFICES ASSUME NEW i \in SavesIn(Tail(s), j) PROVE FALSE
    BY DEF Coming, SavesIn
  <2>1. 1 \in DOMAIN s
    BY LenProperties, EmptySeq
  <2>2. 1 \in SavesIn(s, j)
    BY <1>5, <2>1 DEF SavesIn, EventsIn
  <2>3. i \in Nat \ {0} /\ i + 1 = 1
    BY <1>3, <1>5, <2>2 DEF OneSave
  <2> QED BY <2>3
<1> QED BY <1>2, <1>4, <1>5

\* The results of other jobs stay when the first is received.
LEMMA TailErrs ==
    ASSUME NEW s \in Seq(Result), s # << >>, NEW j, s[1].job # j
    PROVE  ErrsIn(Tail(s), j) = ErrsIn(s, j)
<1>1. ResultsIn(Tail(s), j) = {i - 1 : i \in ResultsIn(s, j) \ {1}}
  BY TailResults
<1>2. /\ DOMAIN s = 1..Len(s) /\ Len(s) \in Nat \ {0}
      /\ \A i \in 1..(Len(s) - 1) : Tail(s)[i] = s[i + 1]
  BY HeadTailProperties, LenProperties, EmptySeq
<1>3. \A i \in ResultsIn(s, j) : i \in 2..Len(s)
  BY <1>2 DEF ResultsIn
<1>4. \A i \in ResultsIn(s, j) : i - 1 \in ResultsIn(Tail(s), j) /\ Tail(s)[i - 1] = s[i]
  <2> SUFFICES ASSUME NEW i \in ResultsIn(s, j)
               PROVE  i - 1 \in ResultsIn(Tail(s), j) /\ Tail(s)[i - 1] = s[i]
    OBVIOUS
  <2>1. i \in 2..Len(s)
    BY <1>3
  <2>2. i - 1 \in 1..(Len(s) - 1) /\ (i - 1) + 1 = i
    BY <1>2, <2>1
  <2>3. Tail(s)[i - 1] = s[i]
    BY <1>2, <2>2
  <2> QED BY <1>1, <2>1, <2>3
<1>5. \A l \in ResultsIn(Tail(s), j) : \E i \in ResultsIn(s, j) : l = i - 1
  BY <1>1
<1>6. ASSUME NEW x \in ErrsIn(Tail(s), j) PROVE x \in ErrsIn(s, j)
  <2>1. PICK l \in ResultsIn(Tail(s), j) : x = Tail(s)[l].err
    BY <1>6 DEF ErrsIn
  <2>2. PICK i \in ResultsIn(s, j) : l = i - 1
    BY <1>5
  <2> QED BY <1>4, <2>1, <2>2 DEF ErrsIn
<1>7. ASSUME NEW x \in ErrsIn(s, j) PROVE x \in ErrsIn(Tail(s), j)
  <2>1. PICK i \in ResultsIn(s, j) : x = s[i].err
    BY <1>7 DEF ErrsIn
  <2>2. i - 1 \in ResultsIn(Tail(s), j) /\ x = Tail(s)[i - 1].err
    BY <1>4, <2>1
  <2> QED BY <2>2 DEF ErrsIn
<1> QED BY <1>6, <1>7

\* A queued event or its absence does not depend on other jobs' events.
LEMMA WatchShrinks ==
    ASSUME jobEventChan \in Seq(Event), NEW k \in Job, NEW type \in {"save", "delete"},
           WatchJobs(type, k), NEW j, j # k
    PROVE  /\ \A tp : Coming(jobEventChan', j, tp) <=> Coming(jobEventChan, j, tp)
           /\ SavesIn(jobEventChan', j) = SavesIn(jobEventChan, j)
<1> DEFINE e == [type |-> type, job |-> k]
<1>1. e \in Event /\ e.job = k
  BY DEF Event
<1>2. jobEventChan' = jobEventChan \/ jobEventChan' = Append(jobEventChan, e)
  BY DEF WatchJobs
<1> HIDE DEF e
<1>3. EventsIn(Append(jobEventChan, e), j) = EventsIn(jobEventChan, j)
  <2>1. EventsIn(Append(jobEventChan, e), j) =
            EventsIn(jobEventChan, j) \cup (IF e.job = j THEN {Len(jobEventChan) + 1} ELSE {})
    BY <1>1, AppendEvents
  <2> QED BY <1>1, <2>1
<1>4. \A i \in EventsIn(jobEventChan, j) : Append(jobEventChan, e)[i] = jobEventChan[i]
  BY <1>1 DEF EventsIn
<1> QED BY <1>2, <1>3, <1>4 DEF Coming, SavesIn

\* A job that an iteration is not about.
LEMMA OthersPass ==
    ASSUME NEW j \in Job, NEW plan, NEW exec, NEW sc,
           plan[j] = jobPlanTable[j], j \in exec <=> j \in jobExecutingTable,
           \A t \in {0, 1} : sc[t][j] = statusChan[t][j],
           ErrsIn(jobResultChan', j) = ErrsIn(jobResultChan, j), EventsShrink(j)
    PROVE  Handled(j, plan, exec, sc)
BY DEF Handled, Passed, SameExecution, SameChans

\* Push appends to one queue.
LEMMA PushPushes ==
    ASSUME statusChan \in ChanType, NEW t \in {0, 1}, NEW k \in Job, NEW st, NEW add
    PROVE  Pushed(k, Push(statusChan, t, k, st, add), t, st, add)
BY DEF Push, Pushed, ChanType

\* SAVE and DELETE events.
LEMMA JobEventHandles ==
    ASSUME IInv, OnJobEvent
    PROVE  \E plan \in PlanType, exec \in SUBSET Job, sc \in ChanType :
              /\ TrySchedule(plan, exec, sc)
              /\ \A j \in Job : Handled(j, plan, exec, sc)
<1>1. PICK e \in Event :
          /\ e = Head(jobEventChan) /\ e.job \in Job
          /\ 1 \in EventsIn(jobEventChan, e.job) /\ jobEventChan[1] = e
          /\ \/ e.type = "save" /\ OnSave(e.job)
             \/ e.type = "delete" /\ OnDelete(e.job)
  BY HeadEvent
<1> DEFINE k == e.job
<1>2. /\ alive /\ jobPlanTable \in PlanType /\ statusChan \in ChanType
      /\ jobExecutingTable \in SUBSET Job
      /\ jobPlanTable \in [Job -> {NoPlan} \cup Nat]
      /\ Typ[k] \in {0, 1} /\ 0 \in {0, 1} /\ Planned \in 0..5 /\ Deleted \in 0..5 /\ 0 \in 0..1
      /\ jobEventChan \in Seq(Event) /\ jobEventChan # << >> /\ k \in Job
      /\ jobEventChan' = Tail(jobEventChan) /\ UNCHANGED <<jobResultChan, etcdJobs>>
  <2>1. /\ alive /\ jobEventChan # << >> /\ jobEventChan' = Tail(jobEventChan)
        /\ UNCHANGED <<jobResultChan, etcdJobs>>
    BY DEF OnJobEvent
  <2>2. jobEventChan \in Seq(Event) /\ jobPlanTable \in [Job -> {NoPlan} \cup Nat]
    BY DEF IInv, TypeOK
  <2>3. k \in Job /\ Typ[k] \in {0, 1}
    BY <1>1, Constants
  <2> QED BY <2>1, <2>2, <2>3, LoopTypes DEF Planned, Deleted
<1>3. \A j : EventsShrink(j) /\ ErrsIn(jobResultChan', j) = ErrsIn(jobResultChan, j)
  BY <1>2, TailShrinks DEF EventsShrink
<1>4. Coming(jobEventChan, k, e.type)
  BY <1>1 DEF Coming
<1>5. ASSUME TrySchedule(jobPlanTable, jobExecutingTable, statusChan)
      PROVE  \E plan \in PlanType, exec \in SUBSET Job, sc \in ChanType :
                /\ TrySchedule(plan, exec, sc)
                /\ \A j \in Job : Handled(j, plan, exec, sc)
  BY <1>2, <1>3, <1>5, OthersPass
<1> HIDE DEF k
<1>6. ASSUME NEW p \in {NoPlan} \cup Nat, NEW t \in {0, 1}, NEW st \in 0..5,
             TrySchedule([jobPlanTable EXCEPT ![k] = p], jobExecutingTable,
                         Push(statusChan, t, k, st, 0)),
             \A plan, sc : plan[k] = p /\ Pushed(k, sc, t, st, 0) =>
                              Handled(k, plan, jobExecutingTable, sc)
      PROVE  \E plan \in PlanType, exec \in SUBSET Job, sc \in ChanType :
                /\ TrySchedule(plan, exec, sc)
                /\ \A j \in Job : Handled(j, plan, exec, sc)
  <2> DEFINE plan == [jobPlanTable EXCEPT ![k] = p]
  <2> DEFINE sc == Push(statusChan, t, k, st, 0)
  <2>1. plan \in PlanType /\ plan[k] = p /\ \A j \in Job \ {k} : plan[j] = jobPlanTable[j]
    BY <1>2 DEF PlanType
  <2>2. /\ \A j \in Job \ {k}, u \in {0, 1} : sc[u][j] = statusChan[u][j]
        /\ Pushed(k, sc, t, st, 0)
    BY <1>2, PushLeaves, PushPushes
  <2>3. sc \in ChanType
    <3>1. 0 \in 0..1 /\ statusChan \in ChanType
      BY <1>2
    <3> QED BY <1>2, <3>1, PushType
  <2>4. TrySchedule(plan, jobExecutingTable, sc)
    BY <1>6
  <2> HIDE DEF plan, sc
  <2>5. Handled(k, plan, jobExecutingTable, sc)
    BY <1>6, <2>1, <2>2
  <2>6. \A j \in Job \ {k} : Handled(j, plan, jobExecutingTable, sc)
    BY <1>3, <2>1, <2>2, OthersPass
  <2> QED BY <1>2, <2>1, <2>3, <2>4, <2>5, <2>6
<1>7. CASE e.type = "save" /\ OnSave(k)
  <2>1. CASE CronExpr[k] = "bad"
    BY <1>5, <1>7, <2>1 DEF OnSave
  <2>2. CASE CronExpr[k] # "bad"
    <3>1. BuildJobSchedulePlan(k) \in Nat
      BY <1>2, NowType, ExprNextType DEF BuildJobSchedulePlan, IInv
    <3>2. OneSave(jobEventChan, k) => ~Coming(jobEventChan', k, "save")
      BY <1>1, <1>2, <1>7, TailShrinks DEF k
    <3>3. \A plan, sc : plan[k] = BuildJobSchedulePlan(k) /\ Pushed(k, sc, Typ[k], Planned, 0)
                           => Handled(k, plan, jobExecutingTable, sc)
      BY <1>3, <1>4, <1>7, <2>2, <3>2 DEF Handled, Saved, SameExecution
    <3>4. TrySchedule([jobPlanTable EXCEPT ![k] = BuildJobSchedulePlan(k)], jobExecutingTable,
                      Push(statusChan, Typ[k], k, Planned, 0))
      BY <1>7, <2>2 DEF OnSave
    <3> QED BY <1>2, <1>6, <3>1, <3>3, <3>4
  <2> QED BY <2>1, <2>2
<1>8. CASE e.type = "delete" /\ OnDelete(k)
  <2>1. CASE jobPlanTable[k] = NoPlan
    BY <1>5, <1>8, <2>1 DEF OnDelete
  <2>2. CASE jobPlanTable[k] # NoPlan
    <3>1. \A plan, sc : plan[k] = NoPlan /\ Pushed(k, sc, 0, Deleted, 0)
                           => Handled(k, plan, jobExecutingTable, sc)
      BY <1>3, <1>4, <1>8, <2>2 DEF Handled, Unplanned, SameExecution
    <3>2. TrySchedule([jobPlanTable EXCEPT ![k] = NoPlan], jobExecutingTable,
                      Push(statusChan, 0, k, Deleted, 0))
      BY <1>8, <2>2 DEF OnDelete
    <3> QED BY <1>2, <1>6, <3>1, <3>2
  <2> QED BY <2>1, <2>2
<1> QED BY <1>1, <1>7, <1>8 DEF k

\* KILL events.
LEMMA KillHandles ==
    ASSUME IInv, NEW k \in Job, OnKill(k)
    PROVE  \E plan \in PlanType, exec \in SUBSET Job, sc \in ChanType :
              /\ TrySchedule(plan, exec, sc)
              /\ \A j \in Job : Handled(j, plan, exec, sc)
<1>1. /\ alive /\ jobPlanTable \in PlanType /\ statusChan \in ChanType
      /\ jobExecutingTable \in SUBSET Job /\ killEvents[k] > 0
      /\ Typ[k] \in {0, 1} /\ Failed \in 0..5 /\ 1 \in 0..1
      /\ UNCHANGED <<jobEventChan, jobResultChan, etcdJobs>>
  BY LoopTypes, Constants DEF OnKill, Failed
<1>2. \A j : EventsShrink(j) /\ ErrsIn(jobResultChan', j) = ErrsIn(jobResultChan, j)
  BY <1>1 DEF EventsShrink, Coming, OneSave, SavesIn, EventsIn
<1>3. CASE TrySchedule(jobPlanTable, jobExecutingTable, statusChan)
  BY <1>1, <1>2, <1>3, OthersPass
<1>4. CASE /\ k \in jobExecutingTable
           /\ TrySchedule(jobPlanTable, jobExecutingTable, Push(statusChan, Typ[k], k, Failed, 1))
  <2> DEFINE sc == Push(statusChan, Typ[k], k, Failed, 1)
  <2>1. /\ \A j \in Job \ {k}, u \in {0, 1} : sc[u][j] = statusChan[u][j]
        /\ Pushed(k, sc, Typ[k], Failed, 1)
    BY <1>1, PushLeaves, PushPushes
  <2>2. sc \in ChanType
    BY <1>1, PushType
  <2>3. TrySchedule(jobPlanTable, jobExecutingTable, sc)
    BY <1>4
  <2> HIDE DEF sc
  <2>4. Handled(k, jobPlanTable, jobExecutingTable, sc)
    BY <1>1, <1>2, <1>4, <2>1 DEF Handled, Killed, SameExecution
  <2>5. \A j \in Job \ {k} : Handled(j, jobPlanTable, jobExecutingTable, sc)
    BY <1>2, <2>1, OthersPass
  <2> QED BY <1>1, <2>2, <2>3, <2>4, <2>5
<1> QED BY <1>3, <1>4 DEF OnKill

\* Results.
LEMMA JobResultHandles ==
    ASSUME IInv, OnJobResult
    PROVE  \E plan \in PlanType, exec \in SUBSET Job, sc \in ChanType :
              /\ TrySchedule(plan, exec, sc)
              /\ \A j \in Job : Handled(j, plan, exec, sc)
<1> DEFINE r == Head(jobResultChan)
<1> DEFINE k == r.job
<1>1. /\ alive /\ jobResultChan # << >> /\ jobResultChan \in Seq(Result) /\ DropOnceJob(k)
      /\ jobResultChan' = Tail(jobResultChan) /\ jobEventChan \in Seq(Event)
      /\ TrySchedule(PlanAfterResult(k), jobExecutingTable \ {k},
                     IF r.err = "occupied" THEN statusChan
                     ELSE Push(statusChan, Typ[k], k, ResultStatus(r), 1))
  BY DEF OnJobResult, IInv, TypeOK
<1>2. r \in Result /\ jobResultChan[1] = r /\ 1 \in DOMAIN jobResultChan
  BY <1>1, HeadTailProperties, LenProperties, EmptySeq
<1>3. k \in Job /\ 1 \in ResultsIn(jobResultChan, k)
  BY <1>2 DEF Result, ResultsIn
<1>4. /\ k \in jobExecutingTable /\ goroutine[k] = "none"
      /\ ResultsIn(jobResultChan, k) = {1}
  BY <1>1, <1>3, LoopTypes DEF Accounted
<1>5. ErrsIn(jobResultChan, k) = {r.err} /\ ErrsIn(jobResultChan', k) = {}
  <2>1. ResultsIn(jobResultChan', k) = {}
    BY <1>1, <1>4, TailResults
  <2> QED BY <1>2, <1>4, <2>1 DEF ErrsIn
<1>6. \A j \in Job \ {k} : ErrsIn(jobResultChan', j) = ErrsIn(jobResultChan, j)
  BY <1>1, <1>2, TailErrs
<1>7. /\ statusChan \in ChanType /\ Typ[k] \in {0, 1} /\ 1 \in 0..1 /\ ResultStatus(r) \in 0..5
      /\ jobPlanTable \in [Job -> {NoPlan} \cup Nat] /\ jobPlanTable \in PlanType
      /\ jobExecutingTable \in SUBSET Job
  BY <1>1, <1>3, LoopTypes, Constants DEF ResultStatus, Failed, Planned, Done, PlanType
<1> DEFINE plan == PlanAfterResult(k)
<1> DEFINE exec == jobExecutingTable \ {k}
<1> DEFINE sc == IF r.err = "occupied" THEN statusChan
                 ELSE Push(statusChan, Typ[k], k, ResultStatus(r), 1)
<1>d. k = r.job
  OBVIOUS
<1> HIDE DEF k, r
<1>8. /\ plan \in PlanType /\ \A j \in Job \ {k} : plan[j] = jobPlanTable[j]
      /\ plan[k] = IF Typ[k] = 1 THEN NoPlan ELSE jobPlanTable[k]
  BY <1>3, <1>7 DEF PlanAfterResult, PlanType
<1>9. /\ sc \in ChanType /\ \A j \in Job \ {k}, t \in {0, 1} : sc[t][j] = statusChan[t][j]
      /\ IF r.err = "occupied" THEN SameChans(k, sc)
                               ELSE Pushed(k, sc, Typ[k], ResultStatus(r), 1)
  <2>1. \A j \in Job \ {k}, t \in {0, 1} : sc[t][j] = statusChan[t][j]
    BY <1>3, <1>7, PushLeaves
  <2>2. Push(statusChan, Typ[k], k, ResultStatus(r), 1) \in ChanType
    BY <1>3, <1>7, PushType
  <2>3. Pushed(k, Push(statusChan, Typ[k], k, ResultStatus(r), 1), Typ[k], ResultStatus(r), 1)
    BY <1>3, <1>7, PushPushes
  <2> QED BY <1>7, <2>1, <2>2, <2>3 DEF SameChans
<1>10. /\ exec \in SUBSET Job /\ k \notin exec
       /\ \A j \in Job \ {k} : j \in exec <=> j \in jobExecutingTable
  BY <1>7
<1>11. TrySchedule(plan, exec, sc)
  BY <1>1
<1>12. ASSUME NEW j \in Job \ {k} PROVE EventsShrink(j)
  <2>1. CASE EtcdDelete(k)
    <3>1. jobEventChan' = jobEventChan \/ WatchJobs("delete", k)
      BY <2>1 DEF EtcdDelete
    <3>2. CASE WatchJobs("delete", k)
      BY <1>1, <1>3, <2>1, <3>2, WatchShrinks DEF EventsShrink, OneSave, EtcdDelete
    <3>3. CASE jobEventChan' = jobEventChan
      BY <2>1, <3>3 DEF EventsShrink, OneSave, SavesIn, Coming, EventsIn, EtcdDelete
    <3> QED BY <3>1, <3>2, <3>3
  <2>2. CASE UNCHANGED <<etcdJobs, jobEventChan>>
    BY <2>2 DEF EventsShrink, OneSave, SavesIn, Coming, EventsIn
  <2> QED BY <1>1, <2>1, <2>2 DEF DropOnceJob
<1>13. \/ EventsShrink(k)
       \/ /\ Typ[k] = 1 /\ k \notin etcdJobs'
          /\ SavesIn(jobEventChan', k) = SavesIn(jobEventChan, k)
  <2>1. CASE Typ[k] = 1 /\ EtcdDelete(k)
    BY <1>1, <1>3, <2>1, EtcdDeleteSaves DEF EtcdDelete
  <2>2. CASE UNCHANGED <<etcdJobs, jobEventChan>>
    BY <2>2 DEF EventsShrink, OneSave, SavesIn, Coming, EventsIn
  <2> QED BY <1>1, <2>1, <2>2 DEF DropOnceJob
<1> HIDE DEF plan, exec, sc
<1>14. Handled(k, plan, exec, sc)
  BY <1>2, <1>4, <1>5, <1>8, <1>9, <1>10, <1>13, <1>d DEF Handled, Finished
<1>15. \A j \in Job \ {k} : Handled(j, plan, exec, sc)
  BY <1>6, <1>8, <1>9, <1>10, <1>12, OthersPass
<1> QED BY <1>8, <1>9, <1>10, <1>11, <1>14, <1>15

\* Each iteration handles each job in one of these ways.
LEMMA IterationHandles ==
    ASSUME IInv, Iteration
    PROVE  \E plan \in PlanType, exec \in SUBSET Job, sc \in ChanType :
              /\ TrySchedule(plan, exec, sc)
              /\ \A j \in Job : Handled(j, plan, exec, sc)
<1>1. CASE OnTimer
  <2>1. /\ alive /\ TrySchedule(jobPlanTable, jobExecutingTable, statusChan)
        /\ UNCHANGED <<jobEventChan, jobResultChan, etcdJobs>>
    BY <1>1 DEF OnTimer
  <2>2. \A j : EventsShrink(j) /\ ErrsIn(jobResultChan', j) = ErrsIn(jobResultChan, j)
    BY <2>1 DEF EventsShrink, Coming, OneSave, SavesIn, EventsIn
  <2> QED BY <2>1, <2>2, LoopTypes, OthersPass
<1> QED BY <1>1, JobEventHandles, JobResultHandles, KillHandles DEF Iteration

\* The tail of the iteration starts j, or leaves it.
StartsJob(j, plan, exec, sc) ==
    /\ Due(plan, j) /\ j \notin exec
    /\ goroutine'[j] = "sleep" /\ j \in jobExecutingTable'
    /\ statusChan'[Typ[j]][j] = Append(sc[Typ[j]][j], [status |-> Running, add |-> 0])
    /\ \A u \in {0, 1} \ {Typ[j]} : statusChan'[u][j] = sc[u][j]

LeavesJob(j, plan, exec, sc) ==
    /\ ~Due(plan, j) \/ j \in exec
    /\ goroutine'[j] = goroutine[j] /\ (j \in jobExecutingTable' <=> j \in exec)
    /\ \A u \in {0, 1} : statusChan'[u][j] = sc[u][j]

LEMMA IterationEnds ==
    ASSUME TypeOK, NEW plan \in PlanType, NEW exec \in SUBSET Job, NEW sc \in ChanType,
           TrySchedule(plan, exec, sc), alive', NEW j \in Job
    PROVE  /\ jobPlanTable'[j] = Replan(plan)[j]
           /\ jobPlanTable'[j] # NoPlan <=> plan[j] # NoPlan
           /\ StartsJob(j, plan, exec, sc) \/ LeavesJob(j, plan, exec, sc)
<1>1. CASE NilExpr(plan, exec)
  BY <1>1 DEF TrySchedule
<1>2. CASE ~NilExpr(plan, exec)
  <2>1. /\ jobPlanTable' = Replan(plan)
        /\ jobExecutingTable' = exec \cup Starts(plan, exec)
        /\ goroutine' = [k \in Job |-> IF k \in Starts(plan, exec) THEN "sleep" ELSE goroutine[k]]
        /\ statusChan' = [t \in {0, 1} |-> [k \in Job |->
                IF k \in Starts(plan, exec) /\ Typ[k] = t
                THEN Append(sc[t][k], [status |-> Running, add |-> 0])
                ELSE sc[t][k]]]
    BY <1>2 DEF TrySchedule
  <2>2. j \in Starts(plan, exec) <=> Due(plan, j) /\ j \notin exec
    BY DEF Starts
  <2>3. jobPlanTable'[j] # NoPlan <=> plan[j] # NoPlan
    BY TryScheduleKeepsPlanned
  <2>4. CASE j \in Starts(plan, exec)
    BY <2>1, <2>2, <2>3, <2>4, Constants DEF StartsJob
  <2>5. CASE j \notin Starts(plan, exec)
    BY <2>1, <2>2, <2>3, <2>5 DEF LeavesJob
  <2> QED BY <2>4, <2>5
<1> QED BY <1>1, <1>2

\* What no iteration changes.
LEMMA IterationFrame ==
    ASSUME Iteration
    PROVE  alive /\ UNCHANGED <<now, status, num, ran, history>>
BY DEF Iteration, OnJobEvent, OnTimer, OnJobResult, OnKill

-----------------------------------------------------------------------------
(* What queues and tables may hold of a job together *)

OrderedOf(j, etcd, s, plan, exec, sc) ==
    /\ OneSave(s, j)
    /\ Coming(s, j, "save") =>
          /\ plan[j] = NoPlan /\ j \notin exec
          /\ \A t \in {0, 1} : sc[t][j] = << >>
    /\ Coming(s, j, "delete") =>
          /\ j \notin etcd
          /\ \/ j \in history.asked
             \/ plan[j] = NoPlan /\ ~Coming(s, j, "save")
    /\ Typ[j] = 0 =>
          /\ j \in exec => plan[j] # NoPlan \/ j \in history.asked
          /\ sc[1][j] = << >>
    /\ Typ[j] = 1 =>
          /\ j \in etcd => sc[0][j] = << >>
          /\ \A i \in DOMAIN sc[0][j] : sc[0][j][i].status = Deleted
    /\ CronExpr[j] = "bad" => plan[j] = NoPlan

\* A name is saved once, and before it is deleted; a once job's queue of the
\* cron jobs holds its deletion only.
Ordered ==
    alive => \A j \in Job : OrderedOf(j, etcdJobs, jobEventChan, jobPlanTable,
                                      jobExecutingTable, statusChan)

\* Elements of a queue with one status event more, or less.
LEMMA AppendStatus ==
    ASSUME NEW s \in Seq(StatusEvent), NEW e \in StatusEvent
    PROVE  /\ Append(s, e) # << >> /\ Append(s, e)[Len(Append(s, e))] = e
           /\ \A i \in DOMAIN Append(s, e) : Append(s, e)[i] = e \/ (i \in DOMAIN s /\ Append(s, e)[i] = s[i])
<1>1. /\ DOMAIN s = 1..Len(s) /\ Len(s) \in Nat
      /\ DOMAIN Append(s, e) = 1..(Len(s) + 1) /\ Len(Append(s, e)) = Len(s) + 1
      /\ \A i \in 1..Len(s) : Append(s, e)[i] = s[i]
      /\ Append(s, e)[Len(s) + 1] = e
  BY AppendProperties, LenProperties
<1>2. Append(s, e) # << >>
  BY <1>1, EmptySeq
<1> QED BY <1>1, <1>2

LEMMA TailStatus ==
    ASSUME NEW s \in Seq(StatusEvent), s # << >>
    PROVE  /\ \A i \in DOMAIN Tail(s) : i + 1 \in DOMAIN s /\ Tail(s)[i] = s[i + 1]
           /\ Tail(s) # << >> => Tail(s)[Len(Tail(s))] = s[Len(s)]
           /\ Tail(s) = << >> => Head(s) = s[Len(s)]
<1>1. /\ DOMAIN s = 1..Len(s) /\ Len(s) \in Nat \ {0} /\ Head(s) = s[1]
      /\ Tail(s) \in Seq(StatusEvent)
      /\ DOMAIN Tail(s) = 1..(Len(s) - 1) /\ Len(Tail(s)) = Len(s) - 1
      /\ \A i \in 1..(Len(s) - 1) : Tail(s)[i] = s[i + 1]
  BY HeadTailProperties, LenProperties, EmptySeq
<1>2. Tail(s) # << >> => Len(s) - 1 \in 1..(Len(s) - 1) /\ (Len(s) - 1) + 1 = Len(s)
  <2>1. Tail(s) # << >> => Len(Tail(s)) # 0
    BY <1>1, EmptySeq
  <2> QED BY <1>1, <2>1
<1>3. Tail(s) = << >> => Len(s) = 1
  <2>1. Tail(s) = << >> => Len(Tail(s)) = 0
    BY EmptySeq
  <2> QED BY <1>1, <2>1
<1> QED BY <1>1, <1>2, <1>3

LEMMA PushedEvent ==
    ASSUME NEW j \in Job, NEW sc, NEW t \in {0, 1}, NEW st \in 0..5, NEW add \in 0..1,
           statusChan \in ChanType, Pushed(j, sc, t, st, add)
    PROVE  /\ sc[t][j] # << >> /\ sc[t][j][Len(sc[t][j])].status = st
           /\ \A i \in DOMAIN sc[t][j] :
                 \/ sc[t][j][i].status = st
                 \/ i \in DOMAIN statusChan[t][j] /\ sc[t][j][i] = statusChan[t][j][i]
           /\ \A u \in {0, 1} : u # t => sc[u][j] = statusChan[u][j]
<1> DEFINE e == [status |-> st, add |-> add]
<1>1. statusChan[t][j] \in Seq(StatusEvent) /\ e \in StatusEvent /\ e.status = st
  BY DEF ChanType, StatusEvent
<1>2. /\ sc[t][j] = Append(statusChan[t][j], e)
      /\ \A u \in {0, 1} : u # t => sc[u][j] = statusChan[u][j]
  BY DEF Pushed
<1> HIDE DEF e
<1> QED BY <1>1, <1>2, AppendStatus

\* The handlers keep the order.
LEMMA HandlersKeepOrder ==
    ASSUME IInv, Ordered, Iteration, NEW j \in Job, NEW plan, NEW exec, NEW sc,
           Handled(j, plan, exec, sc)
    PROVE  OrderedOf(j, etcdJobs', jobEventChan', plan, exec, sc)
<1>1. /\ alive /\ OrderedOf(j, etcdJobs, jobEventChan, jobPlanTable, jobExecutingTable, statusChan)
      /\ statusChan \in ChanType /\ Typ[j] \in {0, 1}
      /\ Planned \in 0..5 /\ Deleted \in 0..5 /\ Failed \in 0..5 /\ Done \in 0..5
      /\ 0 \in 0..1 /\ 1 \in 0..1
  BY IterationFrame, LoopTypes, Constants DEF Ordered, Planned, Deleted, Failed, Done
<1>2. CASE Passed(j, plan, exec, sc)
  BY <1>1, <1>2 DEF Passed, SameExecution, SameChans, EventsShrink, OrderedOf
<1>3. CASE Saved(j, plan, exec, sc)
  <2>1. /\ ~Coming(jobEventChan', j, "save") /\ OneSave(jobEventChan', j)
        /\ j \notin exec /\ \A t \in {0, 1} : statusChan[t][j] = << >>
        /\ Coming(jobEventChan', j, "delete") => j \notin etcdJobs' /\ j \in history.asked
    BY <1>1, <1>3 DEF Saved, SameExecution, EventsShrink, OrderedOf
  <2>2. \A u \in {0, 1} : u # Typ[j] => sc[u][j] = << >>
    BY <1>1, <1>3, <2>1, PushedEvent DEF Saved
  <2>3. DOMAIN << >> = {}
    BY EmptySeq
  <2>4. CronExpr[j] # "bad"
    BY <1>3 DEF Saved
  <2> QED BY <1>1, <2>1, <2>2, <2>3, <2>4 DEF OrderedOf
<1>4. CASE Unplanned(j, plan, exec, sc)
  <2>1. /\ ~Coming(jobEventChan', j, "save") /\ OneSave(jobEventChan', j)
        /\ j \in history.asked /\ j \notin etcdJobs' /\ plan[j] = NoPlan
        /\ Pushed(j, sc, 0, Deleted, 0)
    BY <1>1, <1>4 DEF Unplanned, SameExecution, EventsShrink, OrderedOf
  <2>2. /\ sc[1][j] = statusChan[1][j]
        /\ \A i \in DOMAIN sc[0][j] :
              \/ sc[0][j][i].status = Deleted
              \/ i \in DOMAIN statusChan[0][j] /\ sc[0][j][i] = statusChan[0][j][i]
    BY <1>1, <2>1, PushedEvent
  <2> QED BY <1>1, <2>1, <2>2 DEF OrderedOf
<1>5. CASE Killed(j, plan, exec, sc)
  <2>1. \A u \in {0, 1} : u # Typ[j] => sc[u][j] = statusChan[u][j]
    BY <1>1, <1>5, PushedEvent DEF Killed
  <2>2. /\ j \in jobExecutingTable /\ plan[j] = jobPlanTable[j] /\ EventsShrink(j)
        /\ j \in exec
    BY <1>5 DEF Killed, SameExecution
  <2> QED BY <1>1, <2>1, <2>2 DEF EventsShrink, OrderedOf
<1>6. CASE Finished(j, plan, exec, sc)
  <2>1. PICK r \in Result : IF r.err = "occupied" THEN SameChans(j, sc)
                                   ELSE Pushed(j, sc, Typ[j], ResultStatus(r), 1)
    BY <1>6 DEF Finished
  <2>2. ResultStatus(r) \in 0..5
    BY DEF ResultStatus, Failed, Planned, Done
  <2>3. \A u \in {0, 1} : u # Typ[j] => sc[u][j] = statusChan[u][j]
    <3>1. CASE r.err = "occupied"
      BY <2>1, <3>1 DEF SameChans
    <3>2. CASE r.err # "occupied"
      BY <1>1, <2>1, <2>2, <3>2, PushedEvent
    <3> QED BY <3>1, <3>2
  <2>4. /\ j \in jobExecutingTable /\ j \notin exec
        /\ plan[j] = IF Typ[j] = 1 THEN NoPlan ELSE jobPlanTable[j]
        /\ ~Coming(jobEventChan, j, "save")
    BY <1>1, <1>6 DEF Finished, OrderedOf
  <2>5. ~Coming(jobEventChan', j, "save") /\ OneSave(jobEventChan', j)
    <3>1. SavesIn(jobEventChan, j) = {}
      BY <2>4 DEF Coming, SavesIn
    <3>2. ~Coming(jobEventChan', j, "save")
      BY <1>6, <2>4, <3>1 DEF Finished, EventsShrink, Coming, SavesIn
    <3> QED BY <3>2 DEF OneSave, SavesIn, Coming
  <2>6. /\ Coming(jobEventChan', j, "delete") =>
              j \notin etcdJobs' /\ (j \in history.asked \/ plan[j] = NoPlan)
        /\ j \in etcdJobs' => j \in etcdJobs
    BY <1>1, <1>6, <2>4 DEF Finished, EventsShrink, OrderedOf
  <2> QED BY <1>1, <2>3, <2>4, <2>5, <2>6 DEF OrderedOf
<1> QED BY <1>2, <1>3, <1>4, <1>5, <1>6 DEF Handled

LEMMA IterationOrdered == ASSUME IInv, Ordered, Iteration PROVE Ordered'
<1> SUFFICES ASSUME alive', NEW j \in Job
             PROVE  OrderedOf(j, etcdJobs, jobEventChan, jobPlanTable, jobExecutingTable,
                              statusChan)'
  BY DEF Ordered
<1>1. PICK plan \in PlanType, exec \in SUBSET Job, sc \in ChanType :
          TrySchedule(plan, exec, sc) /\ Handled(j, plan, exec, sc)
  BY IterationHandles
<1>2. OrderedOf(j, etcdJobs', jobEventChan', plan, exec, sc) /\ history' = history
  BY <1>1, HandlersKeepOrder, IterationFrame
<1>3. /\ jobPlanTable'[j] # NoPlan <=> plan[j] # NoPlan
      /\ StartsJob(j, plan, exec, sc) \/ LeavesJob(j, plan, exec, sc)
  BY <1>1, IterationEnds DEF IInv
<1>4. Typ[j] \in {0, 1}
  BY Constants
<1>5. CASE StartsJob(j, plan, exec, sc)
  <2>1. /\ plan[j] # NoPlan /\ j \in jobExecutingTable'
        /\ \A u \in {0, 1} : u # Typ[j] => statusChan'[u][j] = sc[u][j]
    BY <1>5 DEF StartsJob, Due
  <2> QED BY <1>2, <1>3, <1>4, <2>1 DEF OrderedOf, OneSave, SavesIn, Coming, EventsIn
<1>6. CASE LeavesJob(j, plan, exec, sc)
  BY <1>2, <1>3, <1>4, <1>6 DEF LeavesJob, OrderedOf, OneSave, SavesIn, Coming, EventsIn
<1> QED BY <1>3, <1>5, <1>6

\* A step that leaves the tables and queues of j.
LEMMA OrderStays ==
    ASSUME NEW j \in Job,
           OrderedOf(j, etcdJobs, jobEventChan, jobPlanTable, jobExecutingTable, statusChan),
           j \in history.asked => j \in history'.asked,
           SavesIn(jobEventChan', j) = SavesIn(jobEventChan, j),
           \A type : Coming(jobEventChan', j, type) => Coming(jobEventChan, j, type),
           j \in etcdJobs' => j \in etcdJobs,
           UNCHANGED <<jobPlanTable, jobExecutingTable>>,
           \A t \in {0, 1} : statusChan'[t][j] = statusChan[t][j]
    PROVE  OrderedOf(j, etcdJobs, jobEventChan, jobPlanTable, jobExecutingTable, statusChan)'
BY Constants DEF OrderedOf, OneSave, Coming, SavesIn, EventsIn

LEMMA SameEvents ==
    ASSUME jobEventChan' = jobEventChan, NEW j
    PROVE  /\ SavesIn(jobEventChan', j) = SavesIn(jobEventChan, j)
           /\ \A type : Coming(jobEventChan', j, type) <=> Coming(jobEventChan, j, type)
BY DEF SavesIn, Coming, EventsIn

\* The event of a watcher is the only new one.
LEMMA WatchComing ==
    ASSUME jobEventChan \in Seq(Event), NEW k \in Job, NEW type \in {"save", "delete"},
           WatchJobs(type, k)
    PROVE  /\ \A tp : Coming(jobEventChan', k, tp) => Coming(jobEventChan, k, tp) \/ tp = type
           /\ EventsIn(jobEventChan, k) = {} => OneSave(jobEventChan', k)
<1> DEFINE e == [type |-> type, job |-> k]
<1>1. e \in Event /\ e.job = k /\ e.type = type
  BY DEF Event
<1>2. jobEventChan' = jobEventChan \/ jobEventChan' = Append(jobEventChan, e)
  BY DEF WatchJobs
<1> HIDE DEF e
<1>3. EventsIn(Append(jobEventChan, e), k) = EventsIn(jobEventChan, k) \cup {Len(jobEventChan) + 1}
  <2>1. EventsIn(Append(jobEventChan, e), k) =
            EventsIn(jobEventChan, k) \cup (IF e.job = k THEN {Len(jobEventChan) + 1} ELSE {})
    BY <1>1, AppendEvents
  <2> QED BY <1>1, <2>1
<1>4. \A i \in EventsIn(jobEventChan, k) : Append(jobEventChan, e)[i] = jobEventChan[i]
  BY <1>1 DEF EventsIn
<1>5. Append(jobEventChan, e)[Len(jobEventChan) + 1] = e
  BY <1>1
<1>6. \A tp : Coming(Append(jobEventChan, e), k, tp) => Coming(jobEventChan, k, tp) \/ tp = type
  BY <1>1, <1>3, <1>4, <1>5 DEF Coming
<1>7. EventsIn(jobEventChan, k) = {} => OneSave(Append(jobEventChan, e), k)
  BY <1>3 DEF OneSave, SavesIn
<1>8. EventsIn(jobEventChan, k) = {} => OneSave(jobEventChan, k)
  BY DEF OneSave, SavesIn
<1> QED BY <1>2, <1>6, <1>7, <1>8

\* The requests, which the watcher tells the loop about.
LEMMA RequestsOrdered ==
    ASSUME IInv, RowsFirst, Ordered, NEW k \in Job, JobAdd(k) \/ JobDelete(k) \/ JobKill(k)
    PROVE  Ordered'
<1>0. /\ UNCHANGED <<alive, jobPlanTable, jobExecutingTable, statusChan>>
      /\ jobEventChan \in Seq(Event) /\ history \in HistoryType
  BY DEF JobAdd, JobDelete, JobKill, IInv, TypeOK, HistoryType
<1> SUFFICES ASSUME alive', NEW j \in Job
             PROVE  OrderedOf(j, etcdJobs, jobEventChan, jobPlanTable, jobExecutingTable,
                              statusChan)'
  BY DEF Ordered
<1>1. OrderedOf(j, etcdJobs, jobEventChan, jobPlanTable, jobExecutingTable, statusChan)
  BY <1>0 DEF Ordered
<1>2. history.asked \subseteq history'.asked
  BY <1>0 DEF JobAdd, JobDelete, JobKill, HistoryType
<1>3. CASE JobAdd(k)
  <2>1. WatchJobs("save", k) /\ Unregistered(k) /\ etcdJobs' = etcdJobs \cup {k}
    BY <1>3 DEF JobAdd, RowsFirst
  <2>2. CASE j # k
    BY <1>0, <1>1, <1>2, <2>1, <2>2, WatchShrinks, OrderStays
  <2>3. CASE j = k
    <3>1. OneSave(jobEventChan', j) /\ ~Coming(jobEventChan', j, "delete")
      BY <1>0, <2>1, <2>3, WatchComing DEF Unregistered, Coming
    <3>2. DOMAIN << >> = {}
      BY EmptySeq
    <3>3. jobPlanTable'[j] = NoPlan /\ j \notin jobExecutingTable'
          /\ statusChan'[0][j] = << >> /\ statusChan'[1][j] = << >>
      BY <1>0, <2>1, <2>3 DEF Unregistered
    <3>4. OneSave(jobEventChan, j)' /\ ~Coming(jobEventChan, j, "delete")'
      BY <3>1 DEF OneSave, Coming, SavesIn, EventsIn
    <3> QED BY <3>2, <3>3, <3>4 DEF OrderedOf
  <2> QED BY <2>2, <2>3
<1>4. CASE JobDelete(k)
  <2>1. EtcdDelete(k) /\ etcdJobs' = etcdJobs \ {k} /\ k \in history'.asked
    BY <1>0, <1>4 DEF JobDelete, EtcdDelete, HistoryType
  <2>2. SavesIn(jobEventChan', j) = SavesIn(jobEventChan, j)
    BY <1>0, <2>1, EtcdDeleteSaves
  <2>3. CASE j # k
    <3>1. \A type : Coming(jobEventChan', j, type) => Coming(jobEventChan, j, type)
      <4>1. CASE WatchJobs("delete", k)
        BY <1>0, <2>3, <4>1, WatchShrinks
      <4>2. CASE jobEventChan' = jobEventChan
        BY <4>2 DEF Coming, EventsIn
      <4> QED BY <2>1, <4>1, <4>2 DEF EtcdDelete
    <3> QED BY <1>0, <1>1, <1>2, <2>1, <2>2, <3>1, OrderStays
  <2>4. CASE j = k
    <3>1. Coming(jobEventChan', j, "save") => Coming(jobEventChan, j, "save")
      BY <2>2 DEF Coming, SavesIn
    <3>2. j \notin etcdJobs' /\ j \in history'.asked
      BY <2>1, <2>4
    <3> QED BY <1>0, <1>1, <2>2, <3>1, <3>2 DEF OrderedOf, OneSave, Coming, SavesIn, EventsIn
  <2> QED BY <2>3, <2>4
<1>5. CASE JobKill(k)
  <2>1. jobEventChan' = jobEventChan /\ etcdJobs' = etcdJobs
    BY <1>5 DEF JobKill
  <2> QED BY <1>0, <1>1, <1>2, <2>1, SameEvents, OrderStays
<1> QED BY <1>3, <1>4, <1>5

LEMMA NextOrdered == IInv /\ RowsFirst /\ Ordered /\ [Next]_vars => Ordered'
<1> SUFFICES ASSUME IInv, RowsFirst, Ordered, [Next]_vars PROVE Ordered'
  OBVIOUS
<1>0. history \in HistoryType /\ statusChan \in ChanType
  BY DEF IInv, TypeOK, HistoryType, ChanType
<1>1. ASSUME UNCHANGED <<etcdJobs, jobEventChan, jobPlanTable, jobExecutingTable, statusChan>>,
             alive' => alive, history.asked \subseteq history'.asked
      PROVE  Ordered'
  <2> SUFFICES ASSUME alive', NEW j \in Job
               PROVE  OrderedOf(j, etcdJobs, jobEventChan, jobPlanTable, jobExecutingTable,
                                statusChan)'
    BY DEF Ordered
  <2>1. OrderedOf(j, etcdJobs, jobEventChan, jobPlanTable, jobExecutingTable, statusChan)
    BY <1>1 DEF Ordered
  <2> QED BY <1>1, <2>1, SameEvents, OrderStays
<1>2. CASE TimerExpires \/ Tick \/ Crash \/ UNCHANGED vars
  BY <1>1, <1>2 DEF TimerExpires, Tick, Crash, vars, worker
<1>3. ASSUME NEW k \in Job, JobAdd(k) \/ JobDelete(k) \/ JobKill(k) PROVE Ordered'
  BY <1>3, RequestsOrdered
<1>4. CASE Iteration
  BY <1>4, IterationOrdered
<1>5. ASSUME NEW k \in Job, NEW o \in LockOutcomes, TryLock(k, o) PROVE Ordered'
  <2>1. history.asked \subseteq history'.asked
    BY <1>0, <1>5 DEF TryLock, HistoryType
  <2> QED BY <1>1, <1>5, <2>1 DEF TryLock
<1>6. ASSUME NEW k \in Job, CommandEnds(k) PROVE Ordered'
  BY <1>1, <1>6 DEF CommandEnds
<1>7. ASSUME NEW k \in Job, NEW t \in {0, 1}, UpdateStatus(t, k) PROVE Ordered'
  <2>1. /\ UNCHANGED <<etcdJobs, jobEventChan, jobPlanTable, jobExecutingTable, alive>>
        /\ statusChan[t][k] \in Seq(StatusEvent) /\ statusChan[t][k] # << >>
        /\ statusChan' = [statusChan EXCEPT ![t][k] = Tail(@)]
    BY <1>0, <1>7 DEF UpdateStatus, ChanType
  <2>2. history.asked \subseteq history'.asked
    BY <1>0, <1>7 DEF UpdateStatus, HistoryType
  <2> SUFFICES ASSUME alive', NEW j \in Job
               PROVE  OrderedOf(j, etcdJobs, jobEventChan, jobPlanTable, jobExecutingTable,
                                statusChan)'
    BY DEF Ordered
  <2>3. OrderedOf(j, etcdJobs, jobEventChan, jobPlanTable, jobExecutingTable, statusChan)
    BY <2>1 DEF Ordered
  <2>4. CASE j # k
    <3>1. \A u \in {0, 1} : statusChan'[u][j] = statusChan[u][j]
      BY <1>0, <2>1, <2>4 DEF ChanType
    <3> QED BY <2>1, <2>2, <2>3, <3>1, SameEvents, OrderStays
  <2>5. CASE j = k
    <3>1. /\ statusChan'[t][j] = Tail(statusChan[t][j])
          /\ \A u \in {0, 1} : u # t => statusChan'[u][j] = statusChan[u][j]
      BY <1>0, <2>1, <2>5 DEF ChanType
    <3>2. ~\A u \in {0, 1} : statusChan[u][j] = << >>
      BY <2>1, <2>5
    <3>3. /\ \A i \in DOMAIN Tail(statusChan[t][j]) :
                i + 1 \in DOMAIN statusChan[t][j]
                /\ Tail(statusChan[t][j])[i] = statusChan[t][j][i + 1]
      BY <2>1, <2>5, TailStatus
    <3>4. Typ[j] = 0 => t = 0
      BY <2>1, <2>3, <2>5 DEF OrderedOf
    <3>5. Typ[j] = 0 => statusChan'[1][j] = << >>
      BY <2>3, <3>1, <3>4 DEF OrderedOf
    <3>6. Typ[j] = 1 =>
            /\ j \in etcdJobs => statusChan'[0][j] = << >>
            /\ \A i \in DOMAIN statusChan'[0][j] : statusChan'[0][j][i].status = Deleted
      <4>1. CASE t = 0
        BY <2>1, <2>3, <2>5, <3>1, <3>3, <4>1 DEF OrderedOf
      <4>2. CASE t = 1
        BY <2>3, <3>1, <4>2 DEF OrderedOf
      <4> QED BY <4>1, <4>2
    <3>7. ~Coming(jobEventChan, j, "save")
      BY <2>3, <3>2 DEF OrderedOf
    <3> QED BY <2>1, <2>2, <2>3, <3>5, <3>6, <3>7
            DEF OrderedOf, OneSave, Coming, SavesIn, EventsIn
  <2> QED BY <2>4, <2>5
<1>8. CASE Restart
  <2>1. /\ \A j : j \notin etcdJobs => EventsIn(jobEventChan', j) = {}
        /\ \A j \in etcdJobs : \E m \in Nat :
              EventsIn(jobEventChan', j) = {m} /\ jobEventChan'[m].type = "save"
    BY <1>8, FreshEvents
  <2>2. \A j \in Job : OneSave(jobEventChan', j) /\ ~Coming(jobEventChan', j, "delete")
    BY <2>1 DEF OneSave, SavesIn, Coming
  <2>3. \A j \in Job : /\ jobPlanTable'[j] = NoPlan /\ j \notin jobExecutingTable'
                       /\ statusChan'[0][j] = << >> /\ statusChan'[1][j] = << >>
    BY <1>8 DEF Restart, NothingQueued
  <2>4. DOMAIN << >> = {}
    BY EmptySeq
  <2>5. \A j \in Job : OneSave(jobEventChan, j)' /\ ~Coming(jobEventChan, j, "delete")'
    BY <2>2 DEF OneSave, Coming, SavesIn, EventsIn
  <2> QED BY <2>3, <2>4, <2>5 DEF Ordered, OrderedOf
<1> QED BY <1>2, <1>3, <1>4, <1>5, <1>6, <1>7, <1>8 DEF Next, Iteration

LEMMA InitOrdered == Init => Ordered
<1> SUFFICES ASSUME Init, NEW j \in Job
             PROVE  OrderedOf(j, etcdJobs, jobEventChan, jobPlanTable, jobExecutingTable,
                              statusChan)
  BY DEF Ordered
<1>1. EventsIn(jobEventChan, j) = {} /\ DOMAIN << >> = {}
  BY EmptySeq DEF Init, EventsIn
<1>2. OneSave(jobEventChan, j) /\ \A type : ~Coming(jobEventChan, j, type)
  BY <1>1 DEF OneSave, SavesIn, Coming
<1> QED BY <1>1, <1>2 DEF Init, NothingQueued, OrderedOf

-----------------------------------------------------------------------------
(* The row of a job once its status events are written *)

\* The results tell what happened to the goroutine.
ReasonsKnown ==
    alive => \A j \in Job :
        /\ "occupied" \in ErrsIn(jobResultChan, j) => j \in history.lost
        /\ "none" \in ErrsIn(jobResultChan, j) \/ goroutine[j] = "exec" => ran[j] >= 1

EndsWith(s, st) == s # << >> /\ s[Len(s)].status = st

\* With the queues sc the row of j may end up with the status st.
MayEnd(j, sc, st) ==
    \/ \E t \in {0, 1} : EndsWith(sc[t][j], st)
    \/ (\A t \in {0, 1} : sc[t][j] = << >>) /\ status[j] = st

RowOf(j, etcd, plan, exec, sc) ==
    \A st : MayEnd(j, sc, st) =>
        /\ st = Running => j \in exec \/ j \in history.lost
        /\ st = Planned => plan[j] # NoPlan \/ j \in history.asked
        /\ st = Done => ran[j] >= 1
        /\ j \in exec => st \in {Running, Failed, Deleted}
        /\ plan[j] # NoPlan /\ j \in etcd /\ j \notin exec /\ j \notin history.lost
              => st \in {Planned, Failed}

RowFollows ==
    alive /\ history.restarts = 0 =>
        \A j \in Job : j \notin history.missed =>
            RowOf(j, etcdJobs, jobPlanTable, jobExecutingTable, statusChan)

\* A result that is appended.
LEMMA AppendErrs ==
    ASSUME NEW s \in Seq(Result), NEW r \in Result, NEW j
    PROVE  ErrsIn(Append(s, r), j) = ErrsIn(s, j) \cup (IF r.job = j THEN {r.err} ELSE {})
<1>1. ResultsIn(Append(s, r), j) = ResultsIn(s, j) \cup (IF r.job = j THEN {Len(s) + 1} ELSE {})
  BY AppendResults
<1>2. /\ DOMAIN s = 1..Len(s) /\ Len(s) \in Nat
      /\ \A i \in 1..Len(s) : Append(s, r)[i] = s[i]
      /\ Append(s, r)[Len(s) + 1] = r
  BY AppendProperties, LenProperties
<1>3. \A i \in ResultsIn(s, j) : Append(s, r)[i] = s[i]
  BY <1>2 DEF ResultsIn
<1>4. CASE r.job = j
  <2>1. ResultsIn(Append(s, r), j) = ResultsIn(s, j) \cup {Len(s) + 1}
    BY <1>1, <1>4
  <2>2. ErrsIn(Append(s, r), j) = {Append(s, r)[i].err : i \in ResultsIn(s, j)} \cup {r.err}
    BY <1>2, <2>1 DEF ErrsIn
  <2>3. {Append(s, r)[i].err : i \in ResultsIn(s, j)} = {s[i].err : i \in ResultsIn(s, j)}
    BY <1>3
  <2> QED BY <1>4, <2>2, <2>3 DEF ErrsIn
<1>5. CASE r.job # j
  <2>1. ResultsIn(Append(s, r), j) = ResultsIn(s, j)
    BY <1>1, <1>5
  <2>2. {Append(s, r)[i].err : i \in ResultsIn(s, j)} = {s[i].err : i \in ResultsIn(s, j)}
    BY <1>3
  <2> QED BY <1>5, <2>1, <2>2 DEF ErrsIn
<1> QED BY <1>4, <1>5

\* An iteration adds no result, and lets no goroutine at the command begin.
LEMMA IterationErrs ==
    ASSUME IInv, Iteration, alive', NEW j \in Job
    PROVE  /\ ErrsIn(jobResultChan', j) = ErrsIn(jobResultChan, j) \/ ErrsIn(jobResultChan', j) = {}
           /\ goroutine'[j] = "exec" => goroutine[j] = "exec"
<1>1. PICK plan \in PlanType, exec \in SUBSET Job, sc \in ChanType :
          TrySchedule(plan, exec, sc) /\ Handled(j, plan, exec, sc)
  BY IterationHandles
<1>2. StartsJob(j, plan, exec, sc) \/ LeavesJob(j, plan, exec, sc)
  BY <1>1, IterationEnds DEF IInv
<1>3. goroutine'[j] = "exec" => goroutine[j] = "exec"
  BY <1>2 DEF StartsJob, LeavesJob
<1>4. ErrsIn(jobResultChan', j) = ErrsIn(jobResultChan, j) \/ ErrsIn(jobResultChan', j) = {}
  BY <1>1 DEF Handled, Passed, Saved, Unplanned, Killed, Finished, SameExecution
<1> QED BY <1>3, <1>4

LEMMA NextReasonsKnown == IInv /\ ReasonsKnown /\ [Next]_vars => ReasonsKnown'
<1> SUFFICES ASSUME IInv, ReasonsKnown, [Next]_vars, alive', NEW j \in Job
             PROVE  /\ "occupied" \in ErrsIn(jobResultChan', j) => j \in history'.lost
                    /\ "none" \in ErrsIn(jobResultChan', j) \/ goroutine'[j] = "exec"
                           => ran'[j] >= 1
  BY DEF ReasonsKnown, ErrsIn, ResultsIn
<1>0. /\ jobResultChan \in Seq(Result) /\ ran \in [Job -> Nat] /\ history \in HistoryType
      /\ goroutine \in [Job -> {"none", "sleep", "exec"}]
      /\ ~Restart => alive
  BY DEF IInv, TypeOK, HistoryType, Next, vars, OnJobEvent, OnTimer, OnJobResult, TimerExpires,
         Tick, Crash, JobAdd, JobDelete, JobKill, OnKill, TryLock, CommandEnds, UpdateStatus
<1>k. /\ j \in history.lost => j \in history'.lost
      /\ ran[j] >= 1 => ran'[j] >= 1
  BY ExcusesStay
<1>1. ASSUME alive,
             ErrsIn(jobResultChan', j) = ErrsIn(jobResultChan, j) \/ ErrsIn(jobResultChan', j) = {},
             goroutine'[j] = "exec" => goroutine[j] = "exec"
      PROVE  /\ "occupied" \in ErrsIn(jobResultChan', j) => j \in history'.lost
             /\ "none" \in ErrsIn(jobResultChan', j) \/ goroutine'[j] = "exec" => ran'[j] >= 1
  BY <1>1, <1>k DEF ReasonsKnown
<1>2. ASSUME alive, UNCHANGED <<jobResultChan, goroutine>>
      PROVE  /\ "occupied" \in ErrsIn(jobResultChan', j) => j \in history'.lost
             /\ "none" \in ErrsIn(jobResultChan', j) \/ goroutine'[j] = "exec" => ran'[j] >= 1
  <2>1. ErrsIn(jobResultChan', j) = ErrsIn(jobResultChan, j)
    BY <1>2 DEF ErrsIn, ResultsIn
  <2> QED BY <1>1, <1>2, <2>1
<1>3. CASE TimerExpires \/ Tick \/ Crash \/ UNCHANGED vars
  BY <1>0, <1>2, <1>3 DEF TimerExpires, Tick, Crash, vars, worker
<1>4. ASSUME NEW k \in Job, JobAdd(k) \/ JobDelete(k) \/ JobKill(k)
      PROVE  alive /\ UNCHANGED <<jobResultChan, goroutine>>
  BY <1>4 DEF JobAdd, JobDelete, JobKill
<1>5. CASE Iteration
  BY <1>1, <1>5, IterationErrs, IterationFrame
<1>6. ASSUME alive, NEW k \in Job, NEW err \in {"none", "occupied", "error"}, PushJobResult(k, err)
      PROVE  /\ goroutine'[j] = "exec" => goroutine[j] = "exec"
             /\ ErrsIn(jobResultChan', j) =
                    ErrsIn(jobResultChan, j) \cup (IF k = j THEN {err} ELSE {})
  <2> DEFINE r == [job |-> k, err |-> err]
  <2>1. r \in Result /\ r.job = k /\ r.err = err
    BY DEF Result
  <2>2. jobResultChan' = Append(jobResultChan, r) /\ goroutine' = [goroutine EXCEPT ![k] = "none"]
    BY <1>6 DEF PushJobResult
  <2> HIDE DEF r
  <2>3. goroutine'[j] = "exec" => goroutine[j] = "exec"
    BY <1>0, <2>2
  <2> QED BY <1>0, <2>1, <2>2, <2>3, AppendErrs
<1>7. ASSUME NEW k \in Job, NEW o \in LockOutcomes, TryLock(k, o)
      PROVE  /\ "occupied" \in ErrsIn(jobResultChan', j) => j \in history'.lost
             /\ "none" \in ErrsIn(jobResultChan', j) \/ goroutine'[j] = "exec" => ran'[j] >= 1
  <2>0. alive
    BY <1>7 DEF TryLock
  <2>1. CASE /\ goroutine' = [goroutine EXCEPT ![k] = "exec"] /\ ran' = [ran EXCEPT ![k] = @ + 1]
             /\ UNCHANGED jobResultChan
    <3>1. ErrsIn(jobResultChan', j) = ErrsIn(jobResultChan, j)
      BY <2>1 DEF ErrsIn, ResultsIn
    <3>2. CASE j # k
      <4>1. goroutine'[j] = goroutine[j]
        BY <1>0, <2>1, <3>2
      <4> QED BY <1>1, <2>0, <3>1, <4>1
    <3>3. CASE j = k
      <4>1. ran'[j] = ran[j] + 1 /\ ran[j] \in Nat
        BY <1>0, <2>1, <3>3
      <4>2. ran'[j] >= 1
        BY <4>1
      <4> QED BY <1>k, <2>0, <3>1, <4>2 DEF ReasonsKnown
    <3> QED BY <3>2, <3>3
  <2>2. CASE PushJobResult(k, IF o = "occupied" THEN "occupied" ELSE "error")
    <3>1. (IF o = "occupied" THEN "occupied" ELSE "error") \in {"none", "occupied", "error"}
      OBVIOUS
    <3>2. /\ goroutine'[j] = "exec" => goroutine[j] = "exec"
          /\ ErrsIn(jobResultChan', j) = ErrsIn(jobResultChan, j) \cup
                 (IF k = j THEN {IF o = "occupied" THEN "occupied" ELSE "error"} ELSE {})
      BY <1>6, <2>0, <2>2, <3>1
    <3>3. o = "occupied" => k \in history'.lost
      BY <1>0, <1>7 DEF TryLock, HistoryType
    <3> QED BY <1>k, <2>0, <3>2, <3>3 DEF ReasonsKnown
  <2> QED BY <1>7, <2>1, <2>2 DEF TryLock
<1>8. ASSUME NEW k \in Job, CommandEnds(k)
      PROVE  /\ "occupied" \in ErrsIn(jobResultChan', j) => j \in history'.lost
             /\ "none" \in ErrsIn(jobResultChan', j) \/ goroutine'[j] = "exec" => ran'[j] >= 1
  <2>1. alive /\ goroutine[k] = "exec"
    BY <1>8 DEF CommandEnds
  <2>2. PICK err \in {"none", "error"} : PushJobResult(k, err)
    BY <1>8 DEF CommandEnds
  <2>3. /\ goroutine'[j] = "exec" => goroutine[j] = "exec"
        /\ ErrsIn(jobResultChan', j) =
               ErrsIn(jobResultChan, j) \cup (IF k = j THEN {err} ELSE {})
    BY <1>6, <2>1, <2>2
  <2> QED BY <1>k, <2>1, <2>3 DEF ReasonsKnown
<1>9. ASSUME NEW k \in Job, NEW t \in {0, 1}, UpdateStatus(t, k)
      PROVE  alive /\ UNCHANGED <<jobResultChan, goroutine>>
  BY <1>9 DEF UpdateStatus
<1>10. CASE Restart
  <2>1. jobResultChan' = << >> /\ goroutine'[j] = "none" /\ DOMAIN << >> = {}
    BY <1>10, EmptySeq DEF Restart
  <2>2. ErrsIn(jobResultChan', j) = {}
    BY <2>1 DEF ErrsIn, ResultsIn
  <2> QED BY <2>1, <2>2
<1> QED BY <1>2, <1>3, <1>4, <1>5, <1>7, <1>8, <1>9, <1>10 DEF Next, Iteration

\* The handlers keep the row in line with the tables.
LEMMA HandlersKeepRow ==
    ASSUME IInv, Ordered, ReasonsKnown, Iteration, NEW j \in Job, NEW plan, NEW exec, NEW sc,
           RowOf(j, etcdJobs, jobPlanTable, jobExecutingTable, statusChan),
           Handled(j, plan, exec, sc)
    PROVE  RowOf(j, etcdJobs', plan, exec, sc)
<1>1. /\ alive /\ statusChan \in ChanType /\ Typ[j] \in {0, 1}
      /\ OrderedOf(j, etcdJobs, jobEventChan, jobPlanTable, jobExecutingTable, statusChan)
      /\ "occupied" \in ErrsIn(jobResultChan, j) => j \in history.lost
      /\ "none" \in ErrsIn(jobResultChan, j) => ran[j] >= 1
  BY IterationFrame, LoopTypes, Constants DEF Ordered, ReasonsKnown
<1> USE DEF Waiting, Planned, Running, Failed, Done, Deleted
<1>2. ASSUME NEW t \in {0, 1}, NEW st \in 0..5, NEW add \in 0..1, Pushed(j, sc, t, st, add),
             NEW x, MayEnd(j, sc, x)
      PROVE  \/ x = st
             \/ \E u \in {0, 1} : u # t /\ EndsWith(statusChan[u][j], x)
  <2>1. /\ sc[t][j] # << >> /\ sc[t][j][Len(sc[t][j])].status = st
        /\ \A u \in {0, 1} : u # t => sc[u][j] = statusChan[u][j]
    BY <1>1, <1>2, PushedEvent
  <2>2. PICK u \in {0, 1} : EndsWith(sc[u][j], x)
    BY <1>2, <2>1 DEF MayEnd
  <2>3. CASE u = t
    BY <2>1, <2>2, <2>3 DEF EndsWith
  <2>4. CASE u # t
    BY <2>1, <2>2, <2>4
  <2> QED BY <2>3, <2>4
\* Whatever is at the end of the other queue of a job is its deletion.
<1>3. ASSUME NEW u \in {0, 1}, u # Typ[j], NEW x, EndsWith(statusChan[u][j], x)
      PROVE  x = Deleted /\ Typ[j] = 1 /\ j \notin etcdJobs
  <2>1. Typ[j] = 1 /\ u = 0 /\ statusChan[0][j] # << >>
    BY <1>1, <1>3 DEF EndsWith, OrderedOf
  <2>2. statusChan[0][j] \in Seq(StatusEvent)
    BY <1>1 DEF ChanType
  <2>3. Len(statusChan[0][j]) \in DOMAIN statusChan[0][j]
    BY <2>1, <2>2, LenProperties, EmptySeq
  <2> QED BY <1>1, <1>3, <2>1, <2>3 DEF EndsWith, OrderedOf
<1>4. CASE Passed(j, plan, exec, sc)
  <2>1. \A x : MayEnd(j, sc, x) => MayEnd(j, statusChan, x)
    BY <1>4 DEF Passed, SameChans, MayEnd
  <2> QED BY <1>4, <2>1 DEF Passed, SameExecution, EventsShrink, RowOf
<1>5. CASE Saved(j, plan, exec, sc)
  <2>1. /\ Pushed(j, sc, Typ[j], Planned, 0) /\ j \notin exec
        /\ \A u \in {0, 1} : statusChan[u][j] = << >>
        /\ plan[j] = BuildJobSchedulePlan(j)
    BY <1>1, <1>5 DEF Saved, SameExecution, OrderedOf
  <2>2. plan[j] # NoPlan
    <3>1. BuildJobSchedulePlan(j) \in Nat
      BY NowType, ExprNextType DEF BuildJobSchedulePlan, IInv
    <3> QED BY <2>1, <3>1
  <2>3. \A x : MayEnd(j, sc, x) => x = Planned
    BY <1>1, <1>2, <2>1 DEF EndsWith
  <2> QED BY <2>1, <2>2, <2>3 DEF RowOf
<1>6. CASE Unplanned(j, plan, exec, sc)
  <2>1. /\ Pushed(j, sc, 0, Deleted, 0) /\ plan[j] = NoPlan /\ j \in history.asked
        /\ j \in exec <=> j \in jobExecutingTable
    BY <1>1, <1>6 DEF Unplanned, SameExecution, OrderedOf
  <2>2. \A x : MayEnd(j, sc, x) => x = Deleted \/ MayEnd(j, statusChan, x)
    BY <1>1, <1>2, <2>1 DEF MayEnd
  <2> QED BY <2>1, <2>2 DEF RowOf
<1>7. CASE Killed(j, plan, exec, sc)
  <2>1. /\ Pushed(j, sc, Typ[j], Failed, 1) /\ plan[j] = jobPlanTable[j] /\ j \in exec
    BY <1>7 DEF Killed, SameExecution
  <2>2. \A x : MayEnd(j, sc, x) => x \in {Failed, Deleted}
    BY <1>1, <1>2, <1>3, <2>1
  <2> QED BY <2>1, <2>2 DEF RowOf
<1>8. CASE Finished(j, plan, exec, sc)
  <2>1. PICK r \in Result :
            /\ r.job = j /\ ErrsIn(jobResultChan, j) = {r.err}
            /\ IF r.err = "occupied" THEN SameChans(j, sc)
                                     ELSE Pushed(j, sc, Typ[j], ResultStatus(r), 1)
    BY <1>8 DEF Finished
  <2>2. /\ j \in jobExecutingTable /\ j \notin exec
        /\ plan[j] = IF Typ[j] = 1 THEN NoPlan ELSE jobPlanTable[j]
    BY <1>8 DEF Finished
  <2>3. CASE r.err = "occupied"
    <3>1. j \in history.lost
      BY <1>1, <2>1, <2>3
    <3>2. \A x : MayEnd(j, sc, x) => x \in {Running, Failed, Deleted}
      <4>1. \A x : MayEnd(j, sc, x) => MayEnd(j, statusChan, x)
        BY <2>1, <2>3 DEF SameChans, MayEnd
      <4> QED BY <2>2, <4>1 DEF RowOf
    <3> QED BY <2>2, <3>1, <3>2 DEF RowOf
  <2>4. CASE r.err # "occupied"
    <3>1. ResultStatus(r) \in 0..5 /\ 1 \in 0..1 /\ Pushed(j, sc, Typ[j], ResultStatus(r), 1)
      BY <2>1, <2>4 DEF ResultStatus
    <3>2. \A x : MayEnd(j, sc, x) => x = ResultStatus(r) \/ (x = Deleted /\ Typ[j] = 1)
      BY <1>1, <1>2, <1>3, <3>1
    <3>3. r.err \in {"none", "error"}
      BY <2>4 DEF Result
    <3>4. \/ ResultStatus(r) = Failed
          \/ ResultStatus(r) = Planned /\ Typ[j] = 0
          \/ ResultStatus(r) = Done /\ Typ[j] = 1 /\ ran[j] >= 1
      BY <1>1, <2>1, <3>3 DEF ResultStatus
    <3>5. Typ[j] = 0 => plan[j] # NoPlan \/ j \in history.asked
      BY <1>1, <2>2 DEF OrderedOf
    <3> QED BY <2>2, <3>2, <3>4, <3>5 DEF RowOf
  <2> QED BY <2>3, <2>4
<1> QED BY <1>4, <1>5, <1>6, <1>7, <1>8 DEF Handled

\* A start is the last event of its queue.
LEMMA IterationKeepsRow ==
    ASSUME IInv, Ordered, ReasonsKnown, Iteration, alive', NEW j \in Job,
           RowOf(j, etcdJobs, jobPlanTable, jobExecutingTable, statusChan)
    PROVE  RowOf(j, etcdJobs, jobPlanTable, jobExecutingTable, statusChan)'
<1>1. PICK plan \in PlanType, exec \in SUBSET Job, sc \in ChanType :
          TrySchedule(plan, exec, sc) /\ Handled(j, plan, exec, sc)
  BY IterationHandles
<1>2. RowOf(j, etcdJobs', plan, exec, sc) /\ UNCHANGED <<history, status, ran>>
  BY <1>1, HandlersKeepRow, IterationFrame
<1>3. /\ jobPlanTable'[j] # NoPlan <=> plan[j] # NoPlan
      /\ StartsJob(j, plan, exec, sc) \/ LeavesJob(j, plan, exec, sc)
  BY <1>1, IterationEnds DEF IInv
<1>4. Typ[j] \in {0, 1}
  BY Constants
<1>5. CASE StartsJob(j, plan, exec, sc)
  <2>1. OrderedOf(j, etcdJobs', jobEventChan', plan, exec, sc)
    BY <1>1, HandlersKeepOrder
  <2>2. /\ j \in jobExecutingTable' /\ sc[Typ[j]][j] \in Seq(StatusEvent)
        /\ statusChan'[Typ[j]][j] = Append(sc[Typ[j]][j], [status |-> Running, add |-> 0])
        /\ \A u \in {0, 1} : u # Typ[j] => statusChan'[u][j] = sc[u][j]
    BY <1>4, <1>5 DEF StartsJob, ChanType
  <2>3. /\ statusChan'[Typ[j]][j] # << >>
        /\ statusChan'[Typ[j]][j][Len(statusChan'[Typ[j]][j])].status = Running
    <3>1. [status |-> Running, add |-> 0] \in StatusEvent
      BY DEF StatusEvent, Running
    <3> QED BY <2>2, <3>1, AppendStatus
  <2>4. ASSUME NEW x, MayEnd(j, statusChan, x)' PROVE x \in {Running, Deleted}
    <3>1. PICK u \in {0, 1} : EndsWith(statusChan'[u][j], x)
      BY <1>4, <2>3, <2>4 DEF MayEnd, EndsWith
    <3>2. CASE u = Typ[j]
      BY <2>3, <3>1, <3>2 DEF EndsWith
    <3>3. CASE u # Typ[j]
      <4>1. Typ[j] = 1 /\ u = 0 /\ sc[0][j] # << >> /\ EndsWith(sc[0][j], x)
        BY <1>4, <2>1, <2>2, <3>1, <3>3 DEF EndsWith, OrderedOf
      <4>2. sc[0][j] \in Seq(StatusEvent)
        BY DEF ChanType
      <4>3. Len(sc[0][j]) \in DOMAIN sc[0][j]
        BY <4>1, <4>2, LenProperties, EmptySeq
      <4> QED BY <2>1, <4>1, <4>3 DEF EndsWith, OrderedOf
    <3> QED BY <3>2, <3>3
  <2> QED BY <2>2, <2>4 DEF RowOf, Planned, Running, Failed, Done, Deleted
<1>6. CASE LeavesJob(j, plan, exec, sc)
  <2>1. /\ j \in jobExecutingTable' <=> j \in exec
        /\ \A u \in {0, 1} : statusChan'[u][j] = sc[u][j]
    BY <1>6 DEF LeavesJob
  <2>2. \A x : MayEnd(j, statusChan, x)' => MayEnd(j, sc, x)
    BY <1>2, <2>1 DEF MayEnd
  <2> QED BY <1>2, <1>3, <2>1, <2>2 DEF RowOf
<1> QED BY <1>3, <1>5, <1>6

\* A step that adds nothing to what the row may end up with.
LEMMA RowStays ==
    ASSUME NEW j \in Job, RowOf(j, etcdJobs, jobPlanTable, jobExecutingTable, statusChan),
           \A x : MayEnd(j, statusChan, x)' => MayEnd(j, statusChan, x),
           UNCHANGED <<jobPlanTable, jobExecutingTable>>,
           j \in etcdJobs' => j \in etcdJobs,
           j \in history.asked => j \in history'.asked,
           j \in history.lost => j \in history'.lost,
           ran[j] >= 1 => ran'[j] >= 1
    PROVE  RowOf(j, etcdJobs, jobPlanTable, jobExecutingTable, statusChan)'
BY DEF RowOf

LEMMA NextRowFollows ==
    IInv /\ RowsFirst /\ Ordered /\ ReasonsKnown /\ RowFollows /\ [Next]_vars => RowFollows'
<1> SUFFICES ASSUME IInv, RowsFirst, Ordered, ReasonsKnown, RowFollows, [Next]_vars,
                    alive', history'.restarts = 0, NEW j \in Job, j \notin history'.missed
             PROVE  RowOf(j, etcdJobs, jobPlanTable, jobExecutingTable, statusChan)'
  BY DEF RowFollows
<1>0. ~Restart /\ history.restarts = 0
  BY RestartsCount
<1>1. /\ alive /\ j \notin history.missed
      /\ history \in HistoryType /\ statusChan \in ChanType
      /\ status \in [Job -> {NoRow} \cup 0..5]
  <2>1. alive
    BY <1>0 DEF Next, vars, OnJobEvent, OnTimer, OnJobResult, TimerExpires,
           Tick, Crash, JobAdd, JobDelete, JobKill, OnKill, TryLock, CommandEnds, UpdateStatus
  <2>2. history \in HistoryType /\ statusChan \in ChanType /\ status \in [Job -> {NoRow} \cup 0..5]
    BY DEF IInv, TypeOK, HistoryType, ChanType
  <2>3. history.missed \subseteq history'.missed
    BY HistoryGrows
  <2> QED BY <2>1, <2>2, <2>3
<1>2. RowOf(j, etcdJobs, jobPlanTable, jobExecutingTable, statusChan)
  BY <1>0, <1>1 DEF RowFollows
<1>k. /\ j \in history.asked => j \in history'.asked
      /\ j \in history.lost => j \in history'.lost
      /\ ran[j] >= 1 => ran'[j] >= 1
  BY ExcusesStay
<1>3. ASSUME UNCHANGED <<etcdJobs, jobPlanTable, jobExecutingTable, statusChan, status>>
      PROVE  RowOf(j, etcdJobs, jobPlanTable, jobExecutingTable, statusChan)'
  <2>1. \A x : MayEnd(j, statusChan, x)' => MayEnd(j, statusChan, x)
    BY <1>3 DEF MayEnd
  <2> QED BY <1>2, <1>3, <1>k, <2>1, RowStays
<1>4. CASE TimerExpires \/ Tick \/ Crash \/ UNCHANGED vars
  BY <1>3, <1>4 DEF TimerExpires, Tick, Crash, vars, worker
<1>5. CASE Iteration
  BY <1>2, <1>5, IterationKeepsRow
<1>6. ASSUME NEW k \in Job, JobAdd(k)
      PROVE  RowOf(j, etcdJobs, jobPlanTable, jobExecutingTable, statusChan)'
  <2>1. /\ UNCHANGED <<jobPlanTable, jobExecutingTable, statusChan>>
        /\ status' = [status EXCEPT ![k] = Waiting] /\ etcdJobs' = etcdJobs \cup {k}
        /\ Unregistered(k)
    BY <1>6 DEF JobAdd, RowsFirst
  <2>2. CASE j # k
    <3>1. status'[j] = status[j] /\ (j \in etcdJobs' => j \in etcdJobs)
      BY <1>1, <2>1, <2>2
    <3>2. \A x : MayEnd(j, statusChan, x)' => MayEnd(j, statusChan, x)
      BY <2>1, <3>1 DEF MayEnd
    <3> QED BY <1>2, <1>k, <2>1, <3>1, <3>2, RowStays
  <2>3. CASE j = k
    <3>1. \A x : MayEnd(j, statusChan, x)' => x = Waiting
      BY <1>1, <2>1, <2>3 DEF MayEnd, EndsWith, Unregistered
    <3>2. jobPlanTable'[j] = NoPlan /\ j \notin jobExecutingTable'
      BY <2>1, <2>3 DEF Unregistered
    <3> QED BY <3>1, <3>2 DEF RowOf, Waiting, Running, Planned, Done
  <2> QED BY <2>2, <2>3
<1>7. ASSUME NEW k \in Job, JobDelete(k)
      PROVE  RowOf(j, etcdJobs, jobPlanTable, jobExecutingTable, statusChan)'
  <2>1. /\ UNCHANGED <<jobPlanTable, jobExecutingTable, statusChan>>
        /\ etcdJobs' = etcdJobs \ {k}
        /\ \/ status' = status
           \/ status' = [status EXCEPT ![k] = Deleted]
    BY <1>7 DEF JobDelete, EtcdDelete
  <2>2. CASE j # k
    <3>1. status'[j] = status[j] /\ (j \in etcdJobs' => j \in etcdJobs)
      BY <1>1, <2>1, <2>2
    <3>2. \A x : MayEnd(j, statusChan, x)' => MayEnd(j, statusChan, x)
      BY <2>1, <3>1 DEF MayEnd
    <3> QED BY <1>2, <1>k, <2>1, <3>1, <3>2, RowStays
  <2>3. CASE j = k
    <3>1. status'[j] \in {status[j], Deleted} /\ j \notin etcdJobs'
      BY <1>1, <2>1, <2>3
    <3>2. \A x : MayEnd(j, statusChan, x)' => MayEnd(j, statusChan, x) \/ x = Deleted
      BY <2>1, <3>1 DEF MayEnd
    <3> QED BY <1>2, <1>k, <2>1, <3>1, <3>2
            DEF RowOf, Running, Planned, Done, Failed, Deleted
  <2> QED BY <2>2, <2>3
<1>8. ASSUME NEW k \in Job, JobKill(k)
      PROVE  RowOf(j, etcdJobs, jobPlanTable, jobExecutingTable, statusChan)'
  BY <1>3, <1>8 DEF JobKill
<1>9. ASSUME NEW k \in Job, NEW o \in LockOutcomes, TryLock(k, o)
      PROVE  RowOf(j, etcdJobs, jobPlanTable, jobExecutingTable, statusChan)'
  BY <1>3, <1>9 DEF TryLock
<1>10. ASSUME NEW k \in Job, CommandEnds(k)
       PROVE  RowOf(j, etcdJobs, jobPlanTable, jobExecutingTable, statusChan)'
  BY <1>3, <1>10 DEF CommandEnds
<1>11. ASSUME NEW k \in Job, NEW t \in {0, 1}, UpdateStatus(t, k)
       PROVE  RowOf(j, etcdJobs, jobPlanTable, jobExecutingTable, statusChan)'
  <2>1. /\ UNCHANGED <<etcdJobs, jobPlanTable, jobExecutingTable>>
        /\ statusChan[t][k] \in Seq(StatusEvent) /\ statusChan[t][k] # << >>
        /\ statusChan' = [statusChan EXCEPT ![t][k] = Tail(@)]
        /\ \/ status' = [status EXCEPT ![k] = Head(statusChan[t][k]).status]
           \/ status' = status /\ k \in history'.missed
    BY <1>1, <1>11 DEF UpdateStatus, ChanType, HistoryType
  <2>2. \A x : MayEnd(j, statusChan, x)' => MayEnd(j, statusChan, x)
    <3>1. CASE j # k
      <4>1. status'[j] = status[j] /\ \A u \in {0, 1} : statusChan'[u][j] = statusChan[u][j]
        BY <1>1, <2>1, <3>1 DEF ChanType
      <4> QED BY <4>1 DEF MayEnd
    <3>2. CASE j = k
      <4>1. /\ status'[j] = Head(statusChan[t][j]).status
            /\ statusChan'[t][j] = Tail(statusChan[t][j])
            /\ \A u \in {0, 1} : u # t => statusChan'[u][j] = statusChan[u][j]
        BY <1>1, <2>1, <3>2 DEF ChanType
      <4>2. /\ Tail(statusChan[t][j]) # << >> =>
                  Tail(statusChan[t][j])[Len(Tail(statusChan[t][j]))]
                      = statusChan[t][j][Len(statusChan[t][j])]
            /\ Tail(statusChan[t][j]) = << >> =>
                  Head(statusChan[t][j]) = statusChan[t][j][Len(statusChan[t][j])]
        BY <2>1, <3>2, TailStatus
      <4>3. \A x : EndsWith(statusChan'[t][j], x) => EndsWith(statusChan[t][j], x)
        BY <2>1, <3>2, <4>1, <4>2 DEF EndsWith
      <4>4. statusChan'[t][j] = << >> => EndsWith(statusChan[t][j], status'[j])
        BY <2>1, <3>2, <4>1, <4>2 DEF EndsWith
      <4>5. ASSUME NEW x, MayEnd(j, statusChan, x)' PROVE MayEnd(j, statusChan, x)
        <5>1. CASE \E u \in {0, 1} : EndsWith(statusChan'[u][j], x)
          BY <4>1, <4>3, <5>1 DEF MayEnd
        <5>2. CASE (\A u \in {0, 1} : statusChan'[u][j] = << >>) /\ status'[j] = x
          BY <4>4, <5>2 DEF MayEnd
        <5> QED BY <4>5, <5>1, <5>2 DEF MayEnd
      <4> QED BY <4>5
    <3> QED BY <3>1, <3>2
  <2> QED BY <1>2, <1>k, <2>1, <2>2, RowStays
<1> QED BY <1>0, <1>4, <1>5, <1>6, <1>7, <1>8, <1>9, <1>10, <1>11 DEF Next, Iteration

\* When nothing that concerns a job is under way its row tells planned jobs
\* from those that run, but for the two exceptions of the code.
THEOREM StatusSettlesHolds == Spec => []StatusSettles
<1>1. Init => ReasonsKnown /\ RowFollows
  <2> SUFFICES ASSUME Init PROVE ReasonsKnown /\ RowFollows
    OBVIOUS
  <2>1. \A j \in Job : ErrsIn(jobResultChan, j) = {} /\ goroutine[j] = "none"
    <3>1. jobResultChan = << >> /\ DOMAIN << >> = {}
      BY EmptySeq DEF Init
    <3> QED BY <3>1 DEF Init, ErrsIn, ResultsIn
  <2>2. ASSUME NEW j \in Job
        PROVE  RowOf(j, etcdJobs, jobPlanTable, jobExecutingTable, statusChan)
    <3>1. /\ \A t \in {0, 1} : statusChan[t][j] = << >>
          /\ status[j] = NoRow /\ jobPlanTable[j] = NoPlan /\ j \notin jobExecutingTable
      BY DEF Init, NothingQueued
    <3>2. \A x : MayEnd(j, statusChan, x) => x = NoRow
      BY <3>1 DEF MayEnd, EndsWith
    <3> QED BY <3>1, <3>2 DEF RowOf, Running, Planned, Done
  <2> QED BY <2>1, <2>2 DEF ReasonsKnown, RowFollows
<1>2. ASSUME IInv, AllFollow, Ordered, RowFollows PROVE StatusSettles
  <2> SUFFICES ASSUME NEW j \in Job, Settled(j), history.restarts = 0, j \notin history.missed
               PROVE  /\ status[j] = Running => j \in history.lost
                      /\ status[j] = Planned => InPlan(j) \/ j \in history.asked
                      /\ InPlan(j) /\ j \notin history.lost => status[j] \in {Planned, Failed}
                      /\ status[j] = Done => ran[j] >= 1
    BY DEF StatusSettles
  <2>1. /\ alive /\ goroutine[j] = "none" /\ ResultsIn(jobResultChan, j) = {}
        /\ EventsIn(jobEventChan, j) = {} /\ \A t \in {0, 1} : statusChan[t][j] = << >>
    BY DEF Settled, ResultsOf, ResultsIn, EventsOf, EventsIn
  <2>2. j \notin jobExecutingTable
    BY <1>2, <2>1, LoopTypes DEF Accounted
  <2>3. RowOf(j, etcdJobs, jobPlanTable, jobExecutingTable, statusChan)
    BY <1>2, <2>1 DEF RowFollows
  <2>4. MayEnd(j, statusChan, status[j])
    BY <2>1 DEF MayEnd
  <2>5. InPlan(j) => j \in etcdJobs
    <3>1. jobPlanTable[j] # NoPlan => CronExpr[j] # "bad"
      BY <1>2, <2>1 DEF Ordered, OrderedOf
    <3>2. Follows(j, etcdJobs, jobEventChan, jobPlanTable)
      BY <1>2, <2>1 DEF AllFollow
    <3> QED BY <2>1, <3>1, <3>2 DEF Follows, PlannedAfter, InPlan
  <2> QED BY <2>2, <2>3, <2>4, <2>5 DEF RowOf, InPlan
<1>3. Init => AllFollow
  BY InitFollows
<1> QED BY <1>1, <1>2, <1>3, InitIInv, NextIInv, InitRowsFirst, NextRowsFirst, NextAllFollow,
           InitOrdered, NextOrdered, NextReasonsKnown, NextRowFollows, PTL DEF Spec

-----------------------------------------------------------------------------
(* The times of a cron job *)

LEMMA DivGrows ==
    ASSUME NEW p \in Nat \ {0}, NEW a \in Nat, NEW b \in Nat, a <= b
    PROVE  a \div p \in Nat /\ a \div p <= b \div p
OBVIOUS

LEMMA DivOfMultiple ==
    ASSUME NEW p \in Nat \ {0}, NEW q \in Nat
    PROVE  (q * p) \div p = q
OBVIOUS

\* The times the expression of j names until t, from the first instant on.
Named(j, t) == t \div Period[j] - 1 \div Period[j]

\* The commands that were started, and the one about to be.
Begun(j) == ran[j] + (IF goroutine[j] = "sleep" THEN 1 ELSE 0)

Scheduled(j) == Typ[j] = 0 /\ CronExpr[j] = "valid"

\* No more starts than times, and a time is left for the one that is planned.
Timely ==
    history.restarts = 0 => \A j \in Job : Scheduled(j) =>
        /\ Begun(j) <= Named(j, now)
        /\ alive /\ jobPlanTable[j] # NoPlan => Begun(j) + 1 <= Named(j, jobPlanTable[j])

LEMMA NamedGrows ==
    ASSUME NEW j \in Job, NEW a \in Nat, NEW b \in Nat, a <= b
    PROVE  Named(j, a) \in Int /\ Named(j, b) \in Int /\ Named(j, a) <= Named(j, b)
<1>1. Period[j] \in Nat \ {0}
  BY Constants
<1>2. a \div Period[j] \in Nat /\ b \div Period[j] \in Nat /\ 1 \div Period[j] \in Nat
  BY <1>1, DivGrows
<1>3. a \div Period[j] <= b \div Period[j]
  BY <1>1, DivGrows
<1> QED BY <1>2, <1>3 DEF Named

\* The next time of an expression is one more.
LEMMA NextIsNamed ==
    ASSUME IInv, NEW j \in Job, Scheduled(j)
    PROVE  ExprNext(j) \in Nat /\ Named(j, ExprNext(j)) = Named(j, now) + 1
<1>1. Period[j] \in Nat \ {0} /\ now \in Nat
  BY Constants, NowType DEF IInv
<1>2. now \div Period[j] \in Nat /\ 1 \div Period[j] \in Nat
  BY <1>1, DivGrows
<1> DEFINE q == now \div Period[j] + 1
<1>3. q \in Nat
  BY <1>2
<1>4. ExprNext(j) = q * Period[j]
  BY DEF ExprNext, Scheduled
<1> HIDE DEF q
<1>5. ExprNext(j) \div Period[j] = q /\ ExprNext(j) \in Nat
  BY <1>1, <1>3, <1>4, DivOfMultiple
<1>6. Named(j, ExprNext(j)) = q - 1 \div Period[j]
  BY <1>5 DEF Named
<1> QED BY <1>2, <1>5, <1>6 DEF Named, q

\* An iteration starts j only for the time it was planned for.
LEMMA IterationTimely == ASSUME IInv, Timely, Iteration PROVE Timely'
<1> SUFFICES ASSUME history'.restarts = 0, NEW j \in Job, Scheduled(j)
             PROVE  /\ Begun(j)' <= Named(j, now')
                    /\ alive' /\ jobPlanTable'[j] # NoPlan =>
                           Begun(j)' + 1 <= Named(j, jobPlanTable'[j])
  BY DEF Timely, Scheduled, Named
<1>1. PICK plan \in PlanType, exec \in SUBSET Job, sc \in ChanType :
          TrySchedule(plan, exec, sc) /\ Handled(j, plan, exec, sc)
  BY IterationHandles
<1>2. alive /\ UNCHANGED <<now, ran, history>> /\ now \in Nat
  BY IterationFrame, NowType DEF IInv
<1>3. /\ Begun(j) <= Named(j, now)
      /\ jobPlanTable[j] # NoPlan => Begun(j) + 1 <= Named(j, jobPlanTable[j])
      /\ Begun(j) \in Nat
  BY <1>2 DEF Timely, Begun, IInv, TypeOK
<1>4. ExprNext(j) \in Nat /\ Named(j, ExprNext(j)) = Named(j, now) + 1 /\ Named(j, now) \in Int
  BY <1>2, NextIsNamed, NamedGrows
<1>5. plan[j] # NoPlan => Begun(j) + 1 <= Named(j, plan[j]) /\ plan[j] \in Nat
  <2>1. \/ plan[j] \in {jobPlanTable[j], NoPlan}
        \/ plan[j] = BuildJobSchedulePlan(j)
    BY <1>1 DEF Handled, Passed, Saved, Unplanned, Killed, Finished
  <2>2. BuildJobSchedulePlan(j) = ExprNext(j)
    BY DEF BuildJobSchedulePlan, Scheduled
  <2>3. Begun(j) + 1 <= Named(j, ExprNext(j))
    BY <1>3, <1>4
  <2>4. plan[j] \in {NoPlan} \cup Nat
    BY DEF PlanType
  <2> QED BY <1>3, <2>1, <2>2, <2>3, <2>4
<1>6. Begun(j)' = Begun(j) \/ (Due(plan, j) /\ Begun(j)' \in {Begun(j), Begun(j) + 1})
  <2>1. \/ goroutine'[j] = goroutine[j]
        \/ goroutine'[j] = "sleep" /\ j \in Starts(plan, exec)
    BY <1>1 DEF TrySchedule
  <2>2. CASE goroutine'[j] = goroutine[j]
    BY <1>2, <2>2 DEF Begun
  <2>3. CASE goroutine'[j] = "sleep" /\ j \in Starts(plan, exec)
    <3>1. Due(plan, j) /\ ran'[j] = ran[j] /\ ran[j] \in Nat
      BY <1>2, <2>3 DEF Starts, IInv, TypeOK
    <3>2. Begun(j)' = ran[j] + 1
      BY <2>3, <3>1 DEF Begun
    <3>3. Begun(j) = ran[j] \/ Begun(j) = ran[j] + 1
      BY <3>1 DEF Begun
    <3> QED BY <3>1, <3>2, <3>3
  <2> QED BY <2>1, <2>2, <2>3
<1>7. Begun(j)' <= Named(j, now)
  <2>1. CASE Begun(j)' = Begun(j)
    BY <1>3, <2>1
  <2>2. CASE Due(plan, j) /\ Begun(j)' = Begun(j) + 1
    <3>1. plan[j] \in Nat /\ plan[j] <= now /\ Begun(j) + 1 <= Named(j, plan[j])
      BY <1>5, <2>2 DEF Due
    <3>2. Named(j, plan[j]) <= Named(j, now) /\ Named(j, plan[j]) \in Int
      BY <1>2, <3>1, NamedGrows
    <3> QED BY <1>3, <1>4, <2>2, <3>1, <3>2
  <2> QED BY <1>6, <2>1, <2>2
<1>8. ASSUME alive', jobPlanTable'[j] # NoPlan
      PROVE  Begun(j)' + 1 <= Named(j, jobPlanTable'[j])
  <2>1. jobPlanTable'[j] = Replan(plan)[j] /\ plan[j] # NoPlan
    BY <1>1, <1>8, IterationEnds DEF IInv
  <2>2. jobPlanTable'[j] = IF Due(plan, j) THEN ExprNext(j) ELSE plan[j]
    BY <2>1 DEF Replan, Scheduled
  <2>3. CASE Due(plan, j)
    <3>1. Named(j, jobPlanTable'[j]) = Named(j, now) + 1
      BY <1>4, <2>2, <2>3
    <3>2. Begun(j)' \in Nat
      BY <1>3, <1>6
    <3> QED BY <1>4, <1>7, <3>1, <3>2
  <2>4. CASE ~Due(plan, j)
    BY <1>5, <1>6, <2>1, <2>2, <2>4
  <2> QED BY <2>3, <2>4
<1> QED BY <1>2, <1>7, <1>8

LEMMA NextTimely == IInv /\ Timely /\ [Next]_vars => Timely'
<1> SUFFICES ASSUME IInv, Timely, [Next]_vars PROVE Timely'
  OBVIOUS
<1>0. /\ ran \in [Job -> Nat] /\ goroutine \in [Job -> {"none", "sleep", "exec"}]
      /\ now \in Nat /\ now' \in Nat
  BY NowType, NextIInv DEF IInv, TypeOK
\* Nothing is started, and no plan is made.
<1>1. ASSUME UNCHANGED jobPlanTable, alive' => alive, now <= now',
             history'.restarts = history.restarts,
             \A j \in Job : Begun(j)' <= Begun(j)
      PROVE  Timely'
  <2> SUFFICES ASSUME history'.restarts = 0, NEW j \in Job, Scheduled(j)
               PROVE  /\ Begun(j)' <= Named(j, now')
                      /\ alive' /\ jobPlanTable'[j] # NoPlan =>
                             Begun(j)' + 1 <= Named(j, jobPlanTable'[j])
    BY DEF Timely, Scheduled, Named
  <2>1. /\ Begun(j) <= Named(j, now)
        /\ alive' /\ jobPlanTable[j] # NoPlan => Begun(j) + 1 <= Named(j, jobPlanTable[j])
    BY <1>1 DEF Timely
  <2>2. /\ Named(j, now) <= Named(j, now') /\ Named(j, now) \in Int /\ Named(j, now') \in Int
        /\ jobPlanTable[j] # NoPlan => Named(j, jobPlanTable[j]) \in Int
    <3>1. jobPlanTable[j] # NoPlan => jobPlanTable[j] \in Nat
      BY DEF IInv, TypeOK
    <3> QED BY <1>0, <1>1, <3>1, NamedGrows
  <2>3. Begun(j) \in Nat /\ Begun(j)' \in Int /\ Begun(j)' <= Begun(j)
    <3>1. ran'[j] \in Nat
      BY NextIInv DEF IInv, TypeOK
    <3> QED BY <1>0, <1>1, <3>1 DEF Begun
  <2> QED BY <1>1, <2>1, <2>2, <2>3
<1>2. ASSUME UNCHANGED <<ran, goroutine>> PROVE \A j \in Job : Begun(j)' <= Begun(j)
  <2> TAKE j \in Job
  <2>1. Begun(j)' = Begun(j) /\ Begun(j) \in Nat
    BY <1>0, <1>2 DEF Begun
  <2> QED BY <2>1
<1>3. CASE TimerExpires \/ Crash \/ UNCHANGED vars
  <2>1. /\ UNCHANGED <<jobPlanTable, history, now, ran, goroutine>> /\ (alive' => alive)
    BY <1>3 DEF TimerExpires, Crash, vars, worker
  <2> QED BY <1>0, <1>1, <1>2, <2>1
<1>4. CASE Tick
  <2>1. /\ UNCHANGED <<jobPlanTable, history, ran, goroutine, alive>> /\ now' = now + 1
    BY <1>4 DEF Tick, worker
  <2> QED BY <1>0, <1>1, <1>2, <2>1
<1>5. CASE Iteration
  BY <1>5, IterationTimely
<1>6. ASSUME NEW k \in Job, JobAdd(k) \/ JobDelete(k) \/ JobKill(k) PROVE Timely'
  <2>1. /\ UNCHANGED <<jobPlanTable, now, ran, goroutine, alive>>
        /\ history'.restarts = history.restarts
    <3>1. history \in HistoryType
      BY DEF IInv, TypeOK, HistoryType
    <3> QED BY <1>6, <3>1 DEF JobAdd, JobDelete, JobKill, HistoryType
  <2> QED BY <1>0, <1>1, <1>2, <2>1
<1>7. ASSUME NEW k \in Job, NEW err, PushJobResult(k, err), UNCHANGED ran
      PROVE  \A j \in Job : Begun(j)' <= Begun(j)
  <2> TAKE j \in Job
  <2>1. goroutine'[j] = goroutine[j] \/ goroutine'[j] = "none"
    BY <1>0, <1>7 DEF PushJobResult
  <2>2. ran'[j] = ran[j] /\ ran[j] \in Nat
    BY <1>0, <1>7
  <2> QED BY <2>1, <2>2 DEF Begun
<1>8. ASSUME NEW k \in Job, NEW o \in LockOutcomes, TryLock(k, o) PROVE Timely'
  <2>1. UNCHANGED <<jobPlanTable, now, alive>> /\ history'.restarts = history.restarts
    <3>1. history \in HistoryType
      BY DEF IInv, TypeOK, HistoryType
    <3> QED BY <1>8, <3>1 DEF TryLock, HistoryType
  <2>2. \A j \in Job : Begun(j)' <= Begun(j)
    <3>1. CASE /\ goroutine' = [goroutine EXCEPT ![k] = "exec"]
               /\ ran' = [ran EXCEPT ![k] = @ + 1]
      <4> TAKE j \in Job
      <4>1. CASE j = k
        <5>1. Begun(j) = ran[j] + 1 /\ ran[j] \in Nat
          BY <1>0, <1>8, <4>1 DEF TryLock, Begun
        <5>2. Begun(j)' = ran[j] + 1
          BY <1>0, <3>1, <4>1 DEF Begun
        <5> QED BY <5>1, <5>2
      <4>2. CASE j # k
        <5>1. goroutine'[j] = goroutine[j] /\ ran'[j] = ran[j] /\ ran[j] \in Nat
          BY <1>0, <3>1, <4>2
        <5> QED BY <5>1 DEF Begun
      <4> QED BY <4>1, <4>2
    <3>2. CASE UNCHANGED ran /\ \E err : PushJobResult(k, err)
      BY <1>7, <3>2
    <3> QED BY <1>8, <3>1, <3>2 DEF TryLock
  <2> QED BY <1>0, <1>1, <2>1, <2>2
<1>9. ASSUME NEW k \in Job, CommandEnds(k) PROVE Timely'
  <2>1. UNCHANGED <<jobPlanTable, history, now, alive, ran>> /\ \E err : PushJobResult(k, err)
    BY <1>9 DEF CommandEnds
  <2> QED BY <1>0, <1>1, <1>7, <2>1
<1>10. ASSUME NEW k \in Job, NEW t \in {0, 1}, UpdateStatus(t, k) PROVE Timely'
  <2>1. UNCHANGED <<jobPlanTable, now, ran, goroutine, alive>>
        /\ history'.restarts = history.restarts
    <3>1. history \in HistoryType
      BY DEF IInv, TypeOK, HistoryType
    <3> QED BY <1>10, <3>1 DEF UpdateStatus, HistoryType
  <2> QED BY <1>0, <1>1, <1>2, <2>1
<1>11. CASE Restart
  <2>1. history'.restarts = history.restarts + 1 /\ history.restarts \in Nat
    BY <1>11, RestartsCount
  <2> QED BY <2>1 DEF Timely
<1> QED BY <1>3, <1>4, <1>5, <1>6, <1>8, <1>9, <1>10, <1>11 DEF Next, Iteration

\* A cron job is not started more often than its expression says, until the
\* worker is restarted.
THEOREM RunsWithinScheduleHolds == Spec => []RunsWithinSchedule
<1>1. Init => Timely
  <2> SUFFICES ASSUME Init, NEW j \in Job
               PROVE  Begun(j) <= Named(j, now) /\ jobPlanTable[j] = NoPlan
    BY DEF Timely
  <2>1. Begun(j) = 0 /\ now = 1 /\ jobPlanTable[j] = NoPlan
    BY DEF Init, Begun
  <2>2. 1 \div Period[j] \in Nat
    BY Constants, DivGrows
  <2> QED BY <2>1, <2>2 DEF Named
<1>2. IInv /\ Timely => RunsWithinSchedule
  <2> SUFFICES ASSUME IInv, Timely, NEW j \in Job, Scheduled(j), history.restarts = 0
               PROVE  ran[j] <= Named(j, now)
    BY DEF RunsWithinSchedule, Scheduled, Named
  <2>1. ran[j] <= Begun(j) /\ ran[j] \in Nat /\ Begun(j) \in Nat
    BY DEF Begun, IInv, TypeOK
  <2>2. Begun(j) <= Named(j, now) /\ Named(j, now) \in Int
    BY NowType, NamedGrows DEF Timely, IInv
  <2> QED BY <2>1, <2>2
<1> QED BY <1>1, <1>2, InitIInv, NextIInv, NextTimely, PTL DEF Spec

-----------------------------------------------------------------------------
(* The count of the commands *)

\* The events of a queue that count a command.
AddsIn(s) == {i \in DOMAIN s : s[i].add = 1}

Adds(s) == Cardinality(AddsIn(s))

LEMMA AddsFinite ==
    ASSUME NEW s \in Seq(StatusEvent)
    PROVE  IsFiniteSet(AddsIn(s)) /\ Adds(s) \in Nat
<1>1. DOMAIN s = 1..Len(s) /\ Len(s) \in Nat
  BY LenProperties
<1>2. IsFiniteSet(1..Len(s)) /\ AddsIn(s) \in SUBSET (1..Len(s))
  BY <1>1, FS_Interval DEF AddsIn
<1>3. IsFiniteSet(AddsIn(s))
  BY <1>2, FS_Subset
<1> QED BY <1>3, FS_CardinalityType DEF Adds

LEMMA AppendAdds ==
    ASSUME NEW s \in Seq(StatusEvent), NEW e \in StatusEvent
    PROVE  Adds(Append(s, e)) = Adds(s) + e.add
<1>1. /\ DOMAIN s = 1..Len(s) /\ Len(s) \in Nat
      /\ DOMAIN Append(s, e) = 1..(Len(s) + 1)
      /\ \A i \in 1..Len(s) : Append(s, e)[i] = s[i]
      /\ Append(s, e)[Len(s) + 1] = e
  BY AppendProperties, LenProperties
<1>2. IsFiniteSet(AddsIn(s)) /\ Adds(s) \in Nat /\ e.add \in 0..1
  BY AddsFinite DEF StatusEvent
<1>3. CASE e.add = 1
  <2>1. AddsIn(Append(s, e)) = AddsIn(s) \cup {Len(s) + 1} /\ Len(s) + 1 \notin AddsIn(s)
    BY <1>1, <1>3 DEF AddsIn
  <2> QED BY <1>2, <1>3, <2>1, FS_AddElement DEF Adds
<1>4. CASE e.add = 0
  <2>1. AddsIn(Append(s, e)) = AddsIn(s)
    BY <1>1, <1>4 DEF AddsIn
  <2> QED BY <1>2, <1>4, <2>1 DEF Adds
<1> QED BY <1>2, <1>3, <1>4

LEMMA TailAdds ==
    ASSUME NEW s \in Seq(StatusEvent), s # << >>
    PROVE  Adds(Tail(s)) + Head(s).add = Adds(s) /\ Head(s) \in StatusEvent
<1>1. /\ DOMAIN s = 1..Len(s) /\ Len(s) \in Nat \ {0} /\ Head(s) = s[1] /\ s[1] \in StatusEvent
      /\ Tail(s) \in Seq(StatusEvent)
      /\ DOMAIN Tail(s) = 1..(Len(s) - 1)
      /\ \A i \in 1..(Len(s) - 1) : Tail(s)[i] = s[i + 1]
  BY HeadTailProperties, LenProperties, EmptySeq
<1> DEFINE S == AddsIn(Tail(s))
<1> DEFINE T == AddsIn(s) \ {1}
<1> DEFINE f == [i \in S |-> i + 1]
<1>2. \A i \in S : i \in Nat /\ i + 1 \in T
  BY <1>1 DEF AddsIn
<1>3. \A k \in T : k - 1 \in S /\ (k - 1) + 1 = k
  <2> TAKE k \in T
  <2>1. k \in 2..Len(s) /\ s[k].add = 1
    BY <1>1 DEF AddsIn
  <2>2. k - 1 \in 1..(Len(s) - 1) /\ (k - 1) + 1 = k
    BY <1>1, <2>1
  <2> QED BY <1>1, <2>1, <2>2 DEF AddsIn
<1>4. IsFiniteSet(S) /\ IsFiniteSet(AddsIn(s)) /\ Adds(s) \in Nat
  BY <1>1, AddsFinite
<1> HIDE DEF S, T
<1>5. f \in Surjection(S, T) /\ f \in Injection(S, T)
  BY <1>2, <1>3 DEF Surjection, Injection, IsInjective
<1> HIDE DEF f
<1>6. Cardinality(T) = Cardinality(S)
  BY <1>4, <1>5, FS_Surjection
<1>7. Cardinality(T) = IF 1 \in AddsIn(s) THEN Adds(s) - 1 ELSE Adds(s)
  BY <1>4, FS_RemoveElement DEF T, Adds
<1>8. 1 \in AddsIn(s) <=> Head(s).add = 1
  BY <1>1 DEF AddsIn
<1>9. Head(s).add \in 0..1
  BY <1>1 DEF StatusEvent
<1> QED BY <1>1, <1>4, <1>6, <1>7, <1>8, <1>9 DEF S, Adds

\* Without a kill no execution is cancelled.
KillsQuiet ==
    alive /\ history.kills = 0 => cancelled = {} /\ \A j \in Job : killEvents[j] = 0

LEMMA NextKillsQuiet == IInv /\ KillsQuiet /\ [Next]_vars => KillsQuiet'
<1> SUFFICES ASSUME IInv, KillsQuiet, [Next]_vars, alive', history'.kills = 0
             PROVE  cancelled' = {} /\ \A j \in Job : killEvents'[j] = 0
  BY DEF KillsQuiet
<1>1. history.kills = 0 /\ history \in HistoryType
  <2>1. history.kills \in Nat /\ history \in HistoryType
    BY DEF IInv, TypeOK, HistoryType
  <2> QED BY <2>1, HistoryGrows
<1>2. CASE Restart
  BY <1>2 DEF Restart
<1>3. alive => cancelled = {} /\ \A j \in Job : killEvents[j] = 0
  BY <1>1 DEF KillsQuiet
<1>4. ASSUME alive, NEW k \in Job, OnKill(k) PROVE FALSE
  BY <1>3, <1>4 DEF OnKill
<1>5. ASSUME alive, OnJobResult
      PROVE  cancelled' = {} /\ \A j \in Job : killEvents'[j] = 0
  <2>1. killEvents' = killEvents /\ cancelled' \subseteq cancelled
    BY <1>5 DEF OnJobResult
  <2> QED BY <1>3, <1>5, <2>1
<1>6. ASSUME NEW k \in Job, JobKill(k) PROVE FALSE
  BY <1>1, <1>6 DEF JobKill, HistoryType
<1>7. ASSUME alive, UNCHANGED <<cancelled, killEvents>>
      PROVE  cancelled' = {} /\ \A j \in Job : killEvents'[j] = 0
  BY <1>3, <1>7
<1> QED BY <1>2, <1>4, <1>5, <1>6, <1>7
        DEF Next, vars, worker, OnJobEvent, OnTimer, OnJobResult, TimerExpires, Tick, Crash,
            OnKill, JobAdd, JobDelete, TryLock, CommandEnds, UpdateStatus

\* A result of j tells of a command that is not counted yet.
Reported(j) == \E x \in ErrsIn(jobResultChan, j) : x # "occupied"

Uncounted(j) == IF Reported(j) \/ goroutine[j] = "exec" THEN 1 ELSE 0

\* num, with what is on its way to it.
Total(j) == num[j] + Adds(statusChan[0][j]) + Uncounted(j)

\* No command is forgotten, ...
Covered ==
    alive /\ history.restarts = 0 =>
        \A j \in Job : Typ[j] = 0 /\ j \notin history.missed => Total(j) >= ran[j]

\* ... and without kills, and failing grants, nothing else is counted.
Tally ==
    alive /\ history.restarts = 0 /\ history.kills = 0 =>
        \A j \in Job : Typ[j] = 0 /\ j \notin history.missed => Total(j) = ran[j]

\* Handler and tail of an iteration keep the sum, but for a kill.
LEMMA IterationTallies ==
    ASSUME IInv, Iteration, alive', NEW j \in Job, Typ[j] = 0
    PROVE  LET before == Adds(statusChan[0][j]) + Uncounted(j)
               after  == Adds(statusChan'[0][j]) + Uncounted(j)'
           IN  after = before \/ (killEvents[j] # 0 /\ after = before + 1)
<1>1. PICK plan \in PlanType, exec \in SUBSET Job, sc \in ChanType :
          TrySchedule(plan, exec, sc) /\ Handled(j, plan, exec, sc)
  BY IterationHandles
<1>2. /\ alive /\ statusChan[0][j] \in Seq(StatusEvent) /\ sc[0][j] \in Seq(StatusEvent)
      /\ Accounted(j, jobExecutingTable, jobResultChan)
  BY IterationFrame, LoopTypes DEF ChanType
<1>3. Adds(statusChan[0][j]) \in Nat /\ Adds(sc[0][j]) \in Nat
  BY <1>2, AddsFinite
<1>4. ASSUME NEW st \in 0..5, NEW add \in 0..1, Pushed(j, sc, 0, st, add)
      PROVE  Adds(sc[0][j]) = Adds(statusChan[0][j]) + add
  <2>1. [status |-> st, add |-> add] \in StatusEvent
    BY DEF StatusEvent
  <2>2. sc[0][j] = Append(statusChan[0][j], [status |-> st, add |-> add])
    BY <1>4 DEF Pushed
  <2> QED BY <1>2, <2>1, <2>2, AppendAdds
\* The events of the tail count nothing.
<1>5. Adds(statusChan'[0][j]) = Adds(sc[0][j]) /\ (goroutine'[j] = "exec" <=> goroutine[j] = "exec")
  <2>1. StartsJob(j, plan, exec, sc) \/ LeavesJob(j, plan, exec, sc)
    BY <1>1, IterationEnds DEF IInv
  <2>2. CASE StartsJob(j, plan, exec, sc)
    <3>1. [status |-> Running, add |-> 0] \in StatusEvent
      BY DEF StatusEvent, Running
    <3>2. goroutine[j] = "none"
      <4>1. j \notin exec
        BY <2>2 DEF StartsJob
      <4> QED BY <1>1, <1>2, <4>1
              DEF Handled, Passed, Saved, Unplanned, Killed, Finished, SameExecution, Accounted
    <3>3. statusChan'[0][j] = Append(sc[0][j], [status |-> Running, add |-> 0])
      BY <2>2 DEF StartsJob
    <3>4. Adds(statusChan'[0][j]) = Adds(sc[0][j]) + 0
      BY <1>2, <3>1, <3>3, AppendAdds
    <3> QED BY <1>3, <2>2, <3>2, <3>4 DEF StartsJob
  <2>3. CASE LeavesJob(j, plan, exec, sc)
    BY <2>3 DEF LeavesJob
  <2> QED BY <2>1, <2>2, <2>3
<1>6. Reported(j)' <=> \E x \in ErrsIn(jobResultChan', j) : x # "occupied"
  BY DEF Reported, ErrsIn, ResultsIn
<1>7. CASE /\ ErrsIn(jobResultChan', j) = ErrsIn(jobResultChan, j)
           /\ Adds(sc[0][j]) = Adds(statusChan[0][j])
  BY <1>5, <1>6, <1>7 DEF Uncounted, Reported
<1>8. CASE Passed(j, plan, exec, sc)
  BY <1>7, <1>8 DEF Passed, SameChans, SameExecution
<1>9. CASE Saved(j, plan, exec, sc) \/ Unplanned(j, plan, exec, sc)
  <2>1. /\ Pushed(j, sc, 0, Planned, 0) \/ Pushed(j, sc, 0, Deleted, 0)
        /\ ErrsIn(jobResultChan', j) = ErrsIn(jobResultChan, j)
    BY <1>9 DEF Saved, Unplanned, SameExecution
  <2>2. Adds(sc[0][j]) = Adds(statusChan[0][j]) + 0
    BY <1>4, <2>1 DEF Planned, Deleted
  <2> QED BY <1>3, <1>7, <2>1, <2>2
<1>10. CASE Killed(j, plan, exec, sc)
  <2>1. /\ killEvents[j] > 0 /\ Pushed(j, sc, 0, Failed, 1)
        /\ ErrsIn(jobResultChan', j) = ErrsIn(jobResultChan, j)
    BY <1>10 DEF Killed, SameExecution
  <2>2. Adds(sc[0][j]) = Adds(statusChan[0][j]) + 1
    BY <1>4, <2>1 DEF Failed
  <2>3. Uncounted(j)' = Uncounted(j) /\ Uncounted(j) \in {0, 1}
    BY <1>5, <1>6, <2>1 DEF Uncounted, Reported
  <2>4. killEvents[j] # 0
    BY <2>1 DEF IInv, TypeOK
  <2> QED BY <1>3, <1>5, <2>2, <2>3, <2>4
<1>11. CASE Finished(j, plan, exec, sc)
  <2>1. PICK r \in Result :
            /\ ErrsIn(jobResultChan, j) = {r.err} /\ ErrsIn(jobResultChan', j) = {}
            /\ IF r.err = "occupied" THEN SameChans(j, sc)
                                     ELSE Pushed(j, sc, 0, ResultStatus(r), 1)
    BY <1>11 DEF Finished
  <2>2. goroutine[j] = "none" /\ ~Reported(j)' /\ (Reported(j) <=> r.err # "occupied")
    BY <1>6, <1>11, <2>1 DEF Finished, Reported
  <2>3. Uncounted(j)' = 0
    BY <1>5, <2>2 DEF Uncounted
  <2>4. CASE r.err = "occupied"
    <3>1. sc[0][j] = statusChan[0][j] /\ Uncounted(j) = 0
      BY <2>1, <2>2, <2>4 DEF SameChans, Uncounted
    <3> QED BY <1>5, <2>3, <3>1
  <2>5. CASE r.err # "occupied"
    <3>1. ResultStatus(r) \in 0..5
      BY DEF ResultStatus, Failed, Planned, Done
    <3>2. Adds(sc[0][j]) = Adds(statusChan[0][j]) + 1
      BY <1>4, <2>1, <2>5, <3>1
    <3>3. Uncounted(j) = 1
      BY <2>2, <2>5 DEF Uncounted
    <3> QED BY <1>3, <1>5, <2>3, <3>2, <3>3
  <2> QED BY <2>4, <2>5
<1> QED BY <1>1, <1>8, <1>9, <1>10, <1>11 DEF Handled

\* A kill that meets the execution, and an error in place of its command, add
\* to the sum; everything else leaves it with the commands.
Undisturbed(j) == killEvents[j] = 0 /\ j \notin cancelled /\ "error" \notin LockOutcomes

LEMMA StepTallies ==
    ASSUME IInv, Ordered, [Next]_vars, alive', history'.restarts = 0,
           NEW j \in Job, Typ[j] = 0, j \notin history'.missed
    PROVE  /\ alive /\ history.restarts = 0 /\ j \notin history.missed
           /\ Total(j) \in Nat /\ Total(j)' \in Nat
           /\ ran[j] \in Nat /\ ran'[j] \in {ran[j], ran[j] + 1}
           /\ Total(j)' >= Total(j) + (ran'[j] - ran[j])
           /\ Undisturbed(j) => Total(j)' = Total(j) + (ran'[j] - ran[j])
<1> DEFINE Kept == Total(j)' = Total(j) + (ran'[j] - ran[j])
<1> DEFINE More == ~Undisturbed(j) /\ Total(j)' = Total(j) + 1 + (ran'[j] - ran[j])
<1>0. ~Restart /\ history.restarts = 0 /\ j \notin history.missed
  BY RestartsCount, HistoryGrows
<1>1. alive
  BY <1>0 DEF Next, vars, OnJobEvent, OnTimer, OnJobResult, TimerExpires,
         Tick, Crash, JobAdd, JobDelete, JobKill, OnKill, TryLock, CommandEnds, UpdateStatus
<1>2. /\ Total(j) = num[j] + Adds(statusChan[0][j]) + Uncounted(j)
      /\ Total(j)' = num'[j] + Adds(statusChan'[0][j]) + Uncounted(j)'
  BY DEF Total, Adds, AddsIn
<1>3. /\ num \in [Job -> Nat] /\ ran \in [Job -> Nat] /\ jobResultChan \in Seq(Result)
      /\ goroutine \in [Job -> {"none", "sleep", "exec"}]
      /\ statusChan \in ChanType /\ statusChan[0][j] \in Seq(StatusEvent)
      /\ history \in HistoryType
      /\ Adds(statusChan[0][j]) \in Nat /\ Uncounted(j) \in {0, 1}
      /\ \A k \in Job : Accounted(k, jobExecutingTable, jobResultChan)
      /\ statusChan[1][j] = << >>
  <2>1. statusChan \in ChanType
    BY <1>1, LoopTypes
  <2>2. statusChan[0][j] \in Seq(StatusEvent)
    BY <2>1 DEF ChanType
  <2>3. Adds(statusChan[0][j]) \in Nat /\ Uncounted(j) \in {0, 1}
    BY <2>2, AddsFinite DEF Uncounted
  <2>4. statusChan[1][j] = << >>
    BY <1>1 DEF Ordered, OrderedOf
  <2>5. \A k \in Job : Accounted(k, jobExecutingTable, jobResultChan)
    BY <1>0, <1>1, LoopTypes
  <2> QED BY <2>1, <2>2, <2>3, <2>4, <2>5 DEF IInv, TypeOK, HistoryType
<1> HIDE DEF Total, Undisturbed
<1>4. ASSUME UNCHANGED <<num, statusChan, jobResultChan, goroutine, ran>>
      PROVE  Kept \/ More
  <2>1. Uncounted(j)' = Uncounted(j)
    BY <1>4 DEF Uncounted, Reported, ErrsIn, ResultsIn
  <2> QED BY <1>2, <1>3, <1>4, <2>1
<1>5. ASSUME TimerExpires \/ Tick \/ Crash \/ UNCHANGED vars PROVE Kept \/ More
  BY <1>4, <1>5 DEF TimerExpires, Tick, Crash, vars, worker
<1>6. ASSUME NEW k \in Job, JobAdd(k) \/ JobDelete(k) \/ JobKill(k)
      PROVE  Kept \/ More
  BY <1>4, <1>6 DEF JobAdd, JobDelete, JobKill
<1>7. ASSUME Iteration PROVE Kept \/ More
  <2>1. UNCHANGED <<num, ran>>
    BY <1>7, IterationFrame
  <2>2. \/ Adds(statusChan'[0][j]) + Uncounted(j)' = Adds(statusChan[0][j]) + Uncounted(j)
        \/ /\ ~Undisturbed(j)
           /\ Adds(statusChan'[0][j]) + Uncounted(j)' = Adds(statusChan[0][j]) + Uncounted(j) + 1
    BY <1>7, IterationTallies DEF Undisturbed
  <2>3. /\ num[j] \in Nat /\ Adds(statusChan'[0][j]) \in Nat /\ Uncounted(j)' \in {0, 1}
    <3>1. statusChan'[0][j] \in Seq(StatusEvent)
      BY NextIInv DEF IInv, TypeOK
    <3> QED BY <1>3, <3>1, AddsFinite DEF Uncounted
  <2>4. num'[j] = num[j] /\ ran'[j] = ran[j] /\ ran[j] \in Nat
    BY <1>3, <2>1
  <2>5. CASE Adds(statusChan'[0][j]) + Uncounted(j)' = Adds(statusChan[0][j]) + Uncounted(j)
    <3>1. Total(j)' = Total(j)
      BY <1>2, <1>3, <2>3, <2>4, <2>5
    <3> QED BY <1>2, <1>3, <2>4, <3>1
  <2>6. CASE /\ ~Undisturbed(j)
             /\ Adds(statusChan'[0][j]) + Uncounted(j)' = Adds(statusChan[0][j]) + Uncounted(j) + 1
    <3>1. Total(j)' = Total(j) + 1
      BY <1>2, <1>3, <2>3, <2>4, <2>6
    <3> QED BY <1>2, <1>3, <2>4, <2>6, <3>1
  <2> QED BY <2>2, <2>5, <2>6
<1>8. ASSUME NEW k \in Job, NEW err \in {"none", "occupied", "error"}, PushJobResult(k, err)
      PROVE  /\ j # k => goroutine'[j] = goroutine[j] /\ (Reported(j)' <=> Reported(j))
             /\ j = k => /\ goroutine'[j] = "none"
                         /\ Reported(j)' <=> Reported(j) \/ err # "occupied"
  <2> DEFINE r == [job |-> k, err |-> err]
  <2>1. r \in Result /\ r.job = k /\ r.err = err
    BY DEF Result
  <2>2. jobResultChan' = Append(jobResultChan, r) /\ goroutine' = [goroutine EXCEPT ![k] = "none"]
    BY <1>8 DEF PushJobResult
  <2> HIDE DEF r
  <2>3. ErrsIn(jobResultChan', j) = ErrsIn(jobResultChan, j) \cup (IF k = j THEN {err} ELSE {})
    BY <1>3, <2>1, <2>2, AppendErrs
  <2>4. Reported(j)' <=> \E x \in ErrsIn(jobResultChan', j) : x # "occupied"
    BY DEF Reported, ErrsIn, ResultsIn
  <2> QED BY <1>3, <2>2, <2>3, <2>4 DEF Reported
\* A goroutine has no result in the queue.
<1>9. goroutine[j] # "none" => ~Reported(j)
  <2>1. goroutine[j] # "none" => ResultsIn(jobResultChan, j) = {}
    BY <1>3 DEF Accounted
  <2> QED BY <2>1 DEF Reported, ErrsIn
<1>10. ASSUME NEW k \in Job, NEW o \in LockOutcomes, TryLock(k, o)
       PROVE  Kept \/ More
  <2>1. goroutine[k] = "sleep" /\ UNCHANGED <<num, statusChan>>
    BY <1>10 DEF TryLock
  <2>2. CASE /\ goroutine' = [goroutine EXCEPT ![k] = "exec"] /\ ran' = [ran EXCEPT ![k] = @ + 1]
             /\ UNCHANGED jobResultChan
    <3>1. Reported(j)' <=> Reported(j)
      BY <2>2 DEF Reported, ErrsIn, ResultsIn
    <3>2. CASE j # k
      <4>1. goroutine'[j] = goroutine[j] /\ ran'[j] = ran[j]
        BY <1>3, <2>2, <3>2
      <4>2. Uncounted(j)' = Uncounted(j)
        BY <3>1, <4>1 DEF Uncounted
      <4> QED BY <1>2, <1>3, <2>1, <4>1, <4>2
    <3>3. CASE j = k
      <4>1. goroutine'[j] = "exec" /\ ran'[j] = ran[j] + 1
        BY <1>3, <2>2, <3>3
      <4>2. Uncounted(j)' = 1 /\ Uncounted(j) = 0
        BY <1>9, <2>1, <3>3, <4>1 DEF Uncounted
      <4>3. num[j] \in Nat /\ ran[j] \in Nat
        BY <1>3
      <4> QED BY <1>2, <1>3, <2>1, <4>1, <4>2, <4>3
    <3> QED BY <3>2, <3>3
  <2>3. CASE (o # "ok" \/ k \in cancelled) /\ PushJobResult(k, IF o = "occupied" THEN "occupied" ELSE "error")
             /\ UNCHANGED ran
    <3>1. Uncounted(j)' = Uncounted(j) => Kept
      BY <1>2, <1>3, <2>1, <2>3
    <3>2. CASE j # k
      <4>1. PICK err \in {"none", "occupied", "error"} : PushJobResult(k, err)
        BY <2>3
      <4>2. Uncounted(j)' = Uncounted(j)
        BY <1>8, <3>2, <4>1 DEF Uncounted
      <4> QED BY <3>1, <4>2
    <3>3. CASE j = k /\ o = "occupied"
      <4>1. PushJobResult(k, "occupied")
        BY <2>3, <3>3
      <4>2. Uncounted(j)' = Uncounted(j)
        BY <1>8, <1>9, <2>1, <3>3, <4>1 DEF Uncounted
      <4> QED BY <3>1, <4>2
    <3>4. CASE j = k /\ o # "occupied"
      <4>1. PushJobResult(k, "error")
        BY <2>3, <3>4
      <4>2. Uncounted(j)' = 1 /\ Uncounted(j) = 0
        BY <1>8, <1>9, <2>1, <3>4, <4>1 DEF Uncounted
      <4>3. ~Undisturbed(j)
        BY <2>3, <3>4, SchedulerAssumption DEF Undisturbed
      <4>4. num'[j] = num[j] /\ ran'[j] = ran[j] /\ statusChan' = statusChan
        BY <2>1, <2>3
      <4> QED BY <1>2, <1>3, <4>2, <4>3, <4>4
    <3> QED BY <3>2, <3>3, <3>4
  <2> QED BY <1>3, <1>10, <2>2, <2>3 DEF TryLock
<1>11. ASSUME NEW k \in Job, CommandEnds(k)
       PROVE  Kept \/ More
  <2>1. goroutine[k] = "exec" /\ UNCHANGED <<num, statusChan, ran>>
    BY <1>11 DEF CommandEnds
  <2>2. PICK err \in {"none", "error"} : PushJobResult(k, err)
    BY <1>11 DEF CommandEnds
  <2>3. Uncounted(j)' = Uncounted(j)
    BY <1>8, <2>1, <2>2 DEF Uncounted
  <2> QED BY <1>2, <1>3, <2>1, <2>3
<1>12. ASSUME NEW k \in Job, NEW t \in {0, 1}, UpdateStatus(t, k)
       PROVE  Kept \/ More
  <2>1. /\ UNCHANGED <<jobResultChan, goroutine, ran>>
        /\ statusChan[t][k] # << >>
        /\ statusChan' = [statusChan EXCEPT ![t][k] = Tail(@)]
        /\ \/ num' = [num EXCEPT ![k] = IF t = 0 THEN @ + Head(statusChan[t][k]).add ELSE 1]
           \/ num' = num /\ k \in history'.missed
    BY <1>3, <1>12 DEF UpdateStatus, HistoryType
  <2>2. Uncounted(j)' = Uncounted(j)
    BY <2>1 DEF Uncounted, Reported, ErrsIn, ResultsIn
  <2>3. CASE j # k
    <3>1. num'[j] = num[j] /\ statusChan'[0][j] = statusChan[0][j]
      BY <1>3, <2>1, <2>3 DEF ChanType
    <3> QED BY <1>2, <1>3, <2>1, <2>2, <3>1
  <2>4. CASE j = k
    <3>1. t = 0
      BY <1>3, <2>1, <2>4
    <3>2. /\ statusChan'[0][j] = Tail(statusChan[0][j])
          /\ num'[j] = num[j] + Head(statusChan[0][j]).add
      BY <1>3, <2>1, <2>4, <3>1 DEF ChanType
    <3>3. /\ Adds(Tail(statusChan[0][j])) + Head(statusChan[0][j]).add = Adds(statusChan[0][j])
          /\ Head(statusChan[0][j]).add \in 0..1
      BY <1>3, <2>1, <2>4, <3>1, TailAdds DEF StatusEvent
    <3>4. Adds(statusChan'[0][j]) \in Nat /\ num[j] \in Nat
      <4>1. Tail(statusChan[0][j]) \in Seq(StatusEvent)
        BY <1>3, <2>1, <2>4, <3>1, HeadTailProperties
      <4> QED BY <1>3, <3>2, <4>1, AddsFinite
    <3>5. ran'[j] = ran[j] /\ Uncounted(j) \in {0, 1}
      BY <1>3, <2>1
    <3>6. Adds(statusChan'[0][j]) + Head(statusChan[0][j]).add = Adds(statusChan[0][j])
      BY <3>2, <3>3
    <3> QED BY <1>2, <1>3, <2>2, <3>2, <3>3, <3>4, <3>5, <3>6
  <2> QED BY <2>3, <2>4
<1>13. Kept \/ More
  BY <1>0, <1>5, <1>6, <1>7, <1>10, <1>11, <1>12 DEF Next, Iteration
<1>14. ran'[j] \in {ran[j], ran[j] + 1}
  <2>1. ran' = ran \/ \E k \in Job, o \in LockOutcomes : TryLock(k, o)
    BY <1>0, IterationFrame DEF Next, Iteration, vars, TimerExpires, Tick, Crash, JobAdd,
       JobDelete, JobKill, CommandEnds, UpdateStatus
  <2>2. ran' = ran \/ \E k \in Job : ran' = [ran EXCEPT ![k] = @ + 1]
    BY <2>1 DEF TryLock
  <2> QED BY <1>3, <2>2
<1>15. Total(j) \in Nat
  BY <1>2, <1>3
<1>16. Total(j)' \in Nat
  <2>1. statusChan'[0][j] \in Seq(StatusEvent) /\ num'[j] \in Nat
    BY NextIInv DEF IInv, TypeOK
  <2>2. Uncounted(j)' \in {0, 1}
    BY DEF Uncounted
  <2> QED BY <1>2, <2>1, <2>2, AddsFinite
<1> QED BY <1>0, <1>1, <1>3, <1>13, <1>14, <1>15, <1>16

LEMMA NextCovered == IInv /\ Ordered /\ Covered /\ [Next]_vars => Covered'
<1> SUFFICES ASSUME IInv, Ordered, Covered, [Next]_vars, alive', history'.restarts = 0,
                    NEW j \in Job, Typ[j] = 0, j \notin history'.missed
             PROVE  Total(j)' >= ran'[j]
  BY DEF Covered
<1>1. /\ alive /\ history.restarts = 0 /\ j \notin history.missed
      /\ Total(j) \in Nat /\ Total(j)' \in Nat
      /\ ran[j] \in Nat /\ ran'[j] \in {ran[j], ran[j] + 1}
      /\ Total(j)' >= Total(j) + (ran'[j] - ran[j])
  BY StepTallies
<1>2. Total(j) >= ran[j]
  BY <1>1 DEF Covered
<1> QED BY <1>1, <1>2

LEMMA NextTally ==
    ASSUME "error" \notin LockOutcomes
    PROVE  IInv /\ Ordered /\ KillsQuiet /\ Tally /\ [Next]_vars => Tally'
<1> SUFFICES ASSUME IInv, Ordered, KillsQuiet, Tally, [Next]_vars,
                    alive', history'.restarts = 0, history'.kills = 0,
                    NEW j \in Job, Typ[j] = 0, j \notin history'.missed
             PROVE  Total(j)' = ran'[j]
  BY DEF Tally
<1>1. /\ alive /\ history.restarts = 0 /\ j \notin history.missed
      /\ Total(j) \in Nat /\ Total(j)' \in Nat
      /\ ran[j] \in Nat /\ ran'[j] \in {ran[j], ran[j] + 1}
      /\ Undisturbed(j) => Total(j)' = Total(j) + (ran'[j] - ran[j])
  BY StepTallies
<1>2. history.kills = 0
  <2>1. history.kills \in Nat
    BY DEF IInv, TypeOK
  <2> QED BY <2>1, HistoryGrows
<1>3. Undisturbed(j) /\ Total(j) = ran[j]
  BY <1>1, <1>2 DEF Undisturbed, KillsQuiet, Tally
<1> QED BY <1>1, <1>3


\* What the sums of the proof are in terms of NumCountsRuns.
LEMMA TotalIs ==
    ASSUME IInv, alive, NEW j \in Job
    PROVE  num[j] + AddsOf(j) + Cardinality(CountedResults(j))
               + (IF goroutine[j] = "exec" THEN 1 ELSE 0) = Total(j)
<1>1. AddsOf(j) = Adds(statusChan[0][j])
  BY DEF AddsOf, Adds, AddsIn
<1>2. Accounted(j, jobExecutingTable, jobResultChan)
  BY LoopTypes
<1>3. /\ CountedResults(j) = {i \in ResultsIn(jobResultChan, j) :
                                  jobResultChan[i].err # "occupied"}
      /\ Reported(j) <=> CountedResults(j) # {}
  BY DEF CountedResults, ResultsOf, ResultsIn, Reported, ErrsIn
<1>4. num[j] + AddsOf(j) \in Nat
  <2>1. statusChan[0][j] \in Seq(StatusEvent) /\ num[j] \in Nat
    BY DEF IInv, TypeOK
  <2> QED BY <1>1, <2>1, AddsFinite
<1>5. CASE Reported(j)
  <2>1. PICK i : ResultsIn(jobResultChan, j) = {i}
    BY <1>2, <1>3, <1>5 DEF Accounted
  <2>2. CountedResults(j) = {i} /\ goroutine[j] = "none"
    BY <1>2, <1>3, <1>5, <2>1 DEF Accounted
  <2>3. Cardinality(CountedResults(j)) = 1
    BY <2>2, FS_Singleton
  <2> QED BY <1>1, <1>4, <1>5, <2>2, <2>3 DEF Total, Uncounted
<1>6. CASE ~Reported(j)
  <2>1. Cardinality(CountedResults(j)) = 0
    BY <1>3, <1>6, FS_EmptySet
  <2> QED BY <1>1, <1>4, <1>6, <2>1 DEF Total, Uncounted
<1> QED BY <1>5, <1>6

LEMMA InitTally == Init => KillsQuiet /\ Tally /\ Covered
<1>0. Init => KillsQuiet
  BY DEF Init, KillsQuiet
<1> SUFFICES ASSUME Init, NEW j \in Job
             PROVE  Total(j) = ran[j] /\ Total(j) >= ran[j]
  BY <1>0 DEF Tally, Covered
<1>1. DOMAIN << >> = {}
  BY EmptySeq
<1>2. Uncounted(j) = 0
  BY <1>1 DEF Init, Uncounted, Reported, ErrsIn, ResultsIn
<1>3. statusChan[0][j] = << >>
  BY DEF Init, NothingQueued
<1>4. AddsIn(statusChan[0][j]) = {}
  BY <1>1, <1>3 DEF AddsIn
<1>5. Adds(statusChan[0][j]) = 0
  BY <1>4, FS_EmptySet DEF Adds
<1> QED BY <1>2, <1>5 DEF Init, Total

\* num counts the commands of a cron job, unless the lock fails with an error,
\* the job is killed or an update is lost.
THEOREM NumCountsRunsHolds == ASSUME "error" \notin LockOutcomes PROVE Spec => []NumCountsRuns
<1>1. IInv /\ Tally => NumCountsRuns
  BY TotalIs DEF Tally, NumCountsRuns
<1> QED BY <1>1, InitIInv, NextIInv, InitRowsFirst, NextRowsFirst, InitOrdered, NextOrdered,
           InitTally, NextKillsQuiet, NextTally, PTL DEF Spec

\* What NumCountsRuns says, as a lower bound.
NumCoversRuns ==
    alive /\ history.restarts = 0 =>
      \A j \in Job : Typ[j] = 0 /\ j \notin history.missed =>
        num[j] + AddsOf(j) + Cardinality(CountedResults(j))
               + (IF goroutine[j] = "exec" THEN 1 ELSE 0) >= ran[j]

\* No command of a cron job is left out of num: kills, and errors of the lock,
\* only ever count too much (handleJobEvent, handleJobResult).
THEOREM NumCoversRunsHolds == Spec => []NumCoversRuns
<1>1. IInv /\ Covered => NumCoversRuns
  BY TotalIs DEF Covered, NumCoversRuns
<1> QED BY <1>1, InitIInv, NextIInv, InitRowsFirst, NextRowsFirst, InitOrdered, NextOrdered,
           InitTally, NextCovered, PTL DEF Spec

-----------------------------------------------------------------------------
(* The executions *)

\* The handlers and the tail of the loop are one step of the executions.
LEMMA IterationIsIterate ==
    ASSUME IInv, alive, alive', NEW plan \in PlanType, NEW sc \in ChanType,
           NEW over \in SUBSET Job, NEW kill \in SUBSET Job,
           TrySchedule(plan, jobExecutingTable \ over, sc),
           \A j, k \in over \cup kill : j = k,
           \A j \in over : j \in jobExecutingTable /\ goroutine[j] = "none",
           \A j \in kill : j \in jobExecutingTable /\ j \notin over,
           cancelled' = (cancelled \ over) \cup kill, UNCHANGED ran
    PROVE  Abstract!Iterate(over, kill, Starts(plan, jobExecutingTable \ over))
<1> DEFINE start == Starts(plan, jobExecutingTable \ over)
<1>1. /\ jobExecutingTable' = (jobExecutingTable \ over) \cup start
      /\ goroutine' = [j \in Job |-> IF j \in start THEN "sleep" ELSE goroutine[j]]
  BY DEF TrySchedule
<1>2. start \in SUBSET Job /\ \A j \in start : j \notin jobExecutingTable \/ j \in over
  BY DEF Starts
<1> HIDE DEF start
<1>3. \A j \in over : Phase(j) = "ended"
  BY DEF Phase
<1>4. \A j \in kill : Phase(j) # "idle"
  BY DEF Phase, IInv, TypeOK
<1>5. \A j \in start : Phase(j) = "idle" \/ j \in over
  BY <1>2 DEF Phase
<1>6. \A j \in Job : Phase(j)' = IF j \in start THEN "waiting"
                                 ELSE IF j \in over THEN "idle" ELSE Phase(j)
  <2> TAKE j \in Job
  <2>1. CASE j \in start
    BY <1>1, <2>1 DEF Phase
  <2>2. CASE j \notin start /\ j \in over
    <3>1. j \notin jobExecutingTable'
      BY <1>1, <2>2
    <3> QED BY <2>2, <3>1 DEF Phase
  <2>3. CASE j \notin start /\ j \notin over
    <3>1. goroutine'[j] = goroutine[j] /\ (j \in jobExecutingTable' <=> j \in jobExecutingTable)
      BY <1>1, <2>3
    <3>2. CASE j \notin jobExecutingTable
      <4>1. Phase(j) = "idle" /\ Phase(j)' = "idle"
        BY <3>1, <3>2 DEF Phase
      <4> QED BY <2>3, <4>1
    <3>3. CASE j \in jobExecutingTable
      <4>1. goroutine[j] \in {"none", "sleep", "exec"}
        BY DEF IInv, TypeOK
      <4>2. CASE goroutine[j] = "sleep"
        <5>1. Phase(j) = "waiting" /\ Phase(j)' = "waiting"
          BY <3>1, <3>3, <4>2 DEF Phase
        <5> QED BY <2>3, <5>1
      <4>3. CASE goroutine[j] = "exec"
        <5>1. Phase(j) = "running" /\ Phase(j)' = "running"
          BY <3>1, <3>3, <4>3 DEF Phase
        <5> QED BY <2>3, <5>1
      <4>4. CASE goroutine[j] = "none"
        <5>1. Phase(j) = "ended" /\ Phase(j)' = "ended"
          BY <3>1, <3>3, <4>4 DEF Phase
        <5> QED BY <2>3, <5>1
      <4> QED BY <4>1, <4>2, <4>3, <4>4
    <3> QED BY <3>2, <3>3
  <2> QED BY <2>1, <2>2, <2>3
<1> QED BY <1>2, <1>3, <1>4, <1>5, <1>6 DEF Abstract!Iterate, start

\* The end of the process ends all executions.
LEMMA DeathIsDie ==
    ASSUME ~alive', UNCHANGED ran
    PROVE  Abstract!Die
BY DEF Abstract!Die, Phase

\* A step of an iteration, unless the process ends.
LEMMA LoopIterates ==
    ASSUME IInv, Iteration
    PROVE  Abstract!Next
<1>1. CASE ~alive'
  BY <1>1, IterationFrame, DeathIsDie DEF Abstract!Next
<1>2. CASE alive'
  <2>1. /\ alive /\ UNCHANGED ran /\ jobPlanTable \in PlanType /\ statusChan \in ChanType
        /\ jobExecutingTable \ {} = jobExecutingTable /\ jobExecutingTable \in SUBSET Job
        /\ (cancelled \ {}) \cup {} = cancelled
        /\ jobPlanTable \in [Job -> {NoPlan} \cup Nat]
        /\ \A j \in Job : Accounted(j, jobExecutingTable, jobResultChan)
    BY IterationFrame, LoopTypes DEF PlanType
\* Only kills and results concern an execution.
  <2>2. ASSUME NEW plan \in PlanType, NEW sc \in ChanType, cancelled' = cancelled,
               TrySchedule(plan, jobExecutingTable, sc)
        PROVE  Abstract!Next
    <3>1. Abstract!Iterate({}, {}, Starts(plan, jobExecutingTable \ {}))
      BY <1>2, <2>1, <2>2, IterationIsIterate
    <3>2. Starts(plan, jobExecutingTable \ {}) \in SUBSET Job
      BY DEF Starts
    <3> QED BY <3>1, <3>2 DEF Abstract!Next
  <2>3. CASE OnTimer
    BY <2>1, <2>2, <2>3 DEF OnTimer
  <2>4. CASE OnJobEvent
    <3>1. PICK plan \in PlanType, sc \in ChanType : TrySchedule(plan, jobExecutingTable, sc)
      <4>1. PICK e \in Event : e.job \in Job /\ (OnSave(e.job) \/ OnDelete(e.job))
        BY <2>4, HeadEvent
      <4>2. CASE OnSave(e.job)
        <5>1. BuildJobSchedulePlan(e.job) \in Nat
          BY <4>1, NowType, ExprNextType DEF BuildJobSchedulePlan, IInv
        <5>2. [jobPlanTable EXCEPT ![e.job] = BuildJobSchedulePlan(e.job)] \in PlanType
          BY <2>1, <4>1, <5>1 DEF PlanType
        <5>3. Push(statusChan, Typ[e.job], e.job, Planned, 0) \in ChanType
          <6>1. Typ[e.job] \in {0, 1} /\ Planned \in 0..5 /\ 0 \in 0..1
            BY <4>1, Constants DEF Planned
          <6> QED BY <2>1, <4>1, <6>1, PushType
        <5> QED BY <2>1, <4>2, <5>2, <5>3 DEF OnSave
      <4>3. CASE OnDelete(e.job)
        <5>1. [jobPlanTable EXCEPT ![e.job] = NoPlan] \in PlanType
          BY <2>1, <4>1 DEF PlanType
        <5>2. Push(statusChan, 0, e.job, Deleted, 0) \in ChanType
          <6>1. 0 \in {0, 1} /\ Deleted \in 0..5 /\ 0 \in 0..1
            BY DEF Deleted
          <6> QED BY <2>1, <4>1, <6>1, PushType
        <5> QED BY <2>1, <4>3, <5>1, <5>2 DEF OnDelete
      <4> QED BY <4>1, <4>2, <4>3
    <3>2. cancelled' = cancelled
      BY <2>4 DEF OnJobEvent
    <3> QED BY <2>2, <3>1, <3>2
  <2>5. ASSUME NEW k \in Job, OnKill(k) PROVE Abstract!Next
    <3>1. CASE k \notin jobExecutingTable
      BY <2>1, <2>2, <2>5, <3>1 DEF OnKill
    <3>2. CASE k \in jobExecutingTable
      <4>1. /\ cancelled' = (cancelled \ {}) \cup {k}
            /\ TrySchedule(jobPlanTable, jobExecutingTable \ {},
                           Push(statusChan, Typ[k], k, Failed, 1))
        BY <2>1, <2>5, <3>2 DEF OnKill
      <4>2. Push(statusChan, Typ[k], k, Failed, 1) \in ChanType
        <5>1. Typ[k] \in {0, 1} /\ Failed \in 0..5 /\ 1 \in 0..1
          BY Constants DEF Failed
        <5> QED BY <2>1, <5>1, PushType
      <4>3. Abstract!Iterate({}, {k}, Starts(jobPlanTable, jobExecutingTable \ {}))
        BY <1>2, <2>1, <3>2, <4>1, <4>2, IterationIsIterate
      <4>4. Starts(jobPlanTable, jobExecutingTable \ {}) \in SUBSET Job
        BY DEF Starts
      <4> QED BY <4>3, <4>4 DEF Abstract!Next
    <3> QED BY <3>1, <3>2
  <2>6. CASE OnJobResult
    <3> DEFINE r == Head(jobResultChan)
    <3>1. /\ jobResultChan # << >> /\ jobResultChan \in Seq(Result)
          /\ cancelled' = cancelled \ {r.job}
          /\ TrySchedule(PlanAfterResult(r.job), jobExecutingTable \ {r.job},
                         IF r.err = "occupied" THEN statusChan
                         ELSE Push(statusChan, Typ[r.job], r.job, ResultStatus(r), 1))
      BY <2>6 DEF OnJobResult, IInv, TypeOK
    <3>2. r \in Result /\ jobResultChan[1] = r /\ 1 \in DOMAIN jobResultChan
      BY <3>1, HeadTailProperties, LenProperties, EmptySeq
    <3>3. r.job \in Job /\ 1 \in ResultsIn(jobResultChan, r.job)
      BY <3>2 DEF Result, ResultsIn
    <3> HIDE DEF r
    <3>4. r.job \in jobExecutingTable /\ goroutine[r.job] = "none"
      BY <2>1, <3>3 DEF Accounted
    <3>5. PlanAfterResult(r.job) \in PlanType
      BY <2>1, <3>3 DEF PlanAfterResult, PlanType
    <3>6. (IF r.err = "occupied" THEN statusChan
           ELSE Push(statusChan, Typ[r.job], r.job, ResultStatus(r), 1)) \in ChanType
      <4>1. Typ[r.job] \in {0, 1} /\ ResultStatus(r) \in 0..5 /\ 1 \in 0..1
        BY <3>3, Constants DEF ResultStatus, Failed, Planned, Done
      <4>2. Push(statusChan, Typ[r.job], r.job, ResultStatus(r), 1) \in ChanType
        BY <2>1, <3>3, <4>1, PushType
      <4> QED BY <2>1, <4>2
    <3>7. cancelled' = (cancelled \ {r.job}) \cup {}
      BY <3>1
    <3>8. Abstract!Iterate({r.job}, {}, Starts(PlanAfterResult(r.job), jobExecutingTable \ {r.job}))
      BY <1>2, <2>1, <3>1, <3>3, <3>4, <3>5, <3>6, <3>7, IterationIsIterate
    <3>9. Starts(PlanAfterResult(r.job), jobExecutingTable \ {r.job}) \in SUBSET Job
      BY DEF Starts
    <3> QED BY <3>3, <3>8, <3>9 DEF Abstract!Next
  <2> QED BY <2>3, <2>4, <2>5, <2>6 DEF Iteration
<1> QED BY <1>1, <1>2

LEMMA StepIsExecutionStep == IInv /\ [Next]_vars => [Abstract!Next]_(Abstract!vars)
<1> SUFFICES ASSUME IInv, [Next]_vars PROVE [Abstract!Next]_(Abstract!vars)
  OBVIOUS
<1>0. /\ goroutine \in [Job -> {"none", "sleep", "exec"}] /\ ran \in [Job -> Nat]
  BY DEF IInv, TypeOK
<1>1. ASSUME UNCHANGED <<alive, jobExecutingTable, cancelled, goroutine, ran>>
      PROVE  [Abstract!Next]_(Abstract!vars)
  BY <1>1 DEF Abstract!vars, Phase
<1>2. CASE UNCHANGED vars \/ TimerExpires \/ Tick
  BY <1>1, <1>2 DEF vars, worker, TimerExpires, Tick
<1>3. CASE Crash
  BY <1>3, DeathIsDie DEF Crash, Abstract!Next
<1>4. CASE Iteration
  BY <1>4, LoopIterates
\* Nothing is left of the old executions when a worker is started again.
<1>5. CASE Restart
  <2>1. \A j \in Job : Phase(j) = "idle" /\ Phase(j)' = "idle"
    BY <1>5 DEF Restart, Phase
  <2>2. (IF alive THEN cancelled ELSE {})' = (IF alive THEN cancelled ELSE {}) /\ ran' = ran
    BY <1>5 DEF Restart
  <2> QED BY <2>1, <2>2 DEF Abstract!vars
<1>6. ASSUME NEW k \in Job,
             JobAdd(k) \/ JobDelete(k) \/ JobKill(k) \/ \E t \in {0, 1} : UpdateStatus(t, k)
      PROVE  [Abstract!Next]_(Abstract!vars)
  BY <1>1, <1>6 DEF JobAdd, JobDelete, JobKill, UpdateStatus
\* A goroutine with an entry in the table.
<1>7. ASSUME alive, NEW k \in Job, goroutine[k] # "none"
      PROVE  k \in jobExecutingTable /\ Phase(k) = IF goroutine[k] = "sleep" THEN "waiting"
                                                   ELSE "running"
  <2>1. Accounted(k, jobExecutingTable, jobResultChan)
    BY <1>7, LoopTypes
  <2> QED BY <1>0, <1>7, <2>1 DEF Accounted, Phase
<1>8. ASSUME NEW k \in Job, NEW x \in {"none", "exec"}, alive,
             goroutine' = [goroutine EXCEPT ![k] = x], k \in jobExecutingTable,
             UNCHANGED <<alive, jobExecutingTable>>
      PROVE  [j \in Job |-> Phase(j)]' = [[j \in Job |-> Phase(j)] EXCEPT
                                             ![k] = IF x = "none" THEN "ended" ELSE "running"]
  <2>1. Phase(k)' = IF x = "none" THEN "ended" ELSE "running"
    BY <1>0, <1>8 DEF Phase
  <2>2. \A j \in Job : j # k => Phase(j)' = Phase(j)
    BY <1>0, <1>8 DEF Phase
  <2> QED BY <2>1, <2>2
<1>9. ASSUME NEW k \in Job, NEW err, PushJobResult(k, err), goroutine[k] # "none", alive,
             UNCHANGED <<alive, jobExecutingTable, cancelled, ran>>
      PROVE  Abstract!End(k)
  <2>1. Phase(k) \in {"waiting", "running"} /\ k \in jobExecutingTable
    BY <1>7, <1>9
  <2>2. [j \in Job |-> Phase(j)]' = [[j \in Job |-> Phase(j)] EXCEPT ![k] = "ended"]
    BY <1>8, <1>9, <2>1 DEF PushJobResult
  <2> QED BY <1>9, <2>1, <2>2 DEF Abstract!End
<1>10. ASSUME NEW k \in Job, NEW o \in LockOutcomes, TryLock(k, o) PROVE Abstract!Next
  <2>1. /\ alive /\ goroutine[k] = "sleep" /\ goroutine[k] # "none"
        /\ UNCHANGED <<alive, jobExecutingTable, cancelled>>
    BY <1>10 DEF TryLock
  <2>2. CASE /\ k \notin cancelled /\ goroutine' = [goroutine EXCEPT ![k] = "exec"]
             /\ ran' = [ran EXCEPT ![k] = @ + 1]
    <3>1. k \in jobExecutingTable /\ Phase(k) = "waiting"
      BY <1>7, <2>1
    <3>2. [j \in Job |-> Phase(j)]' = [[j \in Job |-> Phase(j)] EXCEPT ![k] = "running"]
      BY <1>8, <2>1, <2>2, <3>1
    <3>3. Abstract!Run(k)
      BY <2>1, <2>2, <3>1, <3>2 DEF Abstract!Run
    <3> QED BY <3>3 DEF Abstract!Next
  <2>3. CASE UNCHANGED ran /\ \E err : PushJobResult(k, err)
    BY <1>9, <2>1, <2>3 DEF Abstract!Next
  <2> QED BY <1>10, <2>2, <2>3 DEF TryLock
<1>11. ASSUME NEW k \in Job, CommandEnds(k) PROVE Abstract!Next
  <2>1. /\ alive /\ goroutine[k] # "none" /\ \E err : PushJobResult(k, err)
        /\ UNCHANGED <<alive, jobExecutingTable, cancelled, ran>>
    BY <1>11 DEF CommandEnds
  <2> QED BY <1>9, <2>1 DEF Abstract!Next
<1> QED BY <1>2, <1>3, <1>4, <1>5, <1>6, <1>10, <1>11 DEF Next, Iteration

\* A worker keeps the promise of Executions: a job has one execution at a time,
\* its result makes room for the next one, and a kill keeps the execution that
\* it finds from starting its command, if that still waits, and concerns no
\* other.
THEOREM Refinement == Spec => ImplementsExecutions
<1>1. Init => Abstract!Init
  BY DEF Init, Abstract!Init, Phase
<1> QED BY <1>1, InitIInv, NextIInv, StepIsExecutionStep, PTL
        DEF Spec, ImplementsExecutions, Abstract!Spec

=============================================================================
