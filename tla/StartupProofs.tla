---------------------------- MODULE StartupProofs ----------------------------
(***************************************************************************)
(* Starting workers for any workers, hosts, jobs and failing calls.        *)
(*                                                                         *)
(* A process that starts registers as WorkerRegistry says, whatever main   *)
(* does beside it, so that what is proved there holds here.  And a worker  *)
(* that has caught up with etcd plans the jobs of etcd: the plan and the   *)
(* queued events together stand for the keys at the revision the watcher   *)
(* has reached (InStep), which needs that no event overtakes another one   *)
(* on the same name (InOrder).                                             *)
(***************************************************************************)
EXTENDS Startup, WorkerRegistryProofs, FiniteSetTheorems, SequenceTheorems

-----------------------------------------------------------------------------
(* The registration of a starting worker *)

LEMMA ProcessEndsCrash ==
    ASSUME NEW w \in Worker, ProcessEnds(w) PROVE [Next]_vars
BY DEF ProcessEnds, Next

\* A step of a starting worker is a step of its registration, or none.
LEMMA StartupSteps == [StartupNext]_startupVars => [Next]_vars
<1> SUFFICES ASSUME [StartupNext]_startupVars PROVE [Next]_vars
  OBVIOUS
<1>1. CASE MasterChanges
  BY <1>1 DEF MasterChanges
<1>2. ASSUME NEW w \in Worker, Boot(w) \/ Watch(w) PROVE [Next]_vars
  BY <1>2 DEF Boot, Watch, StartWatch, WatchJobs
<1>3. ASSUME NEW w \in Worker, Main(w) PROVE [Next]_vars
  <2>1. CASE InitRegister(w)
    BY <2>1 DEF InitRegister, Next
  <2>2. CASE MainFails(w)
    BY <2>2, ProcessEndsCrash DEF MainFails
  <2>3. CASE InitJobMgr(w) \/ GetJobs(w) \/ GetFails(w) \/ InitStatusMgr(w) \/ InitLogMgr(w)
    BY <2>3 DEF InitJobMgr, GetJobs, GetFails, InitStatusMgr, InitLogMgr
  <2> QED BY <1>3, <2>1, <2>2, <2>3 DEF Main
<1>4. ASSUME NEW w \in Worker, OnJobEvent(w) PROVE [Next]_vars
  BY <1>4, ProcessEndsCrash DEF OnJobEvent, Panics
<1>5. ASSUME NEW w \in Worker, NEW j \in Job, JobStarts(w, j) \/ JobEnds(w, j)
      PROVE  [Next]_vars
  BY <1>5, ProcessEndsCrash DEF JobStarts, JobEnds, Panics
<1>6. ASSUME NEW w \in Worker, ProcessDies(w) PROVE [Next]_vars
  BY <1>6, ProcessEndsCrash DEF ProcessDies
<1>7. ASSUME NEW w \in Worker, Registration(w) PROVE [Next]_vars
  BY <1>7 DEF Registration, Next
<1>8. CASE Environment
  BY <1>8 DEF Environment, Next
<1>9. CASE UNCHANGED startupVars
  BY <1>9 DEF startupVars
<1> QED BY <1>1, <1>2, <1>3, <1>4, <1>5, <1>6, <1>7, <1>8, <1>9 DEF StartupNext

\* The workers that main.go starts register as WorkerRegistry describes.
THEOREM StartupRegisters == StartupSpec => Spec
<1>1. StartupInit => Init
  BY DEF StartupInit
<1> QED BY <1>1, StartupSteps, PTL DEF StartupSpec, Spec

\* With one worker per host, a worker that keeps a lease and is online is in
\* the master's list, wherever its main has got to, and however often main
\* gave up before (InitRegister comes first, main.go:53).
THEOREM StartedIsListed == ASSUME OwnHosts PROVE StartupSpec => []OnlineIsListed
BY StartupRegisters, OnlineIsListedHolds, PTL

-----------------------------------------------------------------------------
(* The jobs of a starting worker *)

\* The names put, or deleted, up to a revision of a history, and its keys.
NamedTo(type, s, n) == {s[i].job : i \in {k \in 1..n : s[k].type = type}}
KeysTo(s, n) == NamedTo("save", s, n) \ NamedTo("delete", s, n)

\* No event that puts a name follows one that deletes it.
InOrder(s) ==
    \A i, k \in DOMAIN s :
        i < k /\ s[i].type = "delete" /\ s[k].type = "save" => s[i].job # s[k].job

\* The revision that a worker has been told of.
Told(r, c) == IF c = NoRev THEN r ELSE c

\* What a worker has planned and queued stands for the keys at that revision.
InSync(r, c, q, p, s) ==
    IF r = NoRev
    THEN c = NoRev /\ q = << >> /\ p = {}
    ELSE /\ (p \cup Named("save", q)) \ Named("delete", q) = KeysTo(s, Told(r, c))
         /\ Named("delete", q) \subseteq NamedTo("delete", s, Told(r, c))
         /\ InOrder(q)

InStep(w) == InSync(rev[w], cursor[w], queue[w], plan[w], changes)

\* The types of what the loop and the watchers use.
LoopType ==
    /\ main \in [Worker -> Stage]
    /\ changes \in Seq(Change)
    /\ rev \in [Worker -> {NoRev} \cup 0..Len(changes)]
    /\ cursor \in [Worker -> {NoRev} \cup 0..Len(changes)]
    /\ queue \in [Worker -> Seq(Change)]
    /\ plan \in [Worker -> SUBSET Job]

Consistent(s) ==
    /\ IsFiniteSet(Named("save", s))
    /\ Named("delete", s) \subseteq Named("save", s)
    /\ InOrder(s)

\* Before its Get a worker has no revision.
GetComesFirst ==
    \A w \in Worker : main[w] \in {"off", "register", "jobMgr", "get"} => rev[w] = NoRev

BootInv ==
    /\ LoopType
    /\ Consistent(changes)
    /\ GetComesFirst
    /\ \A w \in Worker : InStep(w)

\* A change that joins a sequence.
LEMMA AppendNamed ==
    ASSUME NEW s \in Seq(Change), NEW c \in Change, NEW type
    PROVE  Named(type, Append(s, c)) =
               Named(type, s) \cup (IF c.type = type THEN {c.job} ELSE {})
<1>1. /\ DOMAIN s = 1..Len(s) /\ Len(s) \in Nat
      /\ DOMAIN Append(s, c) = 1..(Len(s) + 1)
      /\ \A i \in 1..Len(s) : Append(s, c)[i] = s[i]
      /\ Append(s, c)[Len(s) + 1] = c
  BY AppendProperties, LenProperties
<1>2. \A i \in 1..(Len(s) + 1) : i \in 1..Len(s) \/ i = Len(s) + 1
  BY <1>1
<1>3. \A i \in 1..Len(s) : i \in 1..(Len(s) + 1)
  BY <1>1
<1>4. Len(s) + 1 \in 1..(Len(s) + 1)
  BY <1>1
<1> QED BY <1>1, <1>2, <1>3, <1>4 DEF Named

LEMMA AppendInOrder ==
    ASSUME NEW s \in Seq(Change), NEW c \in Change, InOrder(s),
           c.type = "save" => c.job \notin Named("delete", s)
    PROVE  InOrder(Append(s, c))
<1>1. /\ DOMAIN s = 1..Len(s) /\ Len(s) \in Nat
      /\ DOMAIN Append(s, c) = 1..(Len(s) + 1)
      /\ \A i \in 1..Len(s) : Append(s, c)[i] = s[i]
      /\ Append(s, c)[Len(s) + 1] = c
  BY AppendProperties, LenProperties
<1> SUFFICES ASSUME NEW i \in 1..(Len(s) + 1), NEW k \in 1..(Len(s) + 1), i < k,
                    Append(s, c)[i].type = "delete", Append(s, c)[k].type = "save"
             PROVE  Append(s, c)[i].job # Append(s, c)[k].job
  BY <1>1 DEF InOrder
<1>2. i \in 1..Len(s) /\ Append(s, c)[i] = s[i]
  BY <1>1
<1>3. CASE k \in 1..Len(s)
  BY <1>1, <1>2, <1>3 DEF InOrder
<1>4. CASE k = Len(s) + 1
  BY <1>1, <1>2, <1>4 DEF Named
<1> QED BY <1>1, <1>3, <1>4

\* A change that leaves a queue.
LEMMA TailNamed ==
    ASSUME NEW s \in Seq(Change), s # << >>, InOrder(s), NEW type
    PROVE  /\ Named(type, s) =
                Named(type, Tail(s)) \cup (IF Head(s).type = type THEN {Head(s).job} ELSE {})
           /\ InOrder(Tail(s))
           /\ Head(s).type = "delete" => Head(s).job \notin Named("save", Tail(s))
<1>1. /\ DOMAIN s = 1..Len(s) /\ Len(s) \in Nat \ {0}
      /\ DOMAIN Tail(s) = 1..(Len(s) - 1)
      /\ \A i \in 1..(Len(s) - 1) : Tail(s)[i] = s[i + 1]
      /\ Head(s) = s[1]
  BY HeadTailProperties, LenProperties, EmptySeq
<1>2. /\ \A i \in 1..Len(s) : i = 1 \/ (i - 1 \in 1..(Len(s) - 1) /\ i = (i - 1) + 1)
      /\ \A i \in 1..(Len(s) - 1) : i + 1 \in 1..Len(s) /\ 1 < i + 1
      /\ 1 \in 1..Len(s)
      /\ \A i, k \in 1..(Len(s) - 1) : i < k => i + 1 < k + 1
  BY <1>1
<1>3. ASSUME NEW i \in DOMAIN s, s[i].type = type
      PROVE  s[i].job \in Named(type, Tail(s)) \cup
                 (IF Head(s).type = type THEN {Head(s).job} ELSE {})
  <2>1. CASE i = 1
    BY <1>1, <1>3, <2>1
  <2>2. CASE i # 1
    <3>1. i - 1 \in DOMAIN Tail(s) /\ Tail(s)[i - 1] = s[i]
      BY <1>1, <1>2, <2>2
    <3>2. s[i].job \in Named(type, Tail(s))
      BY <1>3, <3>1 DEF Named
    <3> QED BY <3>2
  <2> QED BY <2>1, <2>2
<1>4. \A j : j \in Named(type, Tail(s)) => j \in Named(type, s)
  BY <1>1, <1>2 DEF Named
<1>5. Head(s).type = type => Head(s).job \in Named(type, s)
  BY <1>1, <1>2 DEF Named
<1>6. InOrder(Tail(s))
  BY <1>1, <1>2 DEF InOrder
<1>7. Head(s).type = "delete" => Head(s).job \notin Named("save", Tail(s))
  BY <1>1, <1>2 DEF InOrder, Named
<1>8. Named(type, s) =
          Named(type, Tail(s)) \cup (IF Head(s).type = type THEN {Head(s).job} ELSE {})
  <2>1. \A j \in Named(type, s) :
            j \in Named(type, Tail(s)) \cup (IF Head(s).type = type THEN {Head(s).job} ELSE {})
    BY <1>3 DEF Named
  <2> QED BY <2>1, <1>4, <1>5
<1> QED BY <1>6, <1>7, <1>8

\* At the last revision the keys are those of etcd.
LEMMA KeysToAll ==
    ASSUME NEW s \in Seq(Change) PROVE KeysTo(s, Len(s)) = Keys(s)
<1>1. DOMAIN s = 1..Len(s)
  BY LenProperties
<1> QED BY <1>1 DEF NamedTo, KeysTo, Named, Keys

LEMMA InitBootInv == StartupInit => BootInv
<1> SUFFICES ASSUME StartupInit PROVE BootInv
  OBVIOUS
<1>1. << >> \in Seq(Change) /\ Len(<< >>) = 0 /\ DOMAIN << >> = {}
  BY EmptySeq
<1>2. LoopType
  BY <1>1 DEF StartupInit, LoopType, NoRev, Stage
<1>3. \A type : Named(type, << >>) = {}
  BY <1>1 DEF Named
<1>4. Consistent(changes)
  BY <1>1, <1>3, FS_EmptySet DEF StartupInit, Consistent, InOrder
<1>5. \A w \in Worker : InStep(w)
  BY DEF StartupInit, InStep, InSync
<1> QED BY <1>2, <1>4, <1>5 DEF BootInv, GetComesFirst, StartupInit

\* A new change: what a worker was told of stays.
LEMMA ChangesKeepBootInv == ASSUME BootInv, MasterChanges PROVE BootInv'
<1>1. PICK c \in Change :
        /\ changes' = Append(changes, c)
        /\ \/ c.type = "save" /\ c.job \notin Named("save", changes)
           \/ c.type = "delete" /\ c.job \in Keys(changes)
  <2>1. PICK j \in Job :
          \/ /\ j \notin Named("save", changes)
             /\ changes' = Append(changes, [type |-> "save", job |-> j])
          \/ /\ j \in Keys(changes)
             /\ changes' = Append(changes, [type |-> "delete", job |-> j])
    BY DEF MasterChanges
  <2>2. [type |-> "save", job |-> j] \in Change /\ [type |-> "delete", job |-> j] \in Change
    BY DEF Change
  <2> QED BY <2>1, <2>2
<1>2. UNCHANGED <<main, rev, cursor, queue, plan>>
  BY DEF MasterChanges, worker
<1>3. /\ changes \in Seq(Change) /\ Len(changes) \in Nat
      /\ changes' \in Seq(Change) /\ Len(changes') = Len(changes) + 1
      /\ \A i \in 1..Len(changes) : changes'[i] = changes[i]
  BY <1>1, AppendProperties, LenProperties DEF BootInv, LoopType
<1>4. LoopType'
  <2>1. 0..Len(changes) \subseteq 0..Len(changes')
    BY <1>3
  <2> QED BY <1>2, <1>3, <2>1 DEF BootInv, LoopType
<1>5. Consistent(changes')
  <2>1. \A type : Named(type, changes') =
                Named(type, changes) \cup (IF c.type = type THEN {c.job} ELSE {})
    BY <1>1, <1>3, AppendNamed
  <2>2. c.type = "save" => c.job \notin Named("delete", changes)
    BY <1>1 DEF BootInv, Consistent
  <2>3. InOrder(changes')
    BY <1>1, <1>3, <2>2, AppendInOrder DEF BootInv, Consistent
  <2>4. Named("delete", changes') \subseteq Named("save", changes')
    BY <1>1, <2>1 DEF BootInv, Consistent, Keys
  <2>5. IsFiniteSet(Named("save", changes'))
    <3>1. IsFiniteSet(Named("save", changes))
      BY DEF BootInv, Consistent
    <3>2. IsFiniteSet(Named("save", changes) \cup {c.job})
      BY <3>1, FS_AddElement
    <3>3. \/ Named("save", changes') = Named("save", changes)
          \/ Named("save", changes') = Named("save", changes) \cup {c.job}
      BY <2>1
    <3> QED BY <3>1, <3>2, <3>3
  <2> QED BY <2>3, <2>4, <2>5 DEF Consistent
<1>6. ASSUME NEW w \in Worker PROVE InStep(w)'
  <2> DEFINE n == Told(rev[w], cursor[w])
  <2>1. InSync(rev[w], cursor[w], queue[w], plan[w], changes)
    BY DEF BootInv, InStep
  <2>2. CASE rev[w] = NoRev
    BY <1>2, <2>1, <2>2 DEF InStep, InSync
  <2>3. CASE rev[w] # NoRev
    <3>1. n \in 0..Len(changes)
      BY <2>3 DEF BootInv, LoopType, Told
    <3>2. \A i \in 1..n : i \in 1..Len(changes)
      BY <1>3, <3>1
    <3>3. \A type : NamedTo(type, changes', n) = NamedTo(type, changes, n)
      BY <1>3, <3>2 DEF NamedTo
    <3>4. KeysTo(changes', n) = KeysTo(changes, n)
      BY <3>3 DEF KeysTo
    <3> QED BY <1>2, <2>1, <2>3, <3>3, <3>4 DEF InStep, InSync
  <2> QED BY <2>2, <2>3
<1>7. GetComesFirst'
  BY <1>2 DEF BootInv, GetComesFirst
<1> QED BY <1>4, <1>5, <1>6, <1>7 DEF BootInv

\* What leaves a worker's loop and watcher alone.
LEMMA QuietKeeps ==
    ASSUME BootInv, UNCHANGED <<changes, rev, cursor, queue, plan>>, LoopType',
           GetComesFirst'
    PROVE  BootInv'
BY DEF BootInv, InStep

\* What touches one worker keeps the others in step.
LEMMA OthersKeep ==
    ASSUME BootInv, NEW w \in Worker, UNCHANGED changes,
           \A v \in Worker : v # w => /\ main'[v] = main[v] /\ rev'[v] = rev[v]
                                      /\ cursor'[v] = cursor[v]
                                      /\ queue'[v] = queue[v] /\ plan'[v] = plan[v],
           LoopType', InStep(w)',
           main'[w] \in {"off", "register", "jobMgr", "get"} => rev'[w] = NoRev
    PROVE  BootInv'
<1>1. ASSUME NEW v \in Worker, v # w PROVE InStep(v)'
  BY <1>1 DEF BootInv, InStep
<1>2. GetComesFirst'
  BY DEF BootInv, GetComesFirst
<1> QED BY <1>1, <1>2 DEF BootInv

\* The other stages of main.
LEMMA StageKeepsBootInv ==
    ASSUME BootInv, NEW w \in Worker, NEW from \in Stage, NEW to \in Stage,
           ToStage(w, from, to), UNCHANGED worker,
           to \in {"off", "register", "jobMgr", "get"}
               => from \in {"off", "register", "jobMgr", "get"}
    PROVE  BootInv'
<1>1. main' = [main EXCEPT ![w] = to] /\ main[w] = from /\ UNCHANGED changes
  BY DEF ToStage
<1>2. LoopType'
  BY <1>1 DEF BootInv, LoopType, worker
<1>3. GetComesFirst'
  BY <1>1 DEF BootInv, GetComesFirst, LoopType, worker
<1> QED BY <1>1, <1>2, <1>3, QuietKeeps DEF worker

\* A process that ends has no loop and no watcher.
LEMMA ProcessEndKeepsBootInv ==
    ASSUME BootInv, NEW w \in Worker, ProcessEnds(w) PROVE BootInv'
<1>1. /\ rev' = [rev EXCEPT ![w] = NoRev] /\ cursor' = [cursor EXCEPT ![w] = NoRev]
      /\ queue' = [queue EXCEPT ![w] = << >>] /\ plan' = [plan EXCEPT ![w] = {}]
      /\ main' = [main EXCEPT ![w] = "off"] /\ UNCHANGED changes
  BY DEF ProcessEnds
<1>2. LoopType'
  <2>1. << >> \in Seq(Change)
    BY EmptySeq
  <2> QED BY <1>1, <2>1 DEF BootInv, LoopType, Stage
<1>3. InStep(w)' /\ rev'[w] = NoRev
  BY <1>1 DEF BootInv, LoopType, InStep, InSync
<1> QED BY <1>1, <1>2, <1>3, OthersKeep DEF BootInv, LoopType

\* The keys that the Get returns, each queued once.
LEMMA GetKeepsBootInv == ASSUME BootInv, NEW w \in Worker, GetJobs(w) PROVE BootInv'
<1> DEFINE K == Keys(changes)
<1> DEFINE N == Len(changes)
<1>1. PICK s \in SetToSeqs(K) :
        queue' = [queue EXCEPT ![w] = [i \in DOMAIN s |-> [type |-> "save", job |-> s[i]]]]
  BY DEF GetJobs
<1> DEFINE q == [i \in DOMAIN s |-> [type |-> "save", job |-> s[i]]]
<1>2. /\ rev' = [rev EXCEPT ![w] = N] /\ UNCHANGED <<changes, cursor, plan>>
      /\ main[w] = "get" /\ main' = [main EXCEPT ![w] = "statusMgr"]
      /\ changes \in Seq(Change) /\ N \in Nat /\ N # NoRev
  BY LenProperties DEF GetJobs, ToStage, BootInv, LoopType, NoRev
<1>3. /\ cursor[w] = NoRev /\ plan[w] = {}
  BY <1>2 DEF BootInv, InStep, InSync, GetComesFirst
<1>4. K \subseteq Job
  <2>1. \A i \in DOMAIN changes : changes[i] \in Change
    BY <1>2, LenProperties, ElementOfSeq
  <2>2. \A i \in DOMAIN changes : changes[i].job \in Job
    BY <2>1 DEF Change
  <2> QED BY <2>2 DEF Keys, Named
<1>5. IsFiniteSet(K) /\ Cardinality(K) \in Nat
  <2>1. K \subseteq Named("save", changes)
    BY DEF Keys
  <2> QED BY <2>1, FS_Subset, FS_CardinalityType DEF BootInv, Consistent
<1>6. /\ s \in [1..Cardinality(K) -> K]
      /\ \A j \in K : \E i \in 1..Cardinality(K) : s[i] = j
  <2>1. /\ s \in [1..Cardinality(K) -> K]
        /\ \A i, k \in 1..Cardinality(K) : i # k => s[i] # s[k]
    BY DEF SetToSeqs
  <2>2. s \in Injection(1..Cardinality(K), K)
    BY <2>1 DEF Injection, IsInjective
  <2>3. Cardinality(1..Cardinality(K)) = Cardinality(K)
    BY <1>5, FS_Interval
  <2>4. s \in Surjection(1..Cardinality(K), K)
    BY <1>5, <2>2, <2>3, FS_Injection
  <2> QED BY <2>1, <2>4 DEF Surjection
<1>7. q \in Seq(Change) /\ DOMAIN q = 1..Cardinality(K)
      /\ \A i \in 1..Cardinality(K) : q[i].type = "save" /\ q[i].job = s[i]
  <2>1. DOMAIN s = 1..Cardinality(K)
    BY <1>6
  <2>2. \A i \in 1..Cardinality(K) : [type |-> "save", job |-> s[i]] \in Change
    BY <1>4, <1>6 DEF Change
  <2>3. [i \in 1..Cardinality(K) |-> [type |-> "save", job |-> s[i]]] \in Seq(Change)
    BY <1>5, <2>2, IsASeq
  <2> QED BY <2>1, <2>3
<1>8. Named("save", q) = K /\ Named("delete", q) = {} /\ InOrder(q)
  BY <1>6, <1>7 DEF Named, InOrder
<1> HIDE DEF q, K
<1>9. rev'[w] = N /\ cursor'[w] = NoRev /\ queue'[w] = q /\ plan'[w] = {}
  BY <1>1, <1>2, <1>3 DEF BootInv, LoopType, q
<1>10. LoopType'
  BY <1>1, <1>2, <1>7 DEF BootInv, LoopType, Stage, q
<1>11. KeysTo(changes, N) = K
  BY <1>2, KeysToAll DEF K
<1>12. InStep(w)'
  <2>1. Told(N, NoRev) = N
    BY DEF Told
  <2>2. InSync(N, NoRev, q, {}, changes)
    BY <1>2, <1>8, <1>11, <2>1 DEF InSync
  <2> QED BY <1>2, <1>9, <2>2 DEF InStep
<1> QED BY <1>1, <1>2, <1>10, <1>12, OthersKeep DEF BootInv, LoopType

\* The watch goes on from the revision of the Get.
LEMMA StartWatchKeepsBootInv ==
    ASSUME BootInv, NEW w \in Worker, StartWatch(w) PROVE BootInv'
<1>1. /\ rev[w] # NoRev /\ cursor[w] = NoRev /\ cursor' = [cursor EXCEPT ![w] = rev[w]]
      /\ UNCHANGED <<main, changes, rev, queue, plan>>
  BY DEF StartWatch, WatchFrom
<1>2. LoopType'
  BY <1>1 DEF BootInv, LoopType
<1>3. Told(rev[w], cursor[w]) = rev[w] /\ Told(rev[w], rev[w]) = rev[w]
  BY <1>1 DEF Told
<1>4. InSync(rev[w], rev[w], queue[w], plan[w], changes)
  BY <1>1, <1>3 DEF BootInv, InStep, InSync
<1>5. InStep(w)'
  BY <1>1, <1>4 DEF BootInv, LoopType, InStep
<1> QED BY <1>1, <1>2, <1>5, OthersKeep DEF BootInv, LoopType, GetComesFirst

\* The watcher delivers the next change.
LEMMA WatchJobsKeepsBootInv ==
    ASSUME BootInv, NEW w \in Worker, WatchJobs(w) PROVE BootInv'
<1> DEFINE n == cursor[w]
<1> DEFINE c == changes[n + 1]
<1> DEFINE q == Append(queue[w], c)
<1>1. /\ n \in 0..(Len(changes) - 1)
      /\ cursor' = [cursor EXCEPT ![w] = @ + 1]
      /\ queue' = [queue EXCEPT ![w] = Append(@, c)]
      /\ UNCHANGED <<main, changes, rev, plan>>
  BY DEF WatchJobs
<1>2. /\ changes \in Seq(Change) /\ Len(changes) \in Nat /\ n \in Nat /\ n # NoRev
      /\ n + 1 \in 1..Len(changes) /\ DOMAIN changes = 1..Len(changes)
      /\ c \in Change /\ queue[w] \in Seq(Change)
      /\ n + 1 \in 0..Len(changes) /\ n + 1 # NoRev
  BY <1>1, LenProperties, ElementOfSeq DEF BootInv, LoopType, NoRev
<1>3. /\ rev[w] # NoRev /\ Told(rev[w], n) = n /\ Told(rev[w], n + 1) = n + 1
      /\ queue'[w] = q /\ cursor'[w] = n + 1
  BY <1>1, <1>2 DEF BootInv, LoopType, InStep, InSync, Told
<1>4. LoopType'
  BY <1>1, <1>2, AppendProperties DEF BootInv, LoopType
<1>5. \A type : NamedTo(type, changes, n + 1) =
                    NamedTo(type, changes, n) \cup (IF c.type = type THEN {c.job} ELSE {})
  <2>1. \A i \in 1..(n + 1) : i \in 1..n \/ i = n + 1
    BY <1>2
  <2>2. \A i \in 1..n : i \in 1..(n + 1)
    BY <1>2
  <2>3. n + 1 \in 1..(n + 1)
    BY <1>2
  <2> QED BY <2>1, <2>2, <2>3 DEF NamedTo
<1>6. c.type = "save" => c.job \notin NamedTo("delete", changes, n)
  <2>1. \A i \in 1..n : i \in DOMAIN changes /\ i < n + 1
    BY <1>2
  <2> QED BY <1>2, <2>1 DEF NamedTo, BootInv, Consistent, InOrder
<1>7. c.type \in {"save", "delete"}
  BY <1>2 DEF Change
<1>8. \A type : Named(type, q) =
                    Named(type, queue[w]) \cup (IF c.type = type THEN {c.job} ELSE {})
  BY <1>2, AppendNamed
<1>9. /\ (plan[w] \cup Named("save", queue[w])) \ Named("delete", queue[w])
                = KeysTo(changes, n)
      /\ Named("delete", queue[w]) \subseteq NamedTo("delete", changes, n)
      /\ InOrder(queue[w])
  BY <1>3 DEF BootInv, InStep, InSync
<1>10. InOrder(q)
  BY <1>2, <1>6, <1>9, AppendInOrder
<1> HIDE DEF n, c, q
<1>11. Named("delete", q) \subseteq NamedTo("delete", changes, n + 1)
  BY <1>5, <1>8, <1>9
<1>12. (plan[w] \cup Named("save", q)) \ Named("delete", q) = KeysTo(changes, n + 1)
  <2>1. CASE c.type = "save"
    BY <1>5, <1>6, <1>8, <1>9, <2>1 DEF KeysTo
  <2>2. CASE c.type = "delete"
    BY <1>5, <1>8, <1>9, <2>2 DEF KeysTo
  <2> QED BY <1>7, <2>1, <2>2
<1>13. InSync(rev[w], n + 1, q, plan[w], changes)
  BY <1>3, <1>10, <1>11, <1>12 DEF InSync
<1>14. InStep(w)'
  BY <1>1, <1>3, <1>13 DEF InStep
<1> QED BY <1>1, <1>3, <1>4, <1>14, OthersKeep DEF BootInv, LoopType, GetComesFirst

\* The loop takes the next event.
LEMMA JobEventKeepsBootInv ==
    ASSUME BootInv, NEW w \in Worker, OnJobEvent(w) PROVE BootInv'
<1> DEFINE e == Head(queue[w])
<1> DEFINE q == Tail(queue[w])
<1> DEFINE planned == IF e.type = "save" THEN plan[w] \cup {e.job} ELSE plan[w] \ {e.job}
<1> DEFINE n == Told(rev[w], cursor[w])
<1>1. CASE Panics(w)
  BY <1>1, ProcessEndKeepsBootInv DEF Panics
<1>2. CASE ~Panics(w)
  <2>1. /\ queue[w] # << >> /\ plan' = [plan EXCEPT ![w] = planned]
        /\ queue' = [queue EXCEPT ![w] = Tail(@)] /\ UNCHANGED <<main, changes, rev, cursor>>
    BY <1>2 DEF OnJobEvent
  <2>2. queue[w] \in Seq(Change) /\ e \in Change /\ q \in Seq(Change)
    BY <2>1, HeadTailProperties DEF BootInv, LoopType
  <2>3. e.type \in {"save", "delete"} /\ e.job \in Job
    BY <2>2 DEF Change
  <2>4. plan'[w] = planned /\ queue'[w] = q /\ planned \in SUBSET Job
    BY <2>1, <2>3 DEF BootInv, LoopType
  <2>5. LoopType'
    BY <2>1, <2>2, <2>4 DEF BootInv, LoopType
  <2>6. /\ rev[w] # NoRev /\ InOrder(queue[w])
        /\ (plan[w] \cup Named("save", queue[w])) \ Named("delete", queue[w])
                = KeysTo(changes, n)
        /\ Named("delete", queue[w]) \subseteq NamedTo("delete", changes, n)
    BY <2>1 DEF BootInv, InStep, InSync
  <2>7. /\ \A type : Named(type, queue[w]) =
                Named(type, q) \cup (IF e.type = type THEN {e.job} ELSE {})
        /\ InOrder(q)
        /\ e.type = "delete" => e.job \notin Named("save", q)
    BY <2>1, <2>2, <2>6, TailNamed
  <2> HIDE DEF e, q, n
  <2>8. Named("delete", q) \subseteq NamedTo("delete", changes, n)
    BY <2>6, <2>7
  <2>9. (planned \cup Named("save", q)) \ Named("delete", q) = KeysTo(changes, n)
    <3>1. CASE e.type = "save"
      BY <2>6, <2>7, <3>1
    <3>2. CASE e.type = "delete"
      BY <2>6, <2>7, <3>2
    <3> QED BY <2>3, <3>1, <3>2
  <2> HIDE DEF planned
  <2>10. InSync(rev[w], cursor[w], q, planned, changes)
    BY <2>6, <2>7, <2>8, <2>9 DEF InSync, n
  <2>11. InStep(w)'
    BY <2>1, <2>4, <2>10 DEF InStep
  <2> QED BY <2>1, <2>5, <2>6, <2>11, OthersKeep DEF BootInv, LoopType, GetComesFirst
<1> QED BY <1>1, <1>2

\* Every step keeps the invariant.
LEMMA NextBootInv == BootInv /\ [StartupNext]_startupVars => BootInv'
<1> SUFFICES ASSUME BootInv, [StartupNext]_startupVars PROVE BootInv'
  OBVIOUS
<1>1. CASE MasterChanges
  BY <1>1, ChangesKeepBootInv
<1>2. ASSUME NEW w \in Worker, Boot(w) PROVE BootInv'
  BY <1>2, StageKeepsBootInv DEF Boot, Stage
<1>3. ASSUME NEW w \in Worker, Main(w) PROVE BootInv'
  <2>1. CASE InitRegister(w)
    BY <2>1, StageKeepsBootInv DEF InitRegister, Stage
  <2>2. CASE InitJobMgr(w)
    BY <2>2, StageKeepsBootInv DEF InitJobMgr, Stage
  <2>3. CASE MainFails(w)
    BY <2>3, ProcessEndKeepsBootInv DEF MainFails
  <2>4. CASE GetJobs(w)
    BY <2>4, GetKeepsBootInv
  <2>5. CASE GetFails(w)
    BY <2>5, StageKeepsBootInv DEF GetFails, Stage
  <2>6. CASE InitStatusMgr(w)
    BY <2>6, StageKeepsBootInv DEF InitStatusMgr, Stage
  <2>7. CASE InitLogMgr(w)
    BY <2>7, StageKeepsBootInv DEF InitLogMgr, Stage
  <2> QED BY <1>3, <2>1, <2>2, <2>3, <2>4, <2>5, <2>6, <2>7 DEF Main
<1>4. ASSUME NEW w \in Worker, Watch(w) PROVE BootInv'
  BY <1>4, StartWatchKeepsBootInv, WatchJobsKeepsBootInv DEF Watch
<1>5. ASSUME NEW w \in Worker, OnJobEvent(w) PROVE BootInv'
  BY <1>5, JobEventKeepsBootInv
<1>6. ASSUME UNCHANGED <<main, changes, rev, cursor, queue, plan>> PROVE BootInv'
  <2>1. LoopType' /\ GetComesFirst'
    BY <1>6 DEF BootInv, LoopType, GetComesFirst
  <2> QED BY <1>6, <2>1, QuietKeeps
<1>7. ASSUME NEW w \in Worker, NEW j \in Job, JobStarts(w, j) \/ JobEnds(w, j)
      PROVE  BootInv'
  BY <1>6, <1>7, ProcessEndKeepsBootInv DEF JobStarts, JobEnds, Panics
<1>8. ASSUME NEW w \in Worker, ProcessDies(w) PROVE BootInv'
  BY <1>8, ProcessEndKeepsBootInv DEF ProcessDies
<1>9. ASSUME NEW w \in Worker, Registration(w) PROVE BootInv'
  BY <1>6, <1>9 DEF Registration, boot, worker
<1>10. CASE Environment
  BY <1>6, <1>10 DEF Environment, boot, worker
<1>11. CASE UNCHANGED startupVars
  BY <1>6, <1>11 DEF startupVars, boot, worker
<1> QED BY <1>1, <1>2, <1>3, <1>4, <1>5, <1>7, <1>8, <1>9, <1>10, <1>11 DEF StartupNext

\* Once a worker has been told of every change and has handled the events, its
\* plan table has the jobs of etcd, whatever changed between the Get and the
\* watch of watchJobs, and however often the process died before.
THEOREM CaughtUpPlansJobsHolds == StartupSpec => []CaughtUpPlansJobs
<1>1. BootInv => CaughtUpPlansJobs
  <2> SUFFICES ASSUME BootInv, NEW w \in Worker, cursor[w] = Len(changes), queue[w] = << >>
               PROVE  plan[w] = Keys(changes)
    BY DEF CaughtUpPlansJobs
  <2>1. changes \in Seq(Change) /\ cursor[w] # NoRev
    BY LenProperties DEF BootInv, LoopType, NoRev
  <2>2. Named("save", queue[w]) = {} /\ Named("delete", queue[w]) = {}
    BY EmptySeq DEF Named
  <2>3. plan[w] = KeysTo(changes, Len(changes))
    BY <2>1, <2>2 DEF BootInv, InStep, InSync, Told
  <2> QED BY <2>1, <2>3, KeysToAll
<1> QED BY <1>1, InitBootInv, NextBootInv, PTL DEF StartupSpec

\* The types of a starting worker; in particular keepOnline runs exactly while
\* main is past InitRegister.
THEOREM StartupTypeCorrect == StartupSpec => []StartupTypeOK
<1> DEFINE Rest == /\ \A w \in Worker : pc[w] = "off" <=> main[w] \in {"off", "register"}
                   /\ exec \in [Worker -> SUBSET Job]
                   /\ panicked \in BOOLEAN
<1>1. StartupInit => Rest
  BY DEF StartupInit, Init
<1>2. TypeOK /\ BootInv /\ Rest /\ [StartupNext]_startupVars => Rest'
  <2> SUFFICES ASSUME TypeOK, BootInv, Rest, [StartupNext]_startupVars PROVE Rest'
    OBVIOUS
  <2>0. /\ pc \in [Worker -> PC] /\ main \in [Worker -> Stage]
    BY DEF TypeOK, BootInv, LoopType
  <2>2. ASSUME NEW w \in Worker, ProcessEnds(w), panicked' \in BOOLEAN PROVE Rest'
    <3>1. main' = [main EXCEPT ![w] = "off"] /\ exec' = [exec EXCEPT ![w] = {}]
      BY <2>2 DEF ProcessEnds
    <3>2. pc' = [pc EXCEPT ![w] = "off"]
      BY <2>0, <2>2 DEF ProcessEnds, Crash, Goto, vars
    <3> QED BY <2>0, <2>2, <3>1, <3>2
  <2>3. ASSUME UNCHANGED <<pc, main, panicked>>, exec' \in [Worker -> SUBSET Job] PROVE Rest'
    BY <2>3
  <2>4. CASE MasterChanges
    BY <2>3, <2>4 DEF MasterChanges, vars, worker
  <2>5. ASSUME NEW w \in Worker, Boot(w) PROVE Rest'
    <3>1. main[w] = "off" /\ main' = [main EXCEPT ![w] = "register"]
          /\ UNCHANGED <<pc, exec, panicked>>
      BY <2>5 DEF Boot, ToStage, vars, worker
    <3> QED BY <2>0, <3>1
  <2>6. ASSUME NEW w \in Worker, Main(w) PROVE Rest'
    <3>1. CASE InitRegister(w)
      <4>1. main' = [main EXCEPT ![w] = "jobMgr"] /\ pc' = [pc EXCEPT ![w] = "grant"]
            /\ UNCHANGED <<exec, panicked>>
        BY <3>1 DEF InitRegister, ToStage, Start, Goto, worker
      <4> QED BY <2>0, <4>1
    <3>2. CASE MainFails(w)
      BY <2>2, <3>2 DEF MainFails
    <3>3. CASE InitJobMgr(w) \/ GetJobs(w) \/ GetFails(w) \/ InitStatusMgr(w) \/ InitLogMgr(w)
      <4>1. /\ main[w] \notin {"off", "register"}
            /\ \E to \in Stage \ {"off", "register"} : main' = [main EXCEPT ![w] = to]
            /\ UNCHANGED <<pc, exec, panicked>>
        BY <3>3 DEF InitJobMgr, GetJobs, GetFails, InitStatusMgr, InitLogMgr, ToStage, vars,
                    worker, Stage
      <4> QED BY <2>0, <4>1
    <3> QED BY <2>6, <3>1, <3>2, <3>3 DEF Main
  <2>7. ASSUME NEW w \in Worker, Watch(w) PROVE Rest'
    BY <2>3, <2>7 DEF Watch, StartWatch, WatchJobs, vars
  <2>8. ASSUME NEW w \in Worker, OnJobEvent(w) PROVE Rest'
    BY <2>2, <2>3, <2>8 DEF OnJobEvent, Panics, vars
  <2>9. ASSUME NEW w \in Worker, NEW j \in Job, JobStarts(w, j) \/ JobEnds(w, j) PROVE Rest'
    BY <2>2, <2>3, <2>9 DEF JobStarts, JobEnds, Panics, vars
  <2>10. ASSUME NEW w \in Worker, ProcessDies(w) PROVE Rest'
    BY <2>2, <2>10 DEF ProcessDies
  <2>11. ASSUME NEW w \in Worker, Registration(w) PROVE Rest'
    <3>1. \E p, q \in PC \ {"off"} : pc[w] = p /\ pc' = [pc EXCEPT ![w] = q]
      BY <2>11 DEF Registration, Grant, KeepAlive, Put, KeepAliveEnds, Retry, Goto, PC
    <3> QED BY <2>0, <2>11, <3>1 DEF Registration, boot, worker
  <2>12. CASE Environment
    BY <2>3, <2>12 DEF Environment, KeepAliveLost, Expire, boot, worker
  <2>13. CASE UNCHANGED startupVars
    BY <2>3, <2>13 DEF startupVars, vars, boot, worker
  <2> QED BY <2>4, <2>5, <2>6, <2>7, <2>8, <2>9, <2>10, <2>11, <2>12, <2>13 DEF StartupNext
<1>3. BootInv /\ Rest => StartupTypeOK
  BY DEF BootInv, LoopType, StartupTypeOK
<1>4. StartupSpec => []TypeOK
  BY StartupRegisters, TypeCorrect, PTL
<1> HIDE DEF Rest
<1> QED BY <1>1, <1>2, <1>3, <1>4, InitBootInv, NextBootInv, PTL DEF StartupSpec

=============================================================================
