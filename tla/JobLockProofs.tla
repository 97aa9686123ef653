---------------------------- MODULE JobLockProofs ----------------------------
(***************************************************************************)
(* What the runs of JobLock show on three executions, proved for any       *)
(* number of executions, workers and leases: the types, the exclusion of   *)
(* leased holders whatever is lost, and, while keep-alives get through,    *)
(* mutual exclusion and the implementation of ExclusiveLock.               *)
(*                                                                         *)
(* LeasedExclusion is not inductive: it says nothing of the key.  What     *)
(* keeps a second transaction from succeeding is that the holder with a    *)
(* live lease owns the key (HolderOwnsKey), which other executions cannot  *)
(* take away because no two attempts share a lease (LeasesDiffer).         *)
(***************************************************************************)
EXTENDS JobLock, TLAPS

\* An execution has a lease from Grant until FAIL or Unlock gives it up.
LeaseWhileBusy == \A r \in Run : pc[r] # "idle" => lease[r] # NoLease

\* No two executions use the same lease.
LeasesDiffer ==
    \A r, s \in Run : r # s /\ lease[r] = lease[s] => lease[r] = NoLease

\* A holder whose lease is alive owns the key.
HolderOwnsKey ==
    \A r \in Run : Holds(r) /\ lease[r] \in alive => lockKey = lease[r]

\* While keep-alives get through, a lease that is alive after KeepAlive is
\* kept alive, and a holder's lease is.
KeptAlive ==
    \A r \in Run :
        /\ pc[r] = "kept" /\ lease[r] \in alive => lease[r] \in keep
        /\ Holds(r) => lease[r] \in keep

IInv ==
    /\ TypeOK
    /\ LeaseWhileBusy
    /\ LeasesDiffer
    /\ HolderOwnsKey

USE DEF NoLease, Lease

-----------------------------------------------------------------------------
(* The inductive invariant *)

\* The end of one lease keeps the key on a live lease and takes away no other
\* lease (Revoke and expiry, etcd).
LEMMA EndOfLease ==
    ASSUME TypeOK, NEW l \in Nat, LeasesEnd({l}), keep' \subseteq keep \ {l}
    PROVE  /\ alive' = alive \ {l}
           /\ keep' \subseteq alive'
           /\ lockKey' \in {NoLease} \cup alive'
           /\ \A m \in alive' : lockKey = m => lockKey' = m
BY DEF TypeOK, LeasesEnd

\* FAIL and Unlock keep the inductive invariant.
LEMMA GiveUpLeaseKeepsIInv ==
    ASSUME IInv, NEW r \in Run, pc[r] # "idle", GiveUpLease(r)
    PROVE  IInv' /\ (KeptAlive => KeptAlive')
<1> USE DEF GiveUpLease
<1>1. lease[r] \in 1..(nextLease - 1) /\ lease[r] \in Nat
  BY DEF IInv, TypeOK, LeaseWhileBusy
<1>2. keep' = keep \ {lease[r]}
  OBVIOUS
<1>3. /\ alive' \in {alive, alive \ {lease[r]}}
      /\ keep' \subseteq alive'
      /\ lockKey' \in {NoLease} \cup alive'
      /\ \A m \in alive' : lockKey = m => lockKey' = m
  <2>1. CASE LeasesEnd({lease[r]})
    BY <1>1, <1>2, <2>1, EndOfLease DEF IInv
  <2>2. CASE UNCHANGED <<alive, lockKey>>
    BY <2>2, <1>2 DEF IInv, TypeOK
  <2> QED BY <2>1, <2>2
<1>4. \A s \in Run \ {r} : pc'[s] = pc[s] /\ lease'[s] = lease[s] /\ (Holds(s)' <=> Holds(s))
  BY DEF IInv, TypeOK, Holds
<1>5. pc'[r] = "idle" /\ lease'[r] = NoLease /\ ~Holds(r)'
  BY DEF IInv, TypeOK, Holds
<1>6. TypeOK'
  BY <1>1, <1>3 DEF IInv, TypeOK, PC
<1>7. LeaseWhileBusy' /\ LeasesDiffer'
  BY <1>4, <1>5 DEF IInv, LeaseWhileBusy, LeasesDiffer
<1>8. HolderOwnsKey'
  BY <1>3, <1>4, <1>5 DEF IInv, HolderOwnsKey
<1>9. KeptAlive => KeptAlive'
  <2> SUFFICES ASSUME KeptAlive, NEW s \in Run
               PROVE  /\ pc'[s] = "kept" /\ lease'[s] \in alive' => lease'[s] \in keep'
                      /\ Holds(s)' => lease'[s] \in keep'
    BY DEF KeptAlive
  <2>1. CASE s = r
    BY <2>1, <1>5
  <2>2. CASE s # r
    <3>1. lease[s] = lease[r] => lease[s] = NoLease
      BY <2>2 DEF IInv, LeasesDiffer
    <3>2. lease[s] # lease[r]
      BY <3>1, <1>1
    <3> QED BY <2>2, <3>2, <1>2, <1>3, <1>4 DEF IInv, KeptAlive
  <2> QED BY <2>1, <2>2
<1> QED BY <1>6, <1>7, <1>8, <1>9 DEF IInv

\* A transaction that puts the key finds no holder with a live lease.
LEMMA KeyAbsentMeansNoHolder ==
    ASSUME IInv, KeyAbsent
    PROVE  \A s \in Run : Holds(s) => lease[s] \notin alive
BY DEF IInv, TypeOK, KeyAbsent, HolderOwnsKey

\* The inductive invariant holds initially.
LEMMA InitIInv == Init => IInv
BY DEF Init, IInv, TypeOK, PC, LeaseWhileBusy, LeasesDiffer, HolderOwnsKey, Holds

\* Every step keeps the inductive invariant.
LEMMA NextIInv == IInv /\ [Next]_vars => IInv'
<1> SUFFICES ASSUME IInv, [Next]_vars PROVE IInv'
  OBVIOUS
<1> USE DEF IInv
<1>1. CASE UNCHANGED vars
  BY <1>1 DEF vars, TypeOK, LeaseWhileBusy, LeasesDiffer, HolderOwnsKey, Holds
<1>2. ASSUME NEW r \in Run, Grant(r) PROVE IInv'
  <2>1. /\ nextLease' = nextLease + 1
        /\ alive' = alive \cup {nextLease}
        /\ keep' = keep /\ lockKey' = lockKey
        /\ nextLease \in Nat \ {0}
    BY <1>2 DEF Grant, TypeOK
  <2>2. /\ lease'[r] = nextLease /\ pc'[r] = "granted"
        /\ \A s \in Run \ {r} : lease'[s] = lease[s] /\ pc'[s] = pc[s]
    BY <1>2 DEF Grant, TypeOK
  <2>3. \A s \in Run : lease[s] # nextLease /\ lease[s] \in Nat
    BY <2>1 DEF TypeOK
  <2>4. TypeOK'
    BY <1>2, <2>1 DEF Grant, TypeOK, PC
  <2>5. LeaseWhileBusy' /\ LeasesDiffer'
    BY <2>1, <2>2, <2>3 DEF LeaseWhileBusy, LeasesDiffer
  <2>6. HolderOwnsKey'
    BY <2>1, <2>2, <2>3 DEF HolderOwnsKey, Holds
  <2> QED BY <2>4, <2>5, <2>6
<1>3. ASSUME NEW r \in Run, KeepAlive(r) PROVE IInv'
  <2>1. TypeOK'
    BY <1>3 DEF KeepAlive, TypeOK, PC
  <2>2. LeaseWhileBusy' /\ LeasesDiffer'
    BY <1>3 DEF KeepAlive, TypeOK, LeaseWhileBusy, LeasesDiffer
  <2>3. HolderOwnsKey'
    BY <1>3 DEF KeepAlive, TypeOK, HolderOwnsKey, Holds
  <2> QED BY <2>1, <2>2, <2>3
<1>4. ASSUME NEW r \in Run, TxnSucceeds(r) PROVE IInv'
  <2>1. TypeOK'
    BY <1>4 DEF TxnSucceeds, TypeOK, PC
  <2>2. LeaseWhileBusy' /\ LeasesDiffer'
    BY <1>4 DEF TxnSucceeds, TypeOK, LeaseWhileBusy, LeasesDiffer
  <2>3. HolderOwnsKey'
    BY <1>4, KeyAbsentMeansNoHolder DEF TxnSucceeds, TypeOK, HolderOwnsKey, Holds
  <2> QED BY <2>1, <2>2, <2>3
<1>5. ASSUME NEW r \in Run, TxnFails(r) PROVE IInv'
  <2>1. TypeOK'
    BY <1>5 DEF TxnFails, TypeOK, PC
  <2>2. LeaseWhileBusy' /\ LeasesDiffer'
    BY <1>5 DEF TxnFails, TypeOK, LeaseWhileBusy, LeasesDiffer
  <2>3. HolderOwnsKey'
    BY <1>5, KeyAbsentMeansNoHolder DEF TxnFails, TypeOK, HolderOwnsKey, Holds
  <2> QED BY <2>1, <2>2, <2>3
<1>6. ASSUME NEW r \in Run, Fail(r) PROVE IInv'
  BY <1>6, GiveUpLeaseKeepsIInv DEF Fail
<1>7. ASSUME NEW r \in Run, Finish(r) PROVE IInv'
  <2>1. TypeOK'
    BY <1>7 DEF Finish, TypeOK, PC
  <2>2. LeaseWhileBusy' /\ LeasesDiffer'
    BY <1>7 DEF Finish, TypeOK, LeaseWhileBusy, LeasesDiffer
  <2>3. HolderOwnsKey'
    BY <1>7 DEF Finish, TypeOK, HolderOwnsKey, Holds
  <2> QED BY <2>1, <2>2, <2>3
<1>8. ASSUME NEW r \in Run, Unlock(r) PROVE IInv'
  BY <1>8, GiveUpLeaseKeepsIInv DEF Unlock
<1>9. ASSUME NEW l \in alive, Expire(l) PROVE IInv'
  <2>1. /\ l \in Nat /\ LeasesEnd({l}) /\ keep' = keep /\ l \notin keep
        /\ pc' = pc /\ lease' = lease /\ nextLease' = nextLease
    BY <1>9 DEF Expire, TypeOK
  <2>2. /\ alive' = alive \ {l}
        /\ keep' \subseteq alive'
        /\ lockKey' \in {NoLease} \cup alive'
        /\ \A m \in alive' : lockKey = m => lockKey' = m
    BY <2>1, EndOfLease
  <2>3. TypeOK'
    BY <2>1, <2>2 DEF TypeOK
  <2>4. LeaseWhileBusy' /\ LeasesDiffer'
    BY <2>1 DEF LeaseWhileBusy, LeasesDiffer
  <2>5. HolderOwnsKey'
    BY <2>1, <2>2 DEF HolderOwnsKey, Holds
  <2> QED BY <2>3, <2>4, <2>5
<1>10. ASSUME NEW l \in keep, KeepAliveLost(l) PROVE IInv'
  BY <1>10 DEF KeepAliveLost, TypeOK, LeaseWhileBusy, LeasesDiffer, HolderOwnsKey, Holds
<1>11. ASSUME NEW w \in Worker, Crash(w) PROVE IInv'
  <2> DEFINE dead == {r \in Run : Host[r] = w}
  <2>1. /\ \A r \in dead : pc'[r] = "idle" /\ lease'[r] = NoLease
        /\ \A r \in Run \ dead : pc'[r] = pc[r] /\ lease'[r] = lease[r]
        /\ keep' = keep \ {lease[r] : r \in dead}
        /\ nextLease' = nextLease /\ alive' = alive /\ lockKey' = lockKey
    BY <1>11 DEF Crash
  <2>2. TypeOK'
    <3>1. pc' \in [Run -> PC]
      BY <1>11 DEF Crash, TypeOK, PC
    <3>2. lease' \in [Run -> 0..(nextLease - 1)]
      BY <1>11 DEF Crash, TypeOK
    <3> QED BY <2>1, <3>1, <3>2 DEF TypeOK
  <2>3. LeaseWhileBusy' /\ LeasesDiffer'
    BY <2>1 DEF LeaseWhileBusy, LeasesDiffer
  <2>4. HolderOwnsKey'
    BY <2>1 DEF HolderOwnsKey, Holds
  <2> QED BY <2>2, <2>3, <2>4
<1> QED
  BY <1>1, <1>2, <1>3, <1>4, <1>5, <1>6, <1>7, <1>8, <1>9, <1>10, <1>11 DEF Next, ReliableNext

\* The inductive invariant holds in every reachable state.
THEOREM Inductive == Spec => []IInv
BY InitIInv, NextIInv, PTL DEF Spec

\* As long as no keep-alive gets lost, live leases stay kept alive.
LEMMA ReliableKeepsKept == IInv /\ KeptAlive /\ [ReliableNext]_vars => KeptAlive'
<1> SUFFICES ASSUME IInv, KeptAlive, [ReliableNext]_vars PROVE KeptAlive'
  OBVIOUS
<1> USE DEF IInv
<1>1. CASE UNCHANGED vars
  BY <1>1 DEF vars, KeptAlive, Holds
<1>2. ASSUME NEW r \in Run, Grant(r) PROVE KeptAlive'
  <2>1. /\ alive' = alive \cup {nextLease} /\ keep' = keep
        /\ lease'[r] = nextLease /\ pc'[r] = "granted"
        /\ \A s \in Run \ {r} : lease'[s] = lease[s] /\ pc'[s] = pc[s]
    BY <1>2 DEF Grant, TypeOK
  <2>2. \A s \in Run : lease[s] # nextLease
    BY DEF TypeOK
  <2> QED BY <2>1, <2>2 DEF KeptAlive, Holds
<1>3. ASSUME NEW r \in Run, KeepAlive(r) PROVE KeptAlive'
  BY <1>3 DEF KeepAlive, TypeOK, KeptAlive, Holds
<1>4. ASSUME NEW r \in Run, TxnSucceeds(r) PROVE KeptAlive'
  BY <1>4 DEF TxnSucceeds, TypeOK, KeptAlive, Holds
<1>5. ASSUME NEW r \in Run, TxnFails(r) PROVE KeptAlive'
  BY <1>5 DEF TxnFails, TypeOK, KeptAlive, Holds
<1>6. ASSUME NEW r \in Run, Fail(r) \/ Unlock(r) PROVE KeptAlive'
  BY <1>6, GiveUpLeaseKeepsIInv DEF Fail, Unlock
<1>7. ASSUME NEW r \in Run, Finish(r) PROVE KeptAlive'
  BY <1>7 DEF Finish, TypeOK, KeptAlive, Holds
<1>8. ASSUME NEW l \in alive, Expire(l) PROVE KeptAlive'
  <2>1. alive' \subseteq alive /\ UNCHANGED <<pc, lease, keep>>
    BY <1>8 DEF Expire, LeasesEnd
  <2> QED BY <2>1 DEF KeptAlive, Holds
<1>9. ASSUME NEW w \in Worker, Crash(w) PROVE KeptAlive'
  <2> DEFINE dead == {r \in Run : Host[r] = w}
  <2>1. /\ \A r \in dead : pc'[r] = "idle" /\ lease'[r] = NoLease
        /\ \A r \in Run \ dead : pc'[r] = pc[r] /\ lease'[r] = lease[r]
        /\ keep' = keep \ {lease[r] : r \in dead} /\ alive' = alive
    BY <1>9 DEF Crash
  <2> SUFFICES ASSUME NEW s \in Run
               PROVE  /\ pc'[s] = "kept" /\ lease'[s] \in alive' => lease'[s] \in keep'
                      /\ Holds(s)' => lease'[s] \in keep'
    BY DEF KeptAlive
  <2>2. CASE s \in dead
    BY <2>2, <2>1 DEF Holds
  <2>3. CASE s \notin dead
    <3>1. lease[s] \in keep => lease[s] \in keep'
      BY <2>3, <2>1 DEF LeasesDiffer, TypeOK
    <3> QED BY <2>3, <3>1, <2>1 DEF KeptAlive, Holds
  <2> QED BY <2>2, <2>3
<1> QED
  BY <1>1, <1>2, <1>3, <1>4, <1>5, <1>6, <1>7, <1>8, <1>9 DEF ReliableNext

\* While keep-alives get through, a holder's lease is kept alive.
THEOREM ReliableInductive == ReliableSpec => [](IInv /\ KeptAlive)
<1>1. Init => KeptAlive
  BY DEF Init, KeptAlive, Holds
<1>2. [ReliableNext]_vars => [Next]_vars
  BY DEF Next
<1> QED BY <1>1, <1>2, InitIInv, NextIInv, ReliableKeepsKept, PTL DEF ReliableSpec

-----------------------------------------------------------------------------
(* What it implies *)

\* A lease that somebody keeps alive, or that carries the key, is alive, and
\* lease numbers are never reused.
THEOREM TypeCorrect == Spec => []TypeOK
<1>1. IInv => TypeOK
  BY DEF IInv
<1> QED BY <1>1, Inductive, PTL

\* Whatever is lost or crashes, a second execution gets the lock only after
\* the lease of the first one has ended.
THEOREM LeasedExclusionHolds == Spec => []LeasedExclusion
<1>1. IInv => LeasedExclusion
  BY DEF IInv, TypeOK, LeasesDiffer, HolderOwnsKey, LeasedExclusion
<1> QED BY <1>1, Inductive, PTL

\* While keep-alives get through, a holder owns the key.
LEMMA HolderHasKey ==
    ASSUME KeptAlive, IInv, NEW r \in Run, Holds(r)
    PROVE  lockKey = lease[r] /\ lockKey # NoLease
<1>1. lease[r] \in keep
  BY DEF KeptAlive
<1>2. lease[r] \in alive
  BY <1>1 DEF IInv, TypeOK
<1>3. lockKey = lease[r]
  BY <1>2 DEF IInv, HolderOwnsKey
<1>4. 0 \notin alive
  BY DEF IInv, TypeOK
<1> QED BY <1>2, <1>3, <1>4

\* The invariant gives mutual exclusion in every state.
LEMMA IInvMutualExclusion == ASSUME KeptAlive, IInv PROVE MutualExclusion
<1> SUFFICES ASSUME NEW r \in Run, NEW s \in Run, pc[r] = "locked", pc[s] = "locked"
             PROVE  r = s
  BY DEF MutualExclusion
<1>1. lockKey = lease[r] /\ lockKey = lease[s] /\ lockKey # NoLease
  BY HolderHasKey DEF Holds
<1> QED BY <1>1 DEF IInv, LeasesDiffer

\* While keep-alives get through, two executions of the job never supervise
\* the command at the same time, crashes and lost answers included.
THEOREM MutualExclusionHolds == ReliableSpec => []MutualExclusion
<1>1. IInv /\ KeptAlive => MutualExclusion
  BY IInvMutualExclusion
<1> QED BY <1>1, ReliableInductive, PTL

-----------------------------------------------------------------------------
(* Refinement *)

Holders == {r \in Run : pc[r] = "locked"}

\* A lock starts free.
LEMMA InitRefines == Init => Abstract!Init
BY DEF Init, Abstract!Init

\* A step that changes no pc to or from "locked" is a stutter of ExclusiveLock.
LEMMA SameHolders ==
    ASSUME TypeOK, TypeOK', NEW r \in Run, NEW p \in PC,
           pc' = [pc EXCEPT ![r] = p], pc[r] # "locked", p # "locked"
    PROVE  Holders' = Holders
BY DEF Holders, TypeOK

\* Every step of the lock is a step of ExclusiveLock or a stutter.
LEMMA NextRefines ==
    ASSUME KeptAlive, IInv, [ReliableNext]_vars
    PROVE  [Abstract!Next]_Holders
<1> USE DEF Holders
<1>0. TypeOK /\ TypeOK' /\ MutualExclusion
  BY NextIInv, IInvMutualExclusion DEF IInv, Next
<1>1. CASE UNCHANGED vars
  BY <1>1 DEF vars
<1>2. ASSUME NEW r \in Run, Grant(r) PROVE Holders' = Holders
  BY <1>0, <1>2, SameHolders DEF Grant, PC
<1>3. ASSUME NEW r \in Run, KeepAlive(r) PROVE Holders' = Holders
  BY <1>0, <1>3, SameHolders DEF KeepAlive, PC
<1>4. ASSUME NEW r \in Run, TxnSucceeds(r) PROVE Abstract!Acquire(r)
  <2>1. Holders = {}
    BY <1>4, HolderHasKey DEF TxnSucceeds, KeyAbsent, Holds
  <2>2. Holders' = {r}
    BY <1>0, <1>4, <2>1 DEF TxnSucceeds, TypeOK
  <2> QED BY <2>1, <2>2 DEF Abstract!Acquire
<1>5. ASSUME NEW r \in Run, TxnFails(r) PROVE Holders' = Holders
  BY <1>0, <1>5, SameHolders DEF TxnFails, PC
<1>6. ASSUME NEW r \in Run, Fail(r) \/ Unlock(r) PROVE Holders' = Holders
  BY <1>0, <1>6, SameHolders DEF Fail, Unlock, GiveUpLease, PC
<1>7. ASSUME NEW r \in Run, Finish(r) PROVE Abstract!Release(r)
  BY <1>0, <1>7 DEF Finish, TypeOK, Abstract!Release
<1>8. ASSUME NEW l, Expire(l) PROVE Holders' = Holders
  BY <1>8 DEF Expire
<1>9. ASSUME NEW w \in Worker, Crash(w)
      PROVE  Holders' = Holders \/ \E r \in Run : Abstract!Release(r)
  <2>1. Holders' = {r \in Holders : Host[r] # w}
    BY <1>0, <1>9 DEF Crash, TypeOK
  <2>2. CASE \E r \in Holders : Host[r] = w
    <3>1. PICK r \in Holders : Host[r] = w
      BY <2>2
    <3>2. Holders = {r}
      BY <1>0, <3>1 DEF MutualExclusion
    <3>3. Holders' = Holders \ {r}
      BY <2>1, <3>1, <3>2
    <3> QED BY <3>1, <3>3 DEF Abstract!Release
  <2>3. CASE \A r \in Holders : Host[r] # w
    BY <2>1, <2>3
  <2> QED BY <2>2, <2>3
<1> QED
  BY <1>1, <1>2, <1>3, <1>4, <1>5, <1>6, <1>7, <1>8, <1>9 DEF ReliableNext, Abstract!Next

\* While keep-alives get through, JobLock implements ExclusiveLock.
THEOREM Refinement == ReliableSpec => ImplementsExclusiveLock
<1>1. IInv /\ KeptAlive /\ [ReliableNext]_vars => [Abstract!Next]_Holders
  BY NextRefines
<1> QED
  BY <1>1, InitRefines, ReliableInductive, PTL
     DEF ReliableSpec, ImplementsExclusiveLock, Abstract!Spec, Holders

=============================================================================
