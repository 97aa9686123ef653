------------------------------- MODULE JobLock -------------------------------
(***************************************************************************)
(* The distributed lock of one job, worker/core/job_lock.go, as            *)
(* Executor.ExecuteJob (worker/core/executor.go) uses it.  Each execution  *)
(* of the job is a goroutine r of the worker process Host[r].  It grants   *)
(* itself an etcd lease, keeps the lease alive from a goroutine of the     *)
(* client library, and puts the key /cron/lock/<job> under that lease in a *)
(* transaction that requires the key to be absent.  Only one lock key is   *)
(* modelled: the keys of different jobs never meet.                        *)
(*                                                                         *)
(* etcd is external: a lease without keep-alive may expire at any moment,  *)
(* a key dies with its lease, a request may fail before or after it took   *)
(* effect.  A running keep-alive may also stop getting through (partition, *)
(* long pause), which the code does not report to anybody; ReliableSpec is *)
(* the lock without that.                                                  *)
(***************************************************************************)
EXTENDS Naturals

CONSTANTS
    Run,        \* the executions of the job, over all workers
    Worker,     \* the worker processes
    Host,       \* the worker process an execution belongs to
    MaxLease    \* bound: leases granted in a behaviour

ASSUME LockAssumption ==
    /\ Host \in [Run -> Worker]
    /\ MaxLease \in Nat

VARIABLES
    pc,         \* where each execution is
    lease,      \* the lease of its current attempt (leaseId), or NoLease
    nextLease,  \* the next fresh lease ID of etcd
    alive,      \* the leases etcd considers alive
    keep,       \* the leases some worker keeps alive
    lockKey     \* the lease the lock key is attached to; NoLease: no such key

vars == <<pc, lease, nextLease, alive, keep, lockKey>>

NoLease == 0
Lease == Nat \ {NoLease}

(***************************************************************************)
(* "idle": not in TryLock .. Unlock (also the random sleep before TryLock);*)
(* "granted", "kept": the lease exists, its keep-alive was started;        *)
(* "failing": at FAIL; "locked": TryLock returned nil, the command runs;   *)
(* "pushed": the result was handed to the scheduler, Unlock is still due.  *)
(***************************************************************************)
PC == {"idle", "granted", "kept", "failing", "locked", "pushed"}

TypeOK ==
    /\ pc \in [Run -> PC]
    /\ nextLease \in Lease
    /\ lease \in [Run -> 0..(nextLease - 1)]
    /\ alive \subseteq 1..(nextLease - 1)
    /\ keep \subseteq alive
    /\ lockKey \in {NoLease} \cup alive

Init ==
    /\ pc = [r \in Run |-> "idle"]
    /\ lease = [r \in Run |-> NoLease]
    /\ nextLease = 1
    /\ alive = {}
    /\ keep = {}
    /\ lockKey = NoLease

-----------------------------------------------------------------------------
(* etcd *)

\* Mutant: the key is deleted by name, whoever holds it.
LeasesEnd_KeyByName(L) ==
    /\ alive' = alive \ L
    /\ lockKey' = NoLease

\* Leases L end, revoked or expired: etcd deletes the key attached to them.
LeasesEnd(L) ==
    /\ alive' = alive \ L
    /\ lockKey' = IF lockKey \in L THEN NoLease ELSE lockKey

\* A lease that nobody keeps alive runs out of its 5 seconds.
Expire(l) ==
    /\ l \in alive \ keep
    /\ LeasesEnd({l})
    /\ UNCHANGED <<pc, lease, nextLease, keep>>

\* Mutant: a plain Put, without the If.
KeyAbsent_PlainPut == TRUE

\* Mutant: the comparison is reversed.
KeyAbsent_Reversed == lockKey # NoLease

\* The If of the transaction: CreateRevision(lockKey) = 0.
KeyAbsent == lockKey = NoLease

-----------------------------------------------------------------------------
(* TryLock *)

\* Mutant: an attempt goes on with the lease of an earlier one.
Grant_OldLease(r) ==
    /\ pc[r] = "idle"
    /\ nextLease <= MaxLease
    /\ lease' = [lease EXCEPT ![r] = nextLease]
    /\ alive' = alive \cup {nextLease}
    /\ pc' = [pc EXCEPT ![r] = "granted"]
    /\ UNCHANGED <<nextLease, keep, lockKey>>

\* The call at executor.go:45 grants a lease.  (If Grant fails TryLock
\* returns the error and leaves nothing behind: no step of the lock.)
Grant(r) ==
    /\ pc[r] = "idle"
    /\ nextLease <= MaxLease
    /\ lease' = [lease EXCEPT ![r] = nextLease]
    /\ alive' = alive \cup {nextLease}
    /\ nextLease' = nextLease + 1
    /\ pc' = [pc EXCEPT ![r] = "granted"]
    /\ UNCHANGED <<keep, lockKey>>

\* lease.KeepAlive: an error goes to FAIL.  On a lease that is already gone
\* the library closes the response channel at once and renews nothing.
KeepAlive(r) ==
    /\ pc[r] = "granted"
    /\ \/ /\ keep' = keep \cup ({lease[r]} \cap alive)
          /\ pc' = [pc EXCEPT ![r] = "kept"]
       \/ /\ pc' = [pc EXCEPT ![r] = "failing"]
          /\ UNCHANGED keep
    /\ UNCHANGED <<lease, nextLease, alive, lockKey>>

\* The transaction succeeds: the key is put under the lease.
TxnSucceeds(r) ==
    /\ pc[r] = "kept"
    /\ KeyAbsent
    /\ lease[r] \in alive
    /\ lockKey' = lease[r]
    /\ pc' = [pc EXCEPT ![r] = "locked"]
    /\ UNCHANGED <<lease, nextLease, alive, keep>>

\* The key exists (ErrLockAlreadyRequired), or Commit returns an error: etcd
\* refused a dead lease, or the answer was lost, the Put applied or not.
TxnFails(r) ==
    /\ pc[r] = "kept"
    /\ lockKey' \in {lockKey} \cup
                    (IF KeyAbsent /\ lease[r] \in alive THEN {lease[r]} ELSE {})
    /\ pc' = [pc EXCEPT ![r] = "failing"]
    /\ UNCHANGED <<lease, nextLease, alive, keep>>

\* Mutant: the keep-alive is not cancelled.
GiveUpLease_NoCancel(r) ==
    /\ UNCHANGED keep
    /\ LeasesEnd({lease[r]}) \/ UNCHANGED <<alive, lockKey>>
    /\ lease' = [lease EXCEPT ![r] = NoLease]
    /\ pc' = [pc EXCEPT ![r] = "idle"]
    /\ UNCHANGED nextLease

\* cancelFunc() and Revoke, the common end of FAIL and of Unlock; the error
\* of Revoke is ignored, the lease is then left to expire.
GiveUpLease(r) ==
    /\ keep' = keep \ {lease[r]}
    /\ LeasesEnd({lease[r]}) \/ UNCHANGED <<alive, lockKey>>
    /\ lease' = [lease EXCEPT ![r] = NoLease]
    /\ pc' = [pc EXCEPT ![r] = "idle"]
    /\ UNCHANGED nextLease

Fail(r) == pc[r] = "failing" /\ GiveUpLease(r)

\* The command returns and PushJobResult hands its result over, with the lock
\* still held: Unlock is deferred.
Finish(r) ==
    /\ pc[r] = "locked"
    /\ pc' = [pc EXCEPT ![r] = "pushed"]
    /\ UNCHANGED <<lease, nextLease, alive, keep, lockKey>>

Unlock(r) == pc[r] = "pushed" /\ GiveUpLease(r)

-----------------------------------------------------------------------------
(* Failures *)

\* A keep-alive stops getting through.  The goroutine that reads the answers
\* gets nil and ends; the execution is told nothing and goes on.
KeepAliveLost(l) ==
    /\ l \in keep
    /\ keep' = keep \ {l}
    /\ UNCHANGED <<pc, lease, nextLease, alive, lockKey>>

\* The worker process dies with its goroutines and its keep-alives.
Crash(w) ==
    LET dead == {r \in Run : Host[r] = w} IN
    /\ \E r \in dead : pc[r] # "idle"
    /\ pc' = [r \in Run |-> IF r \in dead THEN "idle" ELSE pc[r]]
    /\ lease' = [r \in Run |-> IF r \in dead THEN NoLease ELSE lease[r]]
    /\ keep' = keep \ {lease[r] : r \in dead}
    /\ UNCHANGED <<nextLease, alive, lockKey>>

-----------------------------------------------------------------------------

\* Every step but the loss of a keep-alive.
ReliableNext ==
    \/ \E r \in Run :
          \/ Grant(r)
          \/ KeepAlive(r)
          \/ TxnSucceeds(r)
          \/ TxnFails(r)
          \/ Fail(r)
          \/ Finish(r)
          \/ Unlock(r)
    \/ \E l \in alive : Expire(l)
    \/ \E w \in Worker : Crash(w)

Next == ReliableNext \/ \E l \in keep : KeepAliveLost(l)

Spec == Init /\ [][Next]_vars

\* While keep-alives get through.
ReliableSpec == Init /\ [][ReliableNext]_vars

-----------------------------------------------------------------------------
(* Properties *)

\* TryLock returned nil and Unlock has not run (isLocked).
Holds(r) == pc[r] \in {"locked", "pushed"}

\* Of two executions that both believe to hold the lock, at most one still has
\* its lease: whatever is lost or crashes, a second holder appears only after
\* the first one's lease has ended (TryLock's transaction, Unlock, FAIL).
LeasedExclusion ==
    \A r, s \in Run :
        r # s /\ Holds(r) /\ Holds(s) => ~({lease[r], lease[s]} \subseteq alive)

\* Two executions of the job never supervise the command at the same time.
\* True as long as keep-alives get through (ReliableSpec).
MutualExclusion ==
    \A r, s \in Run : pc[r] = "locked" /\ pc[s] = "locked" => r = s

\* While keep-alives get through the lock implements its abstract promise.
Abstract == INSTANCE ExclusiveLock WITH holder <- {r \in Run : pc[r] = "locked"}

ImplementsExclusiveLock == Abstract!Spec

\* Whoever takes the key, crashes included, the key is free again later: no
\* crash, lost answer or failed Revoke holds the job forever.
KeyIsFreed == \A l \in 1..MaxLease : (lockKey = l) ~> (lockKey # l)

=============================================================================
