---------------------------- MODULE ExclusiveLock ----------------------------
(***************************************************************************)
(* What the lock of a job promises to its users (worker/core/job_lock.go,  *)
(* "JobLock"): of all the executions of one job, over all workers, at most *)
(* one supervises the shell command at a time.  How the promise is kept    *)
(* (leases, keep-alives, a transaction on the lock key) is JobLock.tla.    *)
(***************************************************************************)
CONSTANT Run            \* the executions (goroutines of ExecuteJob)

VARIABLE holder         \* the executions that supervise the command

TypeOK == holder \subseteq Run

Init == holder = {}

\* An execution starts the command; nobody else may be at it.
Acquire(r) ==
    /\ holder = {}
    /\ holder' = {r}

\* An execution ends: the command returned, or its worker died.
Release(r) ==
    /\ r \in holder
    /\ holder' = holder \ {r}

Next == \E r \in Run : Acquire(r) \/ Release(r)

Spec == Init /\ [][Next]_holder

=============================================================================
