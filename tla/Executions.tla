----------------------------- MODULE Executions -----------------------------
(***************************************************************************)
(* What a worker promises about executing jobs (worker/core/scheduler.go,  *)
(* executor.go): a job has one execution at a time.  It waits for its      *)
(* lock, runs its command perhaps, ends, and is taken off the table by its *)
(* result, before the next one starts.  A kill concerns the execution that *)
(* it finds: if that one still waits it does not run the command, and the  *)
(* next execution knows nothing of it.                                     *)
(*                                                                         *)
(* How the promise is kept, by two tables, goroutines and channels, is     *)
(* Scheduler.tla.                                                          *)
(***************************************************************************)
EXTENDS Naturals

CONSTANT Job

VARIABLES
    phase,      \* of the execution of each job; "idle": there is none
    killed,     \* the jobs whose execution was killed
    ran         \* history: commands started, per job

vars == <<phase, killed, ran>>

TypeOK ==
    /\ phase \in [Job -> {"idle", "waiting", "running", "ended"}]
    /\ killed \subseteq {j \in Job : phase[j] # "idle"}
    /\ ran \in [Job -> Nat]

Init ==
    /\ phase = [j \in Job |-> "idle"]
    /\ killed = {}
    /\ ran = [j \in Job |-> 0]

\* An iteration of the loop receives the result of one execution, or a kill
\* of one, or neither, and starts executions; that of the result may be
\* followed by the next one of its job at once.
Iterate(over, kill, start) ==
    /\ \A j, k \in over \cup kill : j = k
    /\ \A j \in over : phase[j] = "ended"
    /\ \A j \in kill : phase[j] # "idle" /\ j \notin over
    /\ \A j \in start : phase[j] = "idle" \/ j \in over
    /\ phase' = [j \in Job |-> IF j \in start THEN "waiting"
                               ELSE IF j \in over THEN "idle" ELSE phase[j]]
    /\ killed' = (killed \ over) \cup kill
    /\ UNCHANGED ran

\* The lock is taken and the command starts.
Run(j) ==
    /\ phase[j] = "waiting"
    /\ j \notin killed
    /\ phase' = [phase EXCEPT ![j] = "running"]
    /\ ran' = [ran EXCEPT ![j] = @ + 1]
    /\ UNCHANGED killed

\* The command returns, or the lock is not to be had.
End(j) ==
    /\ phase[j] \in {"waiting", "running"}
    /\ phase' = [phase EXCEPT ![j] = "ended"]
    /\ UNCHANGED <<killed, ran>>

\* The process ends, and its executions with it.
Die ==
    /\ phase' = [j \in Job |-> "idle"]
    /\ killed' = {}
    /\ UNCHANGED ran

Next ==
    \/ \E over, kill, start \in SUBSET Job : Iterate(over, kill, start)
    \/ \E j \in Job : Run(j) \/ End(j)
    \/ Die

Spec == Init /\ [][Next]_vars

=============================================================================
