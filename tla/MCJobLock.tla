------------------------------ MODULE MCJobLock ------------------------------
(***************************************************************************)
(* Two workers; the first one has two executions, since a worker may start *)
(* the next execution of a job before the previous one has run Unlock.     *)
(***************************************************************************)
EXTENDS JobLock

CONSTANTS r1, r2, r3, w1, w2

MCRun == {r1, r2, r3}
MCWorker == {w1, w2}
MCHost == [r \in MCRun |-> IF r = r3 THEN w2 ELSE w1]

=============================================================================
