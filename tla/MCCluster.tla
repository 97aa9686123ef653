------------------------------ MODULE MCCluster ------------------------------
(***************************************************************************)
(* Two workers; the first one may be restarted once, so that it has two    *)
(* executions.                                                             *)
(***************************************************************************)
EXTENDS Cluster

CONSTANTS r1, r2, r3, w1, w2

MCRun == {r1, r2, r3}
MCWorker == {w1, w2}
MCHost == [r \in MCRun |-> IF r = r3 THEN w2 ELSE w1]

TwoRuns == {r1, r3}
TwoHost == [r \in TwoRuns |-> IF r = r3 THEN w2 ELSE w1]

=============================================================================
