-------------------------- MODULE MCWorkerRegistry ---------------------------
(***************************************************************************)
(* Two workers on the same host.                                           *)
(***************************************************************************)
EXTENDS WorkerRegistry

CONSTANTS w1, w2

TwoWorkers == {w1, w2}
OneHost == [w \in TwoWorkers |-> "10.0.0.1"]

=============================================================================
