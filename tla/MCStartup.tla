------------------------------ MODULE MCStartup ------------------------------
(***************************************************************************)
(* One worker, which may end and start again, on one host.                 *)
(***************************************************************************)
EXTENDS Startup

CONSTANT w1

OneWorker == {w1}
OneHost == [w \in OneWorker |-> "10.0.0.1"]

=============================================================================
