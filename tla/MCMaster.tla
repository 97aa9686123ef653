------------------------------ MODULE MCMaster -------------------------------
(***************************************************************************)
(* Two requests at a time; a user who is logged in, and one to come.       *)
(***************************************************************************)
EXTENDS Master

MCUsername == {"u1", "u2"}
MCExisting == <<"u1">>

=============================================================================
