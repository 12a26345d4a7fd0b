------------------------------ MODULE MCQueue -------------------------------
(* Instances of Queue small enough for TLC. *)
EXTENDS Queue
=============================================================================
