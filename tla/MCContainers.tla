---------------------------- MODULE MCContainers ----------------------------
(* Instances of Containers small enough for TLC. *)
EXTENDS Containers
=============================================================================
