----------------------------- MODULE MCLiterals -----------------------------
(* Literals small enough for TLC. *)
EXTENDS Literals

MCCharacters == {"0", "1", "7", "x"}
=============================================================================
