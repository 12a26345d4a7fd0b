---------------------------- MODULE MCUtilities -----------------------------
(***************************************************************************)
(* Fields of one and two bytes of a message of three, a saturating value   *)
(* of a type of seven numbers, and characters of every base for TLC.       *)
(***************************************************************************)
EXTENDS Utilities

MCFields ==
  { [high |-> 2,  low |-> 0,  min |-> {},  max |-> {0, 1, 2}],
    [high |-> 9,  low |-> 5,  min |-> {0}, max |-> {1, 4}],
    [high |-> 21, low |-> 12, min |-> {},  max |-> 0 .. 9],
    [high |-> 13, low |-> 7,  min |-> {2}, max |-> {5}] }
MCMessages == {[n \in 0 .. 2 |-> {}], [n \in 0 .. 2 |-> 0 .. 7]}
MCAssigned == {{}, {0}, {1, 2}, {0, 4}, 0 .. 7, {9}, {0, 3, 9}, {5}}

MCTypeMin  == -4
MCMin      == -2
MCOperands == -9 .. 9

MCCharacters == {"0", "1", "7", "9", "f", "x", "b", "'"}
=============================================================================
