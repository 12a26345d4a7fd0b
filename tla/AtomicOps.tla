----------------------------- MODULE AtomicOps ------------------------------
(***************************************************************************)
(* The operations of Atomic/detail on an object: what they read, write and *)
(* answer.                                                                 *)
(***************************************************************************)

CONSTANTS
  Words,       \* what one word of the object holds
  Zero,        \* the word an object starts with
  Plus(_, _),  \* the sum of two objects, with the carry from word to word
  Requests     \* the operations the contexts call

\* An object is wider than a word.
Values == Words \X Words

Operations == {"load", "store", "exchange", "compare_exchange", "fetch_add"}

ASSUME AtomicOpsAssumption ==
  /\ Zero \in Words
  /\ \A a, b \in Values : Plus(a, b) \in Values
  /\ Requests \subseteq [op : Operations, expected : Values, value : Values]

None == [op |-> "none", expected |-> <<Zero, Zero>>, value |-> <<Zero, Zero>>]

\* Whether r writes the object when it holds old, and what it then writes.
Writes(r, old) ==
  /\ r.op # "load"
  /\ r.op = "compare_exchange" => old = r.expected

New(r, old) == IF r.op = "fetch_add" THEN Plus(old, r.value) ELSE r.value

\* What r answers: what the object held, which a compare_exchange that failed
\* leaves in expected.
Answer(r, old) == IF r.op = "store" THEN <<Zero, Zero>> ELSE old
=============================================================================
