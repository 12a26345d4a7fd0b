----------------------------- MODULE AtomicCell -----------------------------
(***************************************************************************)
(* What the operations of Atomic/detail promise: every load, store,        *)
(* exchange, compare_exchange and fetch_add takes effect on the whole      *)
(* object at one moment between its call and its return.                   *)
(***************************************************************************)
EXTENDS AtomicOps

CONSTANT Contexts   \* main and the interrupt handlers

VARIABLES
  cell,    \* the object
  call,    \* the operation a context is in
  done,    \* whether it took effect
  answer   \* and its answer, then

vars == <<cell, call, done, answer>>

Init ==
  /\ cell = <<Zero, Zero>>
  /\ call = [c \in Contexts |-> None]
  /\ done = [c \in Contexts |-> FALSE]
  /\ answer = [c \in Contexts |-> <<Zero, Zero>>]

Begin(c, r) ==
  /\ call[c] = None
  /\ call' = [call EXCEPT ![c] = r]
  /\ UNCHANGED <<cell, done, answer>>

Effect(c) ==
  /\ call[c] # None /\ ~done[c]
  /\ cell' = IF Writes(call[c], cell) THEN New(call[c], cell) ELSE cell
  /\ done' = [done EXCEPT ![c] = TRUE]
  /\ answer' = [answer EXCEPT ![c] = Answer(call[c], cell)]
  /\ UNCHANGED call

End(c) ==
  /\ done[c]
  /\ call' = [call EXCEPT ![c] = None]
  /\ done' = [done EXCEPT ![c] = FALSE]
  /\ answer' = [answer EXCEPT ![c] = <<Zero, Zero>>]
  /\ UNCHANGED cell

Next == \E c \in Contexts : (\E r \in Requests : Begin(c, r)) \/ Effect(c) \/ End(c)

Spec == Init /\ [][Next]_vars
=============================================================================
