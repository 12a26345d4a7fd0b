-------------------------------- MODULE Fifo --------------------------------
(***************************************************************************)
(* What Kvasir::Atomic::Queue promises to its one producer and its one     *)
(* consumer: a bounded first-in first-out sequence.  Every call takes      *)
(* effect at one instant between its beginning and its return, however     *)
(* many elements it moves.                                                 *)
(***************************************************************************)
EXTENDS Naturals, Sequences

CONSTANTS
  Values,     \* the elements
  Capacity,   \* max_size()
  MaxBatch    \* bound on the size of a range passed in one call

VARIABLES
  q,     \* the elements pushed and not yet popped
  put,   \* the producer's latest call: its arguments and how it ended
  get    \* the consumer's latest call: what it asked for and what it got

vars == <<q, put, get>>

Ranges == UNION {[1 .. n -> Values] : n \in 0 .. MaxBatch}

Init ==
  /\ q = <<>>
  /\ put = [st |-> "ok", in |-> <<>>]
  /\ get = [st |-> "ok", n |-> 0, out |-> <<>>]

PutCall ==
  /\ put.st # "called"
  /\ \E s \in Ranges : put' = [st |-> "called", in |-> s]
  /\ UNCHANGED <<q, get>>

\* All the elements of the range enter together, in their order.
Put ==
  /\ put.st = "called"
  /\ q' = q \o put.in
  /\ Len(q') <= Capacity
  /\ put' = [put EXCEPT !.st = "ok"]
  /\ UNCHANGED get

\* Nothing enters, which only lack of room excuses.
Refuse ==
  /\ put.st = "called"
  /\ Len(q) + Len(put.in) > Capacity
  /\ put' = [put EXCEPT !.st = "overflow"]
  /\ UNCHANGED <<q, get>>

GetCall ==
  /\ get.st # "called"
  /\ \E n \in 0 .. MaxBatch \cup {1} : get' = [st |-> "called", n |-> n, out |-> <<>>]
  /\ UNCHANGED <<q, put>>

\* The oldest elements leave together; pop() drops them without a copy.
Get ==
  /\ get.st = "called"
  /\ get.n <= Len(q)
  /\ q' = SubSeq(q, get.n + 1, Len(q))
  /\ \E out \in {SubSeq(q, 1, get.n), <<>>} :
       get' = [st |-> "ok", n |-> get.n, out |-> out]
  /\ UNCHANGED put

\* front(): the oldest element is shown and stays.
Peek ==
  /\ get.st = "called"
  /\ get.n = 1
  /\ q # <<>>
  /\ get' = [st |-> "ok", n |-> 1, out |-> <<Head(q)>>]
  /\ UNCHANGED <<q, put>>

\* Nothing leaves, which only lack of elements excuses.
Miss ==
  /\ get.st = "called"
  /\ Len(q) < get.n
  /\ get' = [get EXCEPT !.st = "empty"]
  /\ UNCHANGED <<q, put>>

Clear ==
  /\ q' = <<>>
  /\ UNCHANGED <<put, get>>

Next == PutCall \/ Put \/ Refuse \/ GetCall \/ Get \/ Peek \/ Miss \/ Clear

Spec == Init /\ [][Next]_vars
=============================================================================
