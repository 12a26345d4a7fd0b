------------------------------- MODULE Queue --------------------------------
(***************************************************************************)
(* Kvasir::Atomic::Queue (Atomic/Queue.hpp): a ring of Size slots shared   *)
(* by one producer and one consumer, usually main and an interrupt         *)
(* handler.  Each load and store of the shared memory is a step of its     *)
(* own, so the model holds for either side preempting the other anywhere.  *)
(* The compiler keeps the atomic accesses in program order and the signal  *)
(* fences keep the slots on the right side of the commits.                 *)
(*                                                                         *)
(* IndexType never wraps: next() computes in int and the static_assert of  *)
(* the class keeps Size below the type's maximum.                          *)
(***************************************************************************)
EXTENDS Integers, Sequences

CONSTANTS
  Size,              \* the template argument: Size - 1 elements fit
  Values,            \* the elements
  Zero,              \* the value-initialised element
  MaxBatch,          \* bound on the size of a range passed to push/pop_into
  AssertOnOverflow   \* OverFlowPolicyAssert, else OverFlowPolicyIgnore

ASSUME QueueAssumption ==
  /\ Size \in Nat \ {0}
  /\ Zero \in Values
  /\ MaxBatch \in Nat \ {0}
  /\ AssertOnOverflow \in BOOLEAN

VARIABLES
  head,    \* head_: the oldest element, written by the consumer only
  tail,    \* tail_: the next free slot, written by the producer only
  data,    \* data_
  \* the producer's call in progress or just ended
  ppc,     \* the step it is at, or how it ended
  pop,     \* push(T) is "push", push(range) is "push_range"
  in,      \* its argument
  pk,      \* the elements it has written
  ptail,   \* its local tail
  \* the consumer's call in progress or just ended
  cpc,     \* the step it is at, or how it ended
  cop,     \* pop(), pop_into(T&), pop_into(range) ("pop_range") or front()
  cn,      \* the elements it asks for
  out,     \* those it has copied out
  chead,   \* its local head
  ctail    \* its local tail

shared == <<head, tail, data>>
pvars  == <<ppc, pop, in, pk, ptail>>
cvars  == <<cpc, cop, cn, out, chead, ctail>>
vars   == <<shared, pvars, cvars>>

Slots  == 0 .. Size - 1
Ranges == UNION {[1 .. n -> Values] : n \in 0 .. MaxBatch}

distance(h, t) == IF t - h < 0 THEN t - h + Size ELSE t - h

next(i) == (i + 1) % Size

Init ==
  /\ head = 0 /\ tail = 0
  /\ data = [i \in Slots |-> Zero]
  /\ ppc = "ok" /\ pop = "push_range" /\ in = <<>> /\ pk = 0 /\ ptail = 0
  /\ cpc = "ok" /\ cop = "pop_range" /\ cn = 0 /\ out = <<>> /\ chead = 0 /\ ctail = 0

\* The program has not stopped in the assert(false) of either context.
Running == ppc # "assert" /\ cpc # "assert"

PIdle == ppc \in {"ok", "overflow"} /\ Running
CIdle == cpc \in {"ok", "empty", "holding"} /\ Running

PAt(pc) == ppc = pc /\ Running
CAt(pc) == cpc = pc /\ Running

OverflowPolicy == IF AssertOnOverflow THEN "assert" ELSE "overflow"
-----------------------------------------------------------------------------
(* The producer.                                                            *)

\* A push begins and loads tail_.
PushCall(op, s) ==
  /\ PIdle
  /\ ppc' = "load_head" /\ pop' = op /\ in' = s /\ pk' = 0 /\ ptail' = tail
  /\ UNCHANGED <<shared, cvars>>

\* Mutant: the last slot is given away too, and a full ring looks empty.
HasRoomOffByOne ==
  IF pop = "push" THEN head # ptail \/ head = tail
                  ELSE Len(in) <= Size - distance(head, ptail)

\* push(T) compares indices, push(range) compares sizes.
HasRoom ==
  IF pop = "push" THEN head # next(ptail)
                  ELSE Len(in) < Size - distance(head, ptail)

\* Mutant: no return after the overflow policy.
PushLoadHeadNoReturn ==
  /\ PAt("load_head")
  /\ ppc' = IF in = <<>> THEN "commit" ELSE "write"
  /\ UNCHANGED <<shared, pop, in, pk, ptail, cvars>>

\* The load of head_, and the branch on it.
PushLoadHead ==
  /\ PAt("load_head")
  /\ ppc' = IF ~HasRoom THEN OverflowPolicy
            ELSE IF in = <<>> THEN "commit" ELSE "write"
  /\ UNCHANGED <<shared, pop, in, pk, ptail, cvars>>

\* One element into its slot.
PushWrite ==
  /\ PAt("write")
  /\ data' = [data EXCEPT ![ptail] = in[pk + 1]]
  /\ pk' = pk + 1
  /\ ptail' = next(ptail)
  /\ ppc' = IF pk + 1 = Len(in) THEN "commit" ELSE "write"
  /\ UNCHANGED <<head, tail, pop, in, cvars>>

\* The store of tail_.
PushCommit ==
  /\ PAt("commit")
  /\ tail' = ptail
  /\ ppc' = "ok"
  /\ UNCHANGED <<head, data, pop, in, pk, ptail, cvars>>

Produce ==
  \/ \E v \in Values : PushCall("push", <<v>>)
  \/ \E s \in Ranges : PushCall("push_range", s)
  \/ PushLoadHead \/ PushWrite \/ PushCommit
-----------------------------------------------------------------------------
(* The consumer.                                                            *)

\* One of the three pops begins.
PopCall(op, n) ==
  /\ CIdle
  /\ cpc' = "load_tail" /\ cop' = op /\ cn' = n /\ out' = <<>> /\ chead' = 0 /\ ctail' = 0
  /\ UNCHANGED <<shared, pvars>>

\* The load of tail_, which comes first.
PopLoadTail ==
  /\ CAt("load_tail")
  /\ ctail' = tail
  /\ cpc' = "load_head"
  /\ UNCHANGED <<shared, pvars, cop, cn, out, chead>>

\* Mutant: the last element is never handed out.
TooFewOffByOne == distance(head, ctail) <= cn

\* Too few elements, by the tail_ loaded before.
TooFew ==
  IF cop = "pop_range" THEN distance(head, ctail) < cn ELSE head = ctail

\* The load of head_, and the branch on it; pop() copies nothing.
PopLoadHead ==
  /\ CAt("load_head")
  /\ chead' = IF cop = "pop" THEN next(head) ELSE head
  /\ cpc' = IF TooFew THEN "empty"
            ELSE IF cop = "pop" \/ cn = 0 THEN "commit" ELSE "read"
  /\ UNCHANGED <<shared, pvars, cop, cn, out, ctail>>

\* One element out of its slot.
PopRead ==
  /\ CAt("read")
  /\ out' = Append(out, data[chead])
  /\ chead' = next(chead)
  /\ cpc' = IF Len(out) + 1 = cn THEN "commit" ELSE "read"
  /\ UNCHANGED <<shared, pvars, cop, cn, ctail>>

\* The store of head_.
PopCommit ==
  /\ CAt("commit")
  /\ head' = chead
  /\ cpc' = "ok"
  /\ UNCHANGED <<tail, data, pvars, cop, cn, out, chead, ctail>>

\* front() begins and loads head_.
FrontCall ==
  /\ CIdle
  /\ cpc' = "front_tail" /\ cop' = "front" /\ cn' = 1 /\ out' = <<>> /\ chead' = head /\ ctail' = 0
  /\ UNCHANGED <<shared, pvars>>

\* The load of tail_: the caller now holds a reference to data_[head].  The
\* ignoring policy hands one out of an empty queue too.
FrontLoadTail ==
  /\ CAt("front_tail")
  /\ cpc' = IF chead # tail THEN "holding" ELSE IF AssertOnOverflow THEN "assert" ELSE "empty"
  /\ out' = <<data[chead]>>
  /\ UNCHANGED <<shared, pvars, cop, cn, chead, ctail>>

Consume ==
  \/ PopCall("pop_into", 1) \/ PopCall("pop", 1)
  \/ \E n \in 0 .. MaxBatch : PopCall("pop_range", n)
  \/ PopLoadTail \/ PopLoadHead \/ PopRead \/ PopCommit \/ FrontCall \/ FrontLoadTail

\* clear() stores both indices; it is used while neither side is in a call.
Clear ==
  /\ PIdle /\ CIdle
  /\ head' = 0 /\ tail' = 0
  /\ cpc' = IF cpc = "holding" THEN "ok" ELSE cpc
  /\ UNCHANGED <<data, pvars, cop, cn, out, chead, ctail>>

Next == Produce \/ Consume \/ Clear

Spec == Init /\ [][Next]_vars

\* The processor keeps coming back to both sides, and the consumer does not
\* ask for more than there is for ever: pop_into(T&) is polled.
Fairness ==
  /\ WF_vars(PushLoadHead \/ PushWrite \/ PushCommit)
  /\ WF_vars(PopLoadTail \/ PopLoadHead \/ PopRead \/ PopCommit \/ FrontLoadTail)
  /\ SF_vars(PopCall("pop_into", 1))

FairSpec == Spec /\ Fairness
-----------------------------------------------------------------------------
\* The slot an element k places behind index h lives in.
SlotAt(h, k) == IF h + k < Size THEN h + k ELSE h + k - Size

\* The elements between head_ and tail_, oldest first.
Contents == [i \in 1 .. distance(head, tail) |-> data[SlotAt(head, i - 1)]]

\* Types of the shared indices, the slots and the two calls in progress.
TypeOK ==
  /\ head \in Slots /\ tail \in Slots
  /\ data \in [Slots -> Values]
  /\ ppc \in {"ok", "load_head", "write", "commit", "overflow", "assert"}
  /\ pop \in {"push", "push_range"}
  /\ in \in Seq(Values) /\ pk \in Nat /\ ptail \in Slots
  /\ cpc \in {"ok", "load_tail", "load_head", "front_tail", "read", "commit", "empty",
              "holding", "assert"}
  /\ cop \in {"pop", "pop_into", "pop_range", "front"}
  /\ cn \in Nat /\ out \in Seq(Values) /\ chead \in Slots /\ ctail \in Slots

\* The slots between head_ and tail_, where the published elements are.
Live == {SlotAt(head, k) : k \in 0 .. distance(head, tail) - 1}

\* push writes a slot only while it lies outside the published elements, and
\* pop_into reads a slot only while it lies inside them: the two never touch
\* one slot at a time, in whatever order main and the handler run.
NoDataRace ==
  /\ ppc = "write" => ptail \notin Live
  /\ cpc = "read" => chead \in Live

\* The reference front() returned stays good until the consumer's next call:
\* no push overwrites the element behind it.
FrontStable ==
  [][cpc = "holding" => data'[chead] = data[chead]]_vars

\* Polled with pop_into(T&), a queue that holds something moves on.
DrainProgress ==
  \A h \in Slots : (head = h /\ head # tail) ~> (head # h \/ head = tail)
-----------------------------------------------------------------------------
(* A push takes effect at its commit, or at its load of head_ when it finds *)
(* no room; a pop at its commit, or at its load of tail_ when that shows    *)
(* too few elements: only the consumer moves head_, so the outcome is       *)
(* settled there although the code branches later.                          *)
putView ==
  [st |-> CASE ppc \in {"ok", "overflow"} -> ppc
            [] ppc = "assert" -> "overflow"
            [] OTHER -> "called",
   in |-> in]

getDone == cpc \in {"ok", "holding"}

getView ==
  [st  |-> CASE getDone -> "ok"
             [] cpc \in {"empty", "assert"} \/ (cpc = "load_head" /\ TooFew) -> "empty"
             [] OTHER -> "called",
   n   |-> cn,
   out |-> IF getDone THEN out ELSE <<>>]

F == INSTANCE Fifo WITH Capacity <- Size - 1, q <- Contents, put <- putView, get <- getView

\* The ring is a bounded FIFO whose calls are atomic: nothing is lost,
\* duplicated, reordered or seen half written, a push is refused only when
\* the queue was full and a pop only when it was too empty.
IsFifo == F!Spec
=============================================================================
