---------------------------- MODULE QueueProofs -----------------------------
(***************************************************************************)
(* Proofs about Queue for every Size, element set and range size.          *)
(***************************************************************************)
EXTENDS Queue, SequenceTheorems, TLAPS

\* What the producer's locals say about the ring, at each of its steps.
ProducerInv ==
  /\ pop = "push" => Len(in) = 1
  /\ ppc = "load_head" => ptail = tail /\ pk = 0
  /\ ppc \in {"write", "commit"} =>
       /\ distance(head, tail) + Len(in) < Size
       /\ ptail = SlotAt(tail, pk)
       /\ \A i \in 1 .. pk : data[SlotAt(tail, i - 1)] = in[i]
  /\ ppc = "write" => pk < Len(in)
  /\ ppc = "commit" => pk = Len(in)

\* What the consumer's locals say about the ring, at each of its steps.
ConsumerInv ==
  /\ cop # "pop_range" => cn = 1
  /\ cpc \in {"load_tail", "load_head"} => out = <<>> /\ cop # "front"
  /\ cpc = "load_head" => distance(head, ctail) <= distance(head, tail)
  /\ cpc \in {"front_tail", "holding"} => chead = head /\ cn = 1
  /\ cpc = "holding" => head # tail /\ out = <<data[head]>>
  /\ cpc \in {"read", "commit"} =>
       /\ cn <= distance(head, tail)
       /\ \A i \in 1 .. Len(out) : out[i] = data[SlotAt(head, i - 1)]
  /\ cpc = "read" => Len(out) < cn /\ chead = SlotAt(head, Len(out))
  /\ cpc = "commit" =>
       /\ chead = SlotAt(head, cn)
       /\ Len(out) = cn \/ out = <<>>

Inv == TypeOK /\ ProducerInv /\ ConsumerInv
-----------------------------------------------------------------------------
\* Stepping an index wraps it at the end of the ring.
LEMMA NextSlot ==
  ASSUME NEW i \in Slots
  PROVE  next(i) = (IF i + 1 = Size THEN 0 ELSE i + 1) /\ next(i) \in Slots
BY QueueAssumption DEF next, Slots

\* Slots are closed under walking at most once round the ring.
LEMMA SlotAtType ==
  ASSUME NEW h \in Slots, NEW k \in 0 .. Size
  PROVE  SlotAt(h, k) \in Slots
BY QueueAssumption DEF SlotAt, Slots

\* The slot after the k-th is the k+1-st.
LEMMA NextSlotAt ==
  ASSUME NEW h \in Slots, NEW k \in 0 .. Size - 1
  PROVE  next(SlotAt(h, k)) = SlotAt(h, k + 1)
<1>1. SlotAt(h, k) \in Slots
  BY SlotAtType, QueueAssumption
<1>2. QED
  BY <1>1, NextSlot, QueueAssumption DEF SlotAt, Slots

\* size() lies between 0 and max_size().
LEMMA DistanceType ==
  ASSUME NEW h \in Slots, NEW t \in Slots
  PROVE  /\ distance(h, t) \in Slots
         /\ distance(h, t) \in Nat
         /\ distance(h, t) < Size
         /\ distance(h, t) = 0 <=> h = t
BY QueueAssumption DEF distance, Slots

\* Publishing n more elements grows the distance by n.
LEMMA DistanceGrows ==
  ASSUME NEW h \in Slots, NEW t \in Slots, NEW n \in Nat, distance(h, t) + n < Size
  PROVE  distance(h, SlotAt(t, n)) = distance(h, t) + n
BY QueueAssumption DEF distance, SlotAt, Slots

\* The test of push(T): the slot after the next is not the oldest element's.
LEMMA NotFull ==
  ASSUME NEW h \in Slots, NEW t \in Slots, h # next(t)
  PROVE  distance(h, t) + 1 < Size
BY NextSlot, QueueAssumption DEF distance, Slots

\* The same test failing: the ring is full.
LEMMA FullRing ==
  ASSUME NEW h \in Slots, NEW t \in Slots, h = next(t)
  PROVE  distance(h, t) = Size - 1
BY NextSlot, QueueAssumption DEF distance, Slots

\* Removing n elements shrinks the distance by n.
LEMMA DistanceShrinks ==
  ASSUME NEW h \in Slots, NEW t \in Slots, NEW n \in Nat, n <= distance(h, t)
  PROVE  distance(SlotAt(h, n), t) = distance(h, t) - n
BY QueueAssumption DEF distance, SlotAt, Slots

\* The k-th slot behind tail_ is the (size + k)-th behind head_.
LEMMA SlotBehindTail ==
  ASSUME NEW h \in Slots, NEW t \in Slots, NEW k \in Nat, distance(h, t) + k < Size
  PROVE  SlotAt(t, k) = SlotAt(h, distance(h, t) + k)
BY QueueAssumption DEF distance, SlotAt, Slots

\* Walking twice is walking once.
LEMMA SlotAtAdds ==
  ASSUME NEW h \in Slots, NEW j \in Nat, NEW k \in Nat, j + k < Size
  PROVE  SlotAt(SlotAt(h, j), k) = SlotAt(h, j + k)
BY QueueAssumption DEF SlotAt, Slots

\* Less than once round the ring, different distances reach different slots.
LEMMA SlotAtInjective ==
  ASSUME NEW h \in Slots, NEW j \in 0 .. Size - 1, NEW k \in 0 .. Size - 1, j # k
  PROVE  SlotAt(h, j) # SlotAt(h, k)
BY QueueAssumption DEF SlotAt, Slots

\* A published element never shares a slot with one being written.
LEMMA LiveApart ==
  ASSUME NEW h \in Slots, NEW t \in Slots, NEW i \in Nat, NEW k \in Nat,
         i < distance(h, t), distance(h, t) + k < Size
  PROVE  SlotAt(h, i) # SlotAt(t, k)
BY QueueAssumption DEF distance, SlotAt, Slots
-----------------------------------------------------------------------------
\* A range is a sequence of elements.
LEMMA RangesAreSequences ==
  ASSUME NEW s \in Ranges
  PROVE  s \in Seq(Values)
BY DEF Ranges

\* The quantities the guards compare are naturals.
LEMMA Sizes ==
  ASSUME TypeOK
  PROVE  /\ Size \in Nat /\ distance(head, tail) \in Nat
         /\ Len(in) \in Nat /\ Len(out) \in Nat /\ pk \in Nat /\ cn \in Nat
<1>1. distance(head, tail) \in Slots
  BY DistanceType DEF TypeOK
<1>2. Len(in) \in Nat /\ Len(out) \in Nat
  BY DEF TypeOK
<1>3. QED
  BY <1>1, <1>2, QueueAssumption DEF TypeOK, Slots

\* The initial state satisfies the inductive invariant: an empty ring, no call under way.
LEMMA InitInv == Init => Inv
BY QueueAssumption
   DEF Init, Inv, TypeOK, ProducerInv, ConsumerInv, Slots, distance, SlotAt

\* Every step keeps the state well typed, whatever ran before it.
LEMMA NextTypeOK == Inv /\ [Next]_vars => TypeOK'
<1> SUFFICES ASSUME Inv, [Next]_vars PROVE TypeOK'
  OBVIOUS
<1> USE DEF Inv, TypeOK, vars, shared, pvars, cvars
<1>1. ASSUME NEW v \in Values, PushCall("push", <<v>>) PROVE TypeOK'
  BY <1>1 DEF PushCall
<1>2. ASSUME NEW s \in Ranges, PushCall("push_range", s) PROVE TypeOK'
  BY <1>2, RangesAreSequences DEF PushCall
<1>3. CASE PushLoadHead
  BY <1>3 DEF PushLoadHead, OverflowPolicy
<1>4. CASE PushWrite
  <2>1. in[pk + 1] \in Values
    BY <1>4 DEF PushWrite, PAt, ProducerInv
  <2>2. QED
    BY <1>4, <2>1, NextSlot DEF PushWrite
<1>5. CASE PushCommit
  BY <1>5 DEF PushCommit
<1>6. ASSUME NEW op \in {"pop", "pop_into", "pop_range"}, NEW n \in Nat, PopCall(op, n)
      PROVE  TypeOK'
  BY <1>6, QueueAssumption DEF PopCall, Slots
<1>7. CASE PopLoadTail
  BY <1>7 DEF PopLoadTail
<1>8. CASE PopLoadHead
  BY <1>8, NextSlot DEF PopLoadHead
<1>9. CASE PopRead
  BY <1>9, NextSlot DEF PopRead
<1>10. CASE PopCommit
  BY <1>10 DEF PopCommit
<1>11. CASE FrontCall
  BY <1>11, QueueAssumption DEF FrontCall, Slots
<1>12. CASE FrontLoadTail
  BY <1>12 DEF FrontLoadTail
<1>13. CASE Clear
  BY <1>13, QueueAssumption DEF Clear, Slots
<1>14. CASE UNCHANGED vars
  BY <1>14
<1> HIDE DEF Inv, TypeOK, vars, shared, pvars, cvars
<1>15. CASE Produce
  BY <1>1, <1>2, <1>3, <1>4, <1>5, <1>15 DEF Produce
<1>16. CASE Consume
  <2>1. 0 .. MaxBatch \subseteq Nat
    OBVIOUS
  <2>2. QED
    BY <1>6, <1>7, <1>8, <1>9, <1>10, <1>11, <1>12, <1>16, <2>1 DEF Consume
<1>17. QED
  BY <1>13, <1>14, <1>15, <1>16 DEF Next

\* A consumer's call that has not reached its commit leaves the ring alone.
QuietConsumerStep ==
  \/ \E op \in {"pop_into", "pop", "pop_range"} : \E n \in Nat : PopCall(op, n)
  \/ PopLoadTail \/ PopLoadHead \/ PopRead \/ FrontCall \/ FrontLoadTail

\* Every step of the consumer but its commit of head_ is a quiet one.
LEMMA ConsumeSplit == Consume => QuietConsumerStep \/ PopCommit
<1>1. 0 .. MaxBatch \subseteq Nat
  OBVIOUS
<1>2. QED
  BY <1>1 DEF Consume, QuietConsumerStep

\* A quiet step of the consumer leaves the indices, the slots and the producer alone.
LEMMA QuietConsumer == QuietConsumerStep => UNCHANGED <<shared, pvars>>
BY DEF QuietConsumerStep, PopCall, PopLoadTail, PopLoadHead, PopRead, FrontCall, FrontLoadTail

\* The producer's view of the ring survives every step, the consumer's
\* commit included: the room it found can only have grown.
LEMMA NextProducerInv == Inv /\ [Next]_vars => ProducerInv'
<1> SUFFICES ASSUME Inv, [Next]_vars PROVE ProducerInv'
  OBVIOUS
<1> USE DEF Inv, TypeOK, shared, pvars, cvars
<1>1. ASSUME NEW v \in Values, PushCall("push", <<v>>) PROVE ProducerInv'
  BY <1>1 DEF PushCall, ProducerInv
<1>2. ASSUME NEW s \in Ranges, PushCall("push_range", s) PROVE ProducerInv'
  BY <1>2 DEF PushCall, ProducerInv
<1>3. CASE PushLoadHead
  <2>1. ptail = tail /\ pk = 0
    BY <1>3 DEF PushLoadHead, PAt, ProducerInv
  <2>2. HasRoom => distance(head, tail) + Len(in) < Size
    <3>1. CASE pop = "push"
      BY <2>1, <3>1, NotFull DEF HasRoom, ProducerInv
    <3>2. CASE pop = "push_range"
      <4>1. Len(in) \in Nat /\ distance(head, tail) \in Nat /\ Size \in Nat
        BY Sizes
      <4>2. HasRoom <=> Len(in) < Size - distance(head, tail)
        BY <2>1, <3>2 DEF HasRoom
      <4>3. QED
        BY <4>1, <4>2
    <3>3. QED
      BY <3>1, <3>2
  <2>3. tail = SlotAt(tail, 0)
    BY QueueAssumption DEF SlotAt, Slots
  <2>4. in = <<>> <=> Len(in) = 0
    OBVIOUS
  <2>5. ~HasRoom => ppc' \in {"assert", "overflow"}
    BY <1>3 DEF PushLoadHead, OverflowPolicy
  <2>6. QED
    BY <1>3, <2>1, <2>2, <2>3, <2>4, <2>5 DEF PushLoadHead, ProducerInv
<1>4. CASE PushWrite
  <2>1. /\ distance(head, tail) + Len(in) < Size /\ ptail = SlotAt(tail, pk)
        /\ pk < Len(in)
        /\ \A i \in 1 .. pk : data[SlotAt(tail, i - 1)] = in[i]
    BY <1>4 DEF PushWrite, PAt, ProducerInv
  <2>2. distance(head, tail) \in Nat /\ pk \in 0 .. Size - 1
    <3>1. distance(head, tail) \in Nat /\ Len(in) \in Nat /\ Size \in Nat
      BY Sizes
    <3>2. QED
      BY <2>1, <3>1
  <2>3. next(ptail) = SlotAt(tail, pk + 1)
    BY <2>1, <2>2, NextSlotAt
  <2>4. \A i \in 1 .. pk : SlotAt(tail, i - 1) # ptail
    BY <2>1, <2>2, SlotAtInjective, QueueAssumption
  <2>5. \A i \in 1 .. pk + 1 : data'[SlotAt(tail, i - 1)] = in[i]
    <3> SUFFICES ASSUME NEW i \in 1 .. pk + 1 PROVE data'[SlotAt(tail, i - 1)] = in[i]
      OBVIOUS
    <3>1. CASE i = pk + 1
      BY <1>4, <2>1, <2>2, <3>1, SlotAtType DEF PushWrite
    <3>2. CASE i \in 1 .. pk
      <4>1. SlotAt(tail, i - 1) \in Slots
        BY <2>2, <3>2, SlotAtType, QueueAssumption
      <4>2. QED
        BY <1>4, <2>1, <2>4, <3>2, <4>1 DEF PushWrite
    <3>3. QED
      BY <3>1, <3>2
  <2>6. QED
    BY <1>4, <2>1, <2>3, <2>5 DEF PushWrite, ProducerInv
<1>5. CASE PushCommit
  BY <1>5 DEF PushCommit, ProducerInv
<1>6. CASE PopCommit
  <2>1. cn <= distance(head, tail) /\ head' = SlotAt(head, cn)
    BY <1>6 DEF PopCommit, CAt, ConsumerInv
  <2>2. distance(head', tail) = distance(head, tail) - cn
    BY <2>1, DistanceShrinks
  <2>3. distance(head, tail) + Len(in) < Size => distance(head', tail) + Len(in) < Size
    <3>1. distance(head, tail) \in Nat /\ Len(in) \in Nat /\ Size \in Nat /\ cn \in Nat
      BY Sizes
    <3>2. QED
      BY <2>2, <3>1
  <2>4. UNCHANGED <<tail, data, pvars>>
    BY <1>6 DEF PopCommit
  <2>5. QED
    BY <2>3, <2>4 DEF ProducerInv
<1>7. CASE QuietConsumerStep \/ UNCHANGED vars
  <2>1. UNCHANGED <<shared, pvars>>
    BY <1>7, QuietConsumer DEF vars
  <2>2. QED
    BY <2>1 DEF ProducerInv
<1>8. CASE Clear
  BY <1>8 DEF Clear, PIdle, ProducerInv
<1>9. CASE Produce
  BY <1>1, <1>2, <1>3, <1>4, <1>5, <1>9 DEF Produce
<1>10. QED
  BY <1>6, <1>7, <1>8, <1>9, ConsumeSplit DEF Next

\* The consumer's view of the ring survives every step, the producer's writes
\* and commit included: the elements it found cannot be overwritten.
LEMMA NextConsumerInv == Inv /\ [Next]_vars => ConsumerInv'
<1> SUFFICES ASSUME Inv, [Next]_vars PROVE ConsumerInv'
  OBVIOUS
<1> USE DEF Inv, TypeOK, shared, pvars, cvars
<1>1. ASSUME NEW op \in {"pop_into", "pop", "pop_range"}, NEW n \in Nat,
             op # "pop_range" => n = 1, PopCall(op, n)
      PROVE  ConsumerInv'
  BY <1>1 DEF PopCall, ConsumerInv
<1>2. CASE PopLoadTail
  <2>1. distance(head, ctail') <= distance(head, tail)
    BY <1>2, Sizes DEF PopLoadTail
  <2>2. QED
    BY <1>2, <2>1 DEF PopLoadTail, CAt, ConsumerInv
<1>3. CASE PopLoadHead
  <2>1. /\ cpc = "load_head" /\ out = <<>> /\ cop # "front"
        /\ distance(head, ctail) <= distance(head, tail)
        /\ cop # "pop_range" => cn = 1
    BY <1>3 DEF PopLoadHead, CAt, ConsumerInv
  <2>2. ~TooFew => cn <= distance(head, tail)
    <3>1. distance(head, ctail) \in Nat /\ (distance(head, ctail) = 0 <=> head = ctail)
      BY DistanceType
    <3>2. QED
      BY <2>1, <3>1, Sizes DEF TooFew
  <2>3. next(head) = SlotAt(head, 1) /\ head = SlotAt(head, 0)
    BY NextSlot, QueueAssumption DEF SlotAt, Slots
  <2>4. Len(out) = 0
    BY <2>1
  <2>5. CASE TooFew
    BY <1>3, <2>1, <2>5 DEF PopLoadHead, ConsumerInv
  <2>6. CASE ~TooFew
    <3>1. CASE cop = "pop"
      BY <1>3, <2>1, <2>2, <2>3, <2>4, <2>6, <3>1 DEF PopLoadHead, ConsumerInv
    <3>2. CASE cop # "pop"
      <4>1. chead' = head /\ cpc' = (IF cn = 0 THEN "commit" ELSE "read")
        BY <1>3, <2>6, <3>2 DEF PopLoadHead
      <4>2. UNCHANGED <<shared, cop, cn, out>>
        BY <1>3 DEF PopLoadHead
      <4>3. QED
        BY <2>1, <2>2, <2>3, <2>4, <2>6, <4>1, <4>2 DEF ConsumerInv
    <3>3. QED
      BY <3>1, <3>2
  <2>7. QED
    BY <2>5, <2>6
<1>4. CASE PopRead
  <2>1. /\ cn <= distance(head, tail) /\ Len(out) < cn /\ chead = SlotAt(head, Len(out))
        /\ \A i \in 1 .. Len(out) : out[i] = data[SlotAt(head, i - 1)]
        /\ cop # "pop_range" => cn = 1
    BY <1>4 DEF PopRead, CAt, ConsumerInv
  <2>2. Len(out) \in 0 .. Size - 1
    <3>1. distance(head, tail) < Size
      BY DistanceType
    <3>2. QED
      BY <2>1, <3>1, Sizes
  <2>3. next(chead) = SlotAt(head, Len(out) + 1)
    BY <2>1, <2>2, NextSlotAt
  <2>4. /\ Len(out') = Len(out) + 1
        /\ \A i \in 1 .. Len(out') : out'[i] = data[SlotAt(head, i - 1)]
    BY <1>4, <2>1 DEF PopRead
  <2>5. chead' = SlotAt(head, Len(out')) /\ UNCHANGED <<shared, cop, cn>>
    BY <1>4, <2>3, <2>4 DEF PopRead
  <2>6. \/ cpc' = "commit" /\ Len(out') = cn
        \/ cpc' = "read" /\ Len(out') < cn
    <3>1. \/ Len(out) + 1 = cn /\ cpc' = "commit"
          \/ Len(out) + 1 # cn /\ cpc' = "read"
      BY <1>4 DEF PopRead
    <3>2. Len(out') = cn \/ Len(out') < cn
      <4>1. Len(out) < cn /\ Len(out') = Len(out) + 1
        BY <2>1, <2>4
      <4>2. QED
        BY <4>1, Sizes
    <3>3. Len(out') = Len(out) + 1
      BY <2>4
    <3>4. QED
      BY <3>1, <3>2, <3>3
  <2>7. QED
    BY <2>1, <2>4, <2>5, <2>6 DEF ConsumerInv
<1>5. CASE PopCommit
  BY <1>5 DEF PopCommit, ConsumerInv
<1>6. CASE FrontCall
  BY <1>6 DEF FrontCall, ConsumerInv
<1>7. CASE FrontLoadTail
  BY <1>7 DEF FrontLoadTail, CAt, ConsumerInv
<1>8. CASE Clear
  BY <1>8 DEF Clear, CIdle, ConsumerInv
<1>9. CASE PushWrite
  <2>1. /\ distance(head, tail) + Len(in) < Size /\ ptail = SlotAt(tail, pk) /\ pk < Len(in)
    BY <1>9 DEF PushWrite, PAt, ProducerInv
  <2>2. \A i \in Nat : i < distance(head, tail) => SlotAt(head, i) # ptail
    <3>1. distance(head, tail) + pk < Size
      BY <2>1, Sizes
    <3>2. QED
      BY <2>1, <3>1, LiveApart
  <2>3. \A i \in Nat : i < distance(head, tail) =>
                         data'[SlotAt(head, i)] = data[SlotAt(head, i)]
    <3> SUFFICES ASSUME NEW i \in Nat, i < distance(head, tail)
                 PROVE  data'[SlotAt(head, i)] = data[SlotAt(head, i)]
      OBVIOUS
    <3>1. i \in 0 .. Size
      <4>1. distance(head, tail) < Size
        BY DistanceType
      <4>2. QED
        BY <4>1, Sizes
    <3>2. SlotAt(head, i) \in Slots
      BY <3>1, SlotAtType
    <3>3. QED
      BY <1>9, <2>2, <3>2 DEF PushWrite
  <2>4. UNCHANGED <<head, tail, cvars>>
    BY <1>9 DEF PushWrite
  <2>5. head # tail => data'[head] = data[head]
    <3>1. distance(head, tail) \in Nat /\ (distance(head, tail) = 0 <=> head = tail)
      BY DistanceType
    <3>2. head = SlotAt(head, 0)
      BY QueueAssumption DEF SlotAt, Slots
    <3>3. head # tail => 0 < distance(head, tail)
      BY <3>1
    <3>4. head # tail => data'[SlotAt(head, 0)] = data[SlotAt(head, 0)]
      BY <2>3, <3>3
    <3>5. QED
      BY <3>2, <3>4, Zenon
  <2>6. cpc \in {"read", "commit"} =>
          \A i \in 1 .. Len(out) : data'[SlotAt(head, i - 1)] = data[SlotAt(head, i - 1)]
    <3> SUFFICES ASSUME cpc \in {"read", "commit"}, NEW i \in 1 .. Len(out)
                 PROVE  data'[SlotAt(head, i - 1)] = data[SlotAt(head, i - 1)]
      OBVIOUS
    <3>1. Len(out) <= cn /\ cn <= distance(head, tail)
      BY Sizes DEF ConsumerInv
    <3>2. i - 1 \in Nat /\ i - 1 < distance(head, tail)
      BY <3>1, Sizes
    <3>3. QED
      BY <2>3, <3>2
  <2>7. QED
    BY <2>4, <2>5, <2>6 DEF ConsumerInv
<1>10. CASE PushCommit
  <2>1. distance(head, tail) + Len(in) < Size /\ tail' = SlotAt(tail, Len(in))
    BY <1>10 DEF PushCommit, PAt, ProducerInv
  <2>2. distance(head, tail') = distance(head, tail) + Len(in)
    BY <2>1, DistanceGrows, Sizes
  <2>3. UNCHANGED <<head, data, cvars>>
    BY <1>10 DEF PushCommit
  <2>4. \A n \in Nat : n <= distance(head, tail) => n <= distance(head, tail')
    BY <2>2, Sizes
  <2>5. head # tail => head # tail'
    <3>1. tail' \in Slots
      BY <1>10 DEF PushCommit
    <3>2. distance(head, tail) = 0 <=> head = tail
      BY DistanceType
    <3>3. distance(head, tail') = 0 <=> head = tail'
      BY <3>1, DistanceType
    <3>4. QED
      BY <2>2, <3>2, <3>3, Sizes
  <2>6. distance(head, ctail) \in Nat
    BY DistanceType
  <2>7. QED
    BY <2>3, <2>4, <2>5, <2>6, Sizes DEF ConsumerInv
<1>11. CASE UNCHANGED <<shared, cvars>>
  BY <1>11 DEF ConsumerInv
<1>12. CASE Produce
  <2>1. PushWrite \/ PushCommit \/ UNCHANGED <<shared, cvars>>
    BY <1>12 DEF Produce, PushCall, PushLoadHead
  <2>2. QED
    BY <1>9, <1>10, <1>11, <2>1
<1>13. CASE Consume
  <2>1. 0 .. MaxBatch \subseteq Nat
    OBVIOUS
  <2>2. QED
    BY <1>1, <1>2, <1>3, <1>4, <1>5, <1>6, <1>7, <1>13, <2>1 DEF Consume
<1>14. UNCHANGED vars => UNCHANGED <<shared, cvars>>
  BY DEF vars
<1>15. QED
  BY <1>8, <1>11, <1>12, <1>13, <1>14 DEF Next

\* Inv is inductive.
LEMMA Invariance == Spec => []Inv
<1>1. Inv /\ [Next]_vars => Inv'
  BY NextTypeOK, NextProducerInv, NextConsumerInv DEF Inv
<1>2. QED
  BY InitInv, <1>1, PTL DEF Spec

\* Indices, slots and locals keep their types: both indices stay inside the
\* array, for every size, policy and length of range.
THEOREM TypeCorrect == Spec => []TypeOK
<1>1. Inv => TypeOK
  BY DEF Inv
<1>2. QED
  BY Invariance, <1>1, PTL

\* push never writes a slot between head_ and tail_, and pop_into never reads
\* outside them, however the two calls interleave.
THEOREM RaceFreedom == Spec => []NoDataRace
<1>1. Inv => NoDataRace
  <2> SUFFICES ASSUME Inv PROVE NoDataRace
    OBVIOUS
  <2> USE DEF Inv
  <2>1. ASSUME ppc = "write", NEW k \in 0 .. distance(head, tail) - 1
        PROVE  ptail # SlotAt(head, k)
    <3>1. distance(head, tail) + Len(in) < Size /\ ptail = SlotAt(tail, pk) /\ pk < Len(in)
      BY <2>1 DEF ProducerInv
    <3>2. distance(head, tail) + pk < Size /\ k \in Nat /\ k < distance(head, tail)
      BY <3>1, Sizes
    <3>3. QED
      BY <3>1, <3>2, LiveApart, Sizes DEF TypeOK
  <2>2. ASSUME cpc = "read"
        PROVE  chead = SlotAt(head, Len(out)) /\ Len(out) \in 0 .. distance(head, tail) - 1
    <3>1. Len(out) < cn /\ cn <= distance(head, tail) /\ chead = SlotAt(head, Len(out))
      BY <2>2 DEF ConsumerInv
    <3>2. QED
      BY <3>1, Sizes
  <2>3. QED
    BY <2>1, <2>2 DEF NoDataRace, Live
<1>2. QED
  BY Invariance, <1>1, PTL

\* While the consumer holds the reference front() gave it, no step of the
\* producer changes the element behind it.
THEOREM FrontReference == Spec => FrontStable
<1>1. Inv /\ [Next]_vars => [cpc = "holding" => data'[chead] = data[chead]]_vars
  <2> SUFFICES ASSUME Inv, Next, cpc = "holding" PROVE data'[chead] = data[chead]
    OBVIOUS
  <2>1. CASE PushWrite
    <3>1. distance(head, tail) + Len(in) < Size /\ ptail = SlotAt(tail, pk) /\ pk < Len(in)
      BY <2>1 DEF PushWrite, PAt, Inv, ProducerInv
    <3>2. chead = head /\ head # tail
      BY DEF Inv, ConsumerInv
    <3>3. head \in Slots /\ tail \in Slots /\ TypeOK
      BY DEF Inv, TypeOK
    <3>4. 0 < distance(head, tail)
      BY <3>2, <3>3, DistanceType
    <3>5. distance(head, tail) + pk < Size
      BY <3>1, <3>3, Sizes
    <3>6. SlotAt(head, 0) # ptail
      BY <3>1, <3>3, <3>4, <3>5, LiveApart, Sizes
    <3>7. SlotAt(head, 0) = head
      BY <3>3, QueueAssumption DEF SlotAt, Slots
    <3>8. QED
      BY <2>1, <3>2, <3>3, <3>6, <3>7 DEF PushWrite, TypeOK
  <2>2. PushWrite \/ UNCHANGED data
    BY DEF Next, Produce, Consume, PushCall, PushLoadHead, PushCommit, PopCall, PopLoadTail,
           PopLoadHead, PopRead, PopCommit, FrontCall, FrontLoadTail, Clear, shared
  <2>3. QED
    BY <2>1, <2>2
<1>2. QED
  BY Invariance, <1>1, PTL DEF Spec, FrontStable
-----------------------------------------------------------------------------
(* The elements between two indices, and what moving an index does to them. *)
Between(h, t, d) == [i \in 1 .. distance(h, t) |-> d[SlotAt(h, i - 1)]]

\* What lies between two indices is a sequence of elements, as long as their distance.
LEMMA BetweenType ==
  ASSUME NEW h \in Slots, NEW t \in Slots, NEW d \in [Slots -> Values]
  PROVE  /\ Between(h, t, d) \in Seq(Values)
         /\ Len(Between(h, t, d)) = distance(h, t)
         /\ \A i \in 1 .. distance(h, t) : Between(h, t, d)[i] = d[SlotAt(h, i - 1)]
<1>1. distance(h, t) \in Nat /\ distance(h, t) < Size
  BY DistanceType
<1>2. \A i \in 1 .. distance(h, t) : SlotAt(h, i - 1) \in Slots
  BY <1>1, SlotAtType, QueueAssumption
<1>3. Between(h, t, d) \in [1 .. distance(h, t) -> Values]
  BY <1>2 DEF Between
<1>4. QED
  BY <1>1, <1>3 DEF Between

\* Appending: the slots behind t hold s, and t moves past them.
LEMMA BetweenGrows ==
  ASSUME NEW h \in Slots, NEW t \in Slots, NEW d \in [Slots -> Values],
         NEW s \in Seq(Values), distance(h, t) + Len(s) < Size,
         \A i \in 1 .. Len(s) : d[SlotAt(t, i - 1)] = s[i]
  PROVE  Between(h, SlotAt(t, Len(s)), d) = Between(h, t, d) \o s
<1> DEFINE b == Between(h, t, d)
           g == Between(h, SlotAt(t, Len(s)), d)
<1>1. Len(s) \in Nat /\ distance(h, t) \in Nat
  BY DistanceType
<1>2. SlotAt(t, Len(s)) \in Slots
  BY <1>1, SlotAtType, QueueAssumption
<1>3. distance(h, SlotAt(t, Len(s))) = distance(h, t) + Len(s)
  BY <1>1, DistanceGrows
<1>4. /\ g \in Seq(Values) /\ Len(g) = distance(h, t) + Len(s)
      /\ \A i \in 1 .. distance(h, t) + Len(s) : g[i] = d[SlotAt(h, i - 1)]
  BY <1>2, <1>3, BetweenType
<1>5. /\ b \in Seq(Values) /\ Len(b) = distance(h, t)
      /\ \A i \in 1 .. distance(h, t) : b[i] = d[SlotAt(h, i - 1)]
  BY BetweenType
<1> HIDE DEF b, g
<1>6. /\ b \o s \in Seq(Values) /\ Len(b \o s) = Len(g)
  BY <1>4, <1>5
<1>7. ASSUME NEW i \in 1 .. Len(g) PROVE g[i] = (b \o s)[i]
  <2>1. CASE i <= distance(h, t)
    BY <1>1, <1>4, <1>5, <2>1
  <2>2. CASE ~(i <= distance(h, t))
    <3> DEFINE j == i - distance(h, t)
    <3>1. j \in 1 .. Len(s) /\ distance(h, t) + (j - 1) = i - 1 /\ j - 1 \in Nat
      BY <1>1, <1>4, <2>2
    <3>2. SlotAt(t, j - 1) = SlotAt(h, distance(h, t) + (j - 1))
      <4>1. distance(h, t) + (j - 1) < Size
        BY <1>1, <3>1, QueueAssumption
      <4>2. QED
        BY <3>1, <4>1, SlotBehindTail
    <3>3. (b \o s)[i] = s[j]
      BY <1>1, <1>4, <1>5, <2>2
    <3>4. g[i] = d[SlotAt(h, i - 1)]
      BY <1>4
    <3>5. QED
      BY <3>1, <3>2, <3>3, <3>4
  <2>3. QED
    BY <2>1, <2>2
<1>8. g = b \o s
  BY <1>4, <1>6, <1>7, SeqEqual
<1>9. QED
  BY <1>8 DEF b, g

\* Removing: h moves past its first n elements.
LEMMA BetweenShrinks ==
  ASSUME NEW h \in Slots, NEW t \in Slots, NEW d \in [Slots -> Values],
         NEW n \in Nat, n <= distance(h, t)
  PROVE  Between(SlotAt(h, n), t, d)
           = SubSeq(Between(h, t, d), n + 1, Len(Between(h, t, d)))
<1> DEFINE b == Between(h, t, d)
           g == Between(SlotAt(h, n), t, d)
           r == SubSeq(b, n + 1, Len(b))
<1>1. distance(h, t) \in Nat /\ distance(h, t) < Size
  BY DistanceType
<1>2. SlotAt(h, n) \in Slots
  BY <1>1, SlotAtType, QueueAssumption
<1>3. distance(SlotAt(h, n), t) = distance(h, t) - n
  BY DistanceShrinks
<1>4. /\ g \in Seq(Values) /\ Len(g) = distance(h, t) - n
      /\ \A i \in 1 .. distance(h, t) - n : g[i] = d[SlotAt(SlotAt(h, n), i - 1)]
  BY <1>2, <1>3, BetweenType
<1>5. /\ b \in Seq(Values) /\ Len(b) = distance(h, t)
      /\ \A i \in 1 .. distance(h, t) : b[i] = d[SlotAt(h, i - 1)]
  BY BetweenType
<1> HIDE DEF b, g
<1>6. \A i \in n + 1 .. Len(b) : b[i] \in Values
  BY <1>5, ElementOfSeq
<1>7. /\ r \in Seq(Values) /\ Len(r) = Len(g)
      /\ \A i \in 1 .. Len(g) : r[i] = b[n + i]
  BY <1>1, <1>4, <1>5, <1>6, SubSeqProperties
<1> HIDE DEF r
<1>8. ASSUME NEW i \in 1 .. Len(g) PROVE g[i] = r[i]
  <2>1. i - 1 \in Nat /\ n + (i - 1) < Size /\ n + i \in 1 .. distance(h, t)
    BY <1>1, <1>4, QueueAssumption
  <2>2. SlotAt(SlotAt(h, n), i - 1) = SlotAt(h, n + (i - 1))
    BY <2>1, SlotAtAdds
  <2>3. n + (i - 1) = (n + i) - 1
    BY <2>1
  <2>4. QED
    BY <1>4, <1>5, <1>7, <2>1, <2>2, <2>3
<1>9. g = r
  BY <1>4, <1>7, <1>8, SeqEqual
<1>10. QED
  BY <1>9 DEF b, g, r

\* What was copied from the first slots is the first part of the contents.
LEMMA BetweenPrefix ==
  ASSUME NEW h \in Slots, NEW t \in Slots, NEW d \in [Slots -> Values],
         NEW s \in Seq(Values), Len(s) <= distance(h, t),
         \A i \in 1 .. Len(s) : s[i] = d[SlotAt(h, i - 1)]
  PROVE  s = SubSeq(Between(h, t, d), 1, Len(s))
<1> DEFINE b == Between(h, t, d)
           r == SubSeq(b, 1, Len(s))
<1>1. distance(h, t) \in Nat /\ Len(s) \in Nat
  BY DistanceType
<1>2. /\ b \in Seq(Values) /\ Len(b) = distance(h, t)
      /\ \A i \in 1 .. distance(h, t) : b[i] = d[SlotAt(h, i - 1)]
  BY BetweenType
<1> HIDE DEF b
<1>3. \A i \in 1 .. Len(s) : b[i] \in Values
  BY <1>1, <1>2, ElementOfSeq
<1>4. /\ r \in Seq(Values) /\ Len(r) = Len(s)
      /\ \A i \in 1 .. Len(s) : r[i] = b[i]
  BY <1>1, <1>3, SubSeqProperties
<1> HIDE DEF r
<1>5. \A i \in 1 .. Len(s) : s[i] = r[i]
  BY <1>1, <1>2, <1>4
<1>6. s = r
  BY <1>4, <1>5, SeqEqual
<1>7. QED
  BY <1>6 DEF b, r
-----------------------------------------------------------------------------
\* Each call maps to the promised FIFO's: the only steps that change what it
\* shows are the beginning of a call, the commit, and the load that settles
\* that the call fails.
LEMMA ContentsBetween == Contents = Between(head, tail, data)
BY DEF Contents, Between

\* The contents of the ring are a sequence of elements, as long as size() says.
LEMMA ContentsType ==
  ASSUME TypeOK
  PROVE  Contents \in Seq(Values) /\ Len(Contents) = distance(head, tail)
BY ContentsBetween, BetweenType DEF TypeOK

\* The empty ring shows the empty FIFO.
LEMMA RefineInit == Init => F!Init
<1> SUFFICES ASSUME Init PROVE F!Init
  OBVIOUS
<1>1. Contents = <<>>
  <2>1. TypeOK /\ distance(head, tail) = 0
    BY InitInv, QueueAssumption DEF Inv, Init, distance
  <2>2. QED
    BY <2>1, ContentsType
<1>2. putView = [st |-> "ok", in |-> <<>>]
  BY DEF Init, putView
<1>3. getView = [st |-> "ok", n |-> 0, out |-> <<>>]
  BY DEF Init, getView, getDone
<1>4. QED
  BY <1>1, <1>2, <1>3 DEF F!Init

\* The contents change at the two commits and at clear() only.
LEMMA WriteKeepsContents == Inv /\ PushWrite => UNCHANGED Contents
<1> SUFFICES ASSUME Inv, PushWrite PROVE Contents' = Contents
  OBVIOUS
<1>1. distance(head, tail) + Len(in) < Size /\ ptail = SlotAt(tail, pk) /\ pk < Len(in)
  BY DEF PushWrite, PAt, Inv, ProducerInv
<1>2. TypeOK
  BY DEF Inv
<1>3. \A i \in 1 .. distance(head, tail) : data'[SlotAt(head, i - 1)] = data[SlotAt(head, i - 1)]
  <2> SUFFICES ASSUME NEW i \in 1 .. distance(head, tail)
               PROVE  data'[SlotAt(head, i - 1)] = data[SlotAt(head, i - 1)]
    OBVIOUS
  <2>1. head \in Slots /\ tail \in Slots /\ distance(head, tail) < Size
    BY <1>2, DistanceType DEF TypeOK
  <2>2. i - 1 \in Nat /\ i - 1 < distance(head, tail) /\ distance(head, tail) + pk < Size
    BY <1>1, <1>2, Sizes
  <2>3. SlotAt(head, i - 1) # ptail
    BY <1>1, <1>2, <2>1, <2>2, LiveApart, Sizes
  <2>4. i - 1 \in 0 .. Size
    BY <1>2, <2>1, <2>2, Sizes
  <2>5. SlotAt(head, i - 1) \in Slots
    BY <2>1, <2>4, SlotAtType
  <2>6. QED
    BY <1>2, <2>3, <2>5 DEF PushWrite, TypeOK
<1>4. head' = head /\ tail' = tail
  BY DEF PushWrite
<1>5. QED
  BY <1>3, <1>4 DEF Contents

\* Every step of a push shows a step of the FIFO's producer, or nothing.
LEMMA RefineProduce == Inv /\ Produce => [F!Next]_(F!vars)
<1> SUFFICES ASSUME Inv, Produce PROVE [F!Next]_(F!vars)
  OBVIOUS
<1> USE DEF Inv
<1>1. ASSUME NEW op, NEW s \in Ranges, PushCall(op, s) PROVE F!PutCall
  <2>1. putView.st # "called"
    BY <1>1 DEF PushCall, PIdle, putView
  <2>2. putView' = [st |-> "called", in |-> s]
    BY <1>1 DEF PushCall, putView
  <2>3. UNCHANGED <<shared, cvars>>
    BY <1>1 DEF PushCall
  <2>4. UNCHANGED <<Contents, getView>>
    BY <2>3 DEF shared, cvars, Contents, getView, getDone, TooFew
  <2>5. s \in F!Ranges
    BY DEF Ranges, F!Ranges
  <2>6. QED
    BY <2>1, <2>2, <2>4, <2>5 DEF F!PutCall
<1>2. \A v \in Values : <<v>> \in Ranges
  <2>1. 1 \in 0 .. MaxBatch
    BY QueueAssumption
  <2>2. \A v \in Values : <<v>> \in [1 .. 1 -> Values]
    OBVIOUS
  <2>3. QED
    BY <2>1, <2>2 DEF Ranges
<1>3. CASE PushLoadHead
  <2>1. UNCHANGED <<Contents, getView>>
    BY <1>3 DEF PushLoadHead, shared, cvars, Contents, getView, getDone, TooFew
  <2>2. putView = [st |-> "called", in |-> in] /\ ptail = tail
    BY <1>3 DEF PushLoadHead, PAt, putView, ProducerInv
  <2>3. CASE HasRoom
    <3>1. putView' = putView
      BY <1>3, <2>2, <2>3 DEF PushLoadHead, putView
    <3>2. QED
      BY <2>1, <3>1 DEF F!vars
  <2>4. CASE ~HasRoom
    <3>1. putView' = [putView EXCEPT !.st = "overflow"]
      BY <1>3, <2>2, <2>4 DEF PushLoadHead, OverflowPolicy, putView
    <3>2. Len(Contents) + Len(in) > Size - 1
      <4>1. CASE pop = "push"
        <5>1. head = next(tail) /\ Len(in) = 1
          BY <2>2, <2>4, <4>1 DEF HasRoom, ProducerInv
        <5>2. distance(head, tail) = Size - 1
          BY <5>1, FullRing DEF TypeOK
        <5>3. QED
          BY <5>1, <5>2, ContentsType, Sizes
      <4>2. CASE pop = "push_range"
        BY <2>2, <2>4, <4>2, ContentsType, Sizes DEF HasRoom
      <4>3. QED
        BY <4>1, <4>2 DEF TypeOK
    <3>3. F!Refuse
      BY <2>1, <2>2, <3>1, <3>2 DEF F!Refuse
    <3>4. QED
      BY <3>3 DEF F!Next
  <2>5. QED
    BY <2>3, <2>4
<1>4. CASE PushWrite
  <2>1. UNCHANGED <<Contents, getView, putView>>
    BY <1>4, WriteKeepsContents
       DEF PushWrite, PAt, cvars, getView, getDone, TooFew, putView
  <2>2. QED
    BY <2>1 DEF F!vars
<1>5. CASE PushCommit
  <2>1. /\ distance(head, tail) + Len(in) < Size
        /\ ptail = SlotAt(tail, Len(in))
        /\ \A i \in 1 .. Len(in) : data[SlotAt(tail, i - 1)] = in[i]
    BY <1>5 DEF PushCommit, PAt, ProducerInv
  <2>2. Contents' = Contents \o in
    <3>1. Contents' = Between(head', tail', data')
      BY DEF Contents, Between
    <3>2. Between(head, SlotAt(tail, Len(in)), data) = Between(head, tail, data) \o in
      BY <2>1, BetweenGrows DEF TypeOK
    <3>3. QED
      BY <1>5, <2>1, <3>1, <3>2, ContentsBetween DEF PushCommit
  <2>3. Len(Contents') <= Size - 1
    <3>1. Contents \in Seq(Values) /\ in \in Seq(Values)
      BY ContentsType DEF TypeOK
    <3>2. Len(Contents') = Len(Contents) + Len(in)
      BY <2>2, <3>1, ConcatProperties
    <3>3. Len(Contents) = distance(head, tail)
      BY ContentsType
    <3>4. QED
      BY <2>1, <3>2, <3>3, Sizes
  <2>4. putView = [st |-> "called", in |-> in] /\ putView' = [putView EXCEPT !.st = "ok"]
    BY <1>5 DEF PushCommit, PAt, putView
  <2>5. UNCHANGED getView
    BY <1>5 DEF PushCommit, cvars, getView, getDone, TooFew
  <2>6. F!Put
    BY <2>2, <2>3, <2>4, <2>5 DEF F!Put
  <2>7. QED
    BY <2>6 DEF F!Next
<1>6. QED
  BY <1>1, <1>2, <1>3, <1>4, <1>5 DEF Produce, F!Next

\* Every step of a pop or front shows a step of the FIFO's consumer, or nothing.
LEMMA RefineConsume == Inv /\ Consume => [F!Next]_(F!vars)
<1> SUFFICES ASSUME Inv, Consume PROVE [F!Next]_(F!vars)
  OBVIOUS
<1> USE DEF Inv
<1>1. ASSUME NEW op, NEW n \in 0 .. MaxBatch \cup {1}, PopCall(op, n) PROVE F!GetCall
  <2>1. UNCHANGED <<shared, pvars>>
    BY <1>1 DEF PopCall
  <2>2. UNCHANGED <<Contents, putView>>
    BY <2>1 DEF shared, pvars, Contents, putView
  <2>3. getView.st # "called"
    BY <1>1 DEF PopCall, CIdle, getView, getDone
  <2>4. getView' = [st |-> "called", n |-> n, out |-> <<>>]
    BY <1>1 DEF PopCall, getView, getDone
  <2>5. QED
    BY <2>2, <2>3, <2>4 DEF F!GetCall
<1>2. CASE FrontCall
  <2>1. UNCHANGED <<shared, pvars>>
    BY <1>2 DEF FrontCall
  <2>2. UNCHANGED <<Contents, putView>>
    BY <2>1 DEF shared, pvars, Contents, putView
  <2>3. getView.st # "called"
    BY <1>2 DEF FrontCall, CIdle, getView, getDone
  <2>4. getView' = [st |-> "called", n |-> 1, out |-> <<>>]
    BY <1>2 DEF FrontCall, getView, getDone
  <2>5. F!GetCall
    BY <2>2, <2>3, <2>4 DEF F!GetCall
  <2>6. QED
    BY <2>5 DEF F!Next
<1>3. CASE PopLoadTail
  <2>1. UNCHANGED <<shared, pvars>>
    BY <1>3 DEF PopLoadTail
  <2>2. UNCHANGED <<Contents, putView>>
    BY <2>1 DEF shared, pvars, Contents, putView
  <2>3. getView = [st |-> "called", n |-> cn, out |-> <<>>]
    BY <1>3 DEF PopLoadTail, CAt, getView, getDone
  <2>4. CASE TooFew'
    <3>1. getView' = [getView EXCEPT !.st = "empty"]
      BY <1>3, <2>3, <2>4 DEF PopLoadTail, getView, getDone
    <3>2. Len(Contents) < cn
      <4>1. CASE cop = "pop_range"
        BY <1>3, <2>4, <4>1, ContentsType, Sizes DEF PopLoadTail, TooFew, shared
      <4>2. CASE cop # "pop_range"
        <5>1. head = tail /\ cn = 1
          BY <1>3, <2>4, <4>2 DEF PopLoadTail, TooFew, shared, ConsumerInv
        <5>2. distance(head, tail) = 0
          BY <5>1, DistanceType DEF TypeOK
        <5>3. QED
          BY <5>1, <5>2, ContentsType
      <4>3. QED
        BY <4>1, <4>2
    <3>3. F!Miss
      BY <2>2, <2>3, <3>1, <3>2 DEF F!Miss
    <3>4. QED
      BY <3>3 DEF F!Next
  <2>5. CASE ~TooFew'
    <3>1. getView' = getView
      BY <1>3, <2>3, <2>5 DEF PopLoadTail, getView, getDone
    <3>2. QED
      BY <2>2, <3>1 DEF F!vars
  <2>6. QED
    BY <2>4, <2>5
<1>4. CASE PopLoadHead
  <2>1. UNCHANGED <<shared, pvars>>
    BY <1>4 DEF PopLoadHead
  <2>2. UNCHANGED <<Contents, putView>>
    BY <2>1 DEF shared, pvars, Contents, putView
  <2>3. getView' = getView
    BY <1>4 DEF PopLoadHead, CAt, getView, getDone
  <2>4. QED
    BY <2>2, <2>3 DEF F!vars
<1>5. CASE PopRead
  <2>1. UNCHANGED <<shared, pvars>>
    BY <1>5 DEF PopRead
  <2>2. UNCHANGED <<Contents, putView>>
    BY <2>1 DEF shared, pvars, Contents, putView
  <2>3. getView' = getView
    BY <1>5 DEF PopRead, CAt, getView, getDone
  <2>4. QED
    BY <2>2, <2>3 DEF F!vars
<1>6. CASE PopCommit
  <2>1. /\ cn <= distance(head, tail) /\ chead = SlotAt(head, cn)
        /\ \A i \in 1 .. Len(out) : out[i] = data[SlotAt(head, i - 1)]
        /\ Len(out) = cn \/ out = <<>>
    BY <1>6 DEF PopCommit, CAt, ConsumerInv
  <2>2. Contents' = SubSeq(Contents, cn + 1, Len(Contents))
    <3>1. Contents' = Between(head', tail', data')
      BY DEF Contents, Between
    <3>2. Between(SlotAt(head, cn), tail, data)
            = SubSeq(Between(head, tail, data), cn + 1, Len(Between(head, tail, data)))
      BY <2>1, BetweenShrinks DEF TypeOK
    <3>3. QED
      BY <1>6, <2>1, <3>1, <3>2, ContentsBetween DEF PopCommit
  <2>3. out \in {SubSeq(Contents, 1, cn), <<>>}
    <3>1. CASE Len(out) = cn
      BY <2>1, <3>1, BetweenPrefix, ContentsBetween DEF TypeOK
    <3>2. QED
      BY <2>1, <3>1
  <2>4. getView = [st |-> "called", n |-> cn, out |-> <<>>]
    BY <1>6 DEF PopCommit, CAt, getView, getDone
  <2>5. getView' = [st |-> "ok", n |-> cn, out |-> out]
    BY <1>6 DEF PopCommit, getView, getDone
  <2>6. UNCHANGED putView
    BY <1>6 DEF PopCommit, pvars, putView
  <2>7. cn <= Len(Contents)
    BY <2>1, ContentsType
  <2>8. F!Get
    BY <2>2, <2>3, <2>4, <2>5, <2>6, <2>7 DEF F!Get
  <2>9. QED
    BY <2>8 DEF F!Next
<1>7. CASE FrontLoadTail
  <2>1. UNCHANGED <<shared, pvars>>
    BY <1>7 DEF FrontLoadTail
  <2>2. UNCHANGED <<Contents, putView>>
    BY <2>1 DEF shared, pvars, Contents, putView
  <2>3. getView = [st |-> "called", n |-> 1, out |-> <<>>] /\ chead = head /\ cn = 1
    BY <1>7 DEF FrontLoadTail, CAt, getView, getDone, ConsumerInv
  <2>4. Len(Contents) = distance(head, tail) /\ Contents \in Seq(Values)
    BY ContentsType
  <2>5. head \in Slots /\ tail \in Slots
    BY DEF TypeOK
  <2>6. distance(head, tail) \in Nat /\ (distance(head, tail) = 0 <=> head = tail)
    BY <2>5, DistanceType
  <2>7. CASE head # tail
    <3>1. 1 \in 1 .. distance(head, tail)
      BY <2>6, <2>7
    <3>2. Contents[1] = data[SlotAt(head, 0)]
      BY <3>1 DEF Contents
    <3>3. SlotAt(head, 0) = head
      BY <2>5, QueueAssumption DEF SlotAt, Slots
    <3>4. Contents # <<>> /\ Head(Contents) = data[head]
      BY <2>4, <3>1, <3>2, <3>3
    <3>5. getView' = [st |-> "ok", n |-> 1, out |-> <<data[head]>>]
      <4>1. cpc' = "holding" /\ cn' = 1 /\ out' = <<data[head]>>
        BY <1>7, <2>3, <2>7 DEF FrontLoadTail
      <4>2. QED
        BY <4>1 DEF getView, getDone
    <3>6. F!Peek
      BY <2>2, <2>3, <3>4, <3>5 DEF F!Peek
    <3>7. QED
      BY <3>6 DEF F!Next
  <2>8. CASE head = tail
    <3>1. Len(Contents) < 1
      BY <2>4, <2>6, <2>8
    <3>2. cpc' \in {"empty", "assert"} /\ cn' = cn
      BY <1>7, <2>3, <2>8 DEF FrontLoadTail
    <3>3. getView' = [getView EXCEPT !.st = "empty"]
      BY <2>3, <3>2 DEF getView, getDone
    <3>4. F!Miss
      BY <2>2, <2>3, <3>1, <3>3 DEF F!Miss
    <3>5. QED
      BY <3>4 DEF F!Next
  <2>9. QED
    BY <2>7, <2>8
<1>8. QED
  BY <1>1, <1>2, <1>3, <1>4, <1>5, <1>6, <1>7 DEF Consume, F!Next

\* Kvasir::Atomic::Queue implements the bounded FIFO of whole calls: with one
\* producer and one consumer no interleaving loses, repeats, reorders or tears
\* what was pushed, nor refuses a call without cause.
THEOREM QueueIsFifo == Spec => IsFifo
<1>1. Inv /\ [Next]_vars => [F!Next]_(F!vars)
  <2> SUFFICES ASSUME Inv, [Next]_vars PROVE [F!Next]_(F!vars)
    OBVIOUS
  <2>1. CASE Clear
    <3>1. Contents' = <<>>
      <4>1. distance(head', tail') = 0
        BY <2>1, QueueAssumption DEF Clear, distance
      <4>2. Contents' = [i \in 1 .. 0 |-> data'[SlotAt(head', i - 1)]]
        BY <4>1 DEF Contents
      <4>3. QED
        BY <4>2
    <3>2. UNCHANGED <<putView, getView>>
      BY <2>1 DEF Clear, PIdle, CIdle, pvars, putView, getView, getDone
    <3>3. QED
      BY <3>1, <3>2 DEF F!Clear, F!Next
  <2>2. CASE UNCHANGED vars
    <3>1. UNCHANGED <<Contents, putView, getView>>
      BY <2>2 DEF vars, shared, pvars, cvars, Contents, putView, getView, getDone, TooFew
    <3>2. QED
      BY <3>1 DEF F!vars
  <2>3. QED
    BY <2>1, <2>2, RefineProduce, RefineConsume DEF Next
<1>2. QED
  BY RefineInit, Invariance, <1>1, PTL DEF Spec, IsFifo, F!Spec
=============================================================================
