---------------------------- MODULE ApplyProofs -----------------------------
(***************************************************************************)
(* Proofs about Exec and Apply for every set of registers whose masks tell *)
(* the truth, every call and every interference: what a store may change, *)
(* what merging leaves, and what a call does and returns.                  *)
(***************************************************************************)
EXTENDS Apply, ListProofs, FiniteSetTheorems, TLAPS

USE RegistersAssumption DEF Kinds, OneKinds, ZeroKinds

\* A written one that the peripheral ignores, or zero, leaves the bit alone.
LEMMA IgnoredBit ==
  ASSUME NEW r \in Regs, NEW b \in Bits, NEW old \in SUBSET Bits, NEW w \in SUBSET Bits,
         \/ b \in WIIZ[r] /\ b \notin w
         \/ b \in WIIO[r] /\ b \in w
         \/ b \in Plain(r) /\ (b \in w <=> b \in old)
  PROVE  b \in HwStore(r, old, w) <=> b \in old
<1>1. Kind[r][b] \in Kinds
  OBVIOUS
<1>2. CASE b \in WIIZ[r] /\ b \notin w
  BY <1>1, <1>2 DEF HwStore, BitAfter
<1>3. CASE b \in WIIO[r] /\ b \in w
  BY <1>1, <1>3 DEF HwStore, BitAfter
<1>4. CASE b \in Plain(r) /\ (b \in w <=> b \in old)
  BY <1>1, <1>4 DEF HwStore, BitAfter, Plain
<1> QED
  BY <1>2, <1>3, <1>4

\* Each bit is plain or has one value the peripheral ignores.
LEMMA BitSorts ==
  ASSUME NEW r \in Regs, NEW b \in Bits
  PROVE  /\ b \in Plain(r) \/ b \in WIIZ[r] \/ b \in WIIO[r]
         /\ b \in Plain(r) => b \notin WIIZ[r] /\ b \notin WIIO[r]
         /\ b \in WIIZ[r] => b \notin WIIO[r]
<1>1. Kind[r][b] \in Kinds
  OBVIOUS
<1> QED
  BY <1>1 DEF Plain

\* GenericReadMaskOrWrite writes to a bit outside its mask the value the
\* peripheral ignores, or what it loaded.
LEMMA OrOutside ==
  ASSUME NEW r \in Regs, NEW b \in Bits, NEW mask \in SUBSET Bits, b \notin mask,
         NEW value, value \subseteq mask, NEW i \in SUBSET Bits,
         NEW w, w = OrWritten(r, mask, value, i)
  PROVE  /\ w \in SUBSET Bits
         /\ b \in WIIZ[r] => b \notin w
         /\ b \in WIIO[r] => b \in w
         /\ b \in Plain(r) => (b \in w <=> b \in i)
BY BitSorts DEF OrWritten

\* So does GenericReadMaskXorWrite.
LEMMA XorOutside ==
  ASSUME NEW r \in Regs, NEW b \in Bits, NEW mask \in SUBSET Bits, b \notin mask,
         NEW value, value \subseteq mask, NEW i \in SUBSET Bits,
         NEW w, w = XorWritten(r, mask, value, i)
  PROVE  /\ w \in SUBSET Bits
         /\ b \in WIIZ[r] => b \notin w
         /\ b \in WIIO[r] => b \in w
         /\ b \in Plain(r) => (b \in w <=> b \in i)
BY BitSorts DEF XorWritten

\* A write that skips its load has no plain bit outside its mask.
LEMMA NoLoadNoPlain ==
  ASSUME NEW r \in Regs, NEW b \in Bits, NEW mask \in SUBSET Bits, b \notin mask,
         ~NeedsRead(r, mask)
  PROVE  b \notin Plain(r)
BY BitSorts DEF NeedsRead
-----------------------------------------------------------------------------
\* The bits that nothing but a store changes.
Settled(r) == Plain(r) \cup Toggles(r)

\* Between the load and the store these bits of the register stay as they were
\* loaded: interference changes flags only.
LoadedFresh ==
  pc = "store" => LET r == Head(todo).addr
                  IN  loaded \cap Settled(r) = regs[r] \cap Settled(r)

Inv == TypeOK /\ LoadedFresh

\* The first action of a list that is not empty, and the rest of it.
LEMMA HeadAction ==
  ASSUME TypeOK, todo # <<>>
  PROVE  /\ Head(todo) \in ActionType
         /\ ValueInMask(Head(todo))
         /\ Tail(todo) \in Seq(ActionType)
         /\ \A i \in DOMAIN Tail(todo) : ValueInMask(Tail(todo)[i])
<1>1. todo \in Seq(ActionType) /\ Len(todo) \in Nat /\ Len(todo) # 0
  BY DEF TypeOK
<1>2. 1 \in DOMAIN todo /\ Head(todo) = todo[1]
  BY <1>1
<1>3. Head(todo) \in ActionType /\ ValueInMask(Head(todo))
  BY <1>2, <1>1 DEF TypeOK
<1>4. Tail(todo) \in Seq(ActionType) /\ DOMAIN Tail(todo) = 1 .. Len(todo) - 1
  BY <1>1
<1>5. \A i \in DOMAIN Tail(todo) : Tail(todo)[i] = todo[i + 1] /\ i + 1 \in DOMAIN todo
  BY <1>1, <1>4
<1> QED
  BY <1>3, <1>4, <1>5 DEF TypeOK

\* Whatever a store writes is a value of its register.
LEMMA WrittenType ==
  ASSUME NEW a \in ActionType, ValueInMask(a), NEW i \in SUBSET Bits
  PROVE  Written(a, i) \in SUBSET Bits
BY DEF ActionType, ValueInMask, Written, OrWritten, XorWritten

\* NothingIn a call executes leaves the types, or touches a plain bit unseen.
LEMMA StepInv == Inv /\ Step => Inv'
<1> SUFFICES ASSUME Inv, Step PROVE Inv'
  OBVIOUS
<1> DEFINE a == Head(todo)
<1>0. todo # <<>> /\ TypeOK
  BY DEF Step, Inv
<1>1. /\ a \in ActionType /\ ValueInMask(a) /\ Tail(todo) \in Seq(ActionType)
      /\ \A i \in DOMAIN Tail(todo) : ValueInMask(Tail(todo)[i])
  BY <1>0, HeadAction
<1>2. a.addr \in Regs /\ regs[a.addr] \in SUBSET Bits
  BY <1>0, <1>1 DEF TypeOK, ActionType
<1> HIDE DEF a
<1>3. CASE Read(a)
  BY <1>0, <1>1, <1>2, <1>3 DEF Read, Inv, TypeOK, LoadedFresh, After, filterReturns
<1>4. CASE Load(a)
  BY <1>0, <1>1, <1>2, <1>4 DEF Load, Inv, TypeOK, LoadedFresh, a
<1>5. CASE Store(a)
  <2>1. Written(a, loaded) \in SUBSET Bits
    BY <1>0, <1>1, WrittenType DEF TypeOK
  <2>2. HwStore(a.addr, regs[a.addr], Written(a, loaded)) \in SUBSET Bits
    BY DEF HwStore
  <2> QED
    BY <1>0, <1>1, <1>2, <1>5, <2>1, <2>2
       DEF Store, Inv, TypeOK, LoadedFresh, After, filterReturns
<1> QED
  BY <1>3, <1>4, <1>5 DEF Step, a

\* Interference changes none of these bits.
LEMMA HardwareInv == Inv /\ Hardware => Inv'
<1> SUFFICES ASSUME Inv, Hardware PROVE Inv'
  OBVIOUS
<1>1. PICK r \in Regs : \E b \in Events(r) :
        regs' = [regs EXCEPT ![r] = (@ \ {b}) \cup ({b} \ @)]
  BY DEF Hardware
<1>2. PICK b \in Events(r) : regs' = [regs EXCEPT ![r] = (@ \ {b}) \cup ({b} \ @)]
  BY <1>1
<1>3. b \in Bits /\ b \notin Settled(r)
  BY <1>2 DEF Events, Settled
<1>4. UNCHANGED <<pc, todo, loaded, reads, ret>>
  BY DEF Hardware
<1>5. \A s \in Regs : regs'[s] \in SUBSET Bits /\ regs'[s] \cap Settled(s) = regs[s] \cap Settled(s)
  BY <1>2, <1>3 DEF Inv, TypeOK
<1>6. TypeOK'
  BY <1>2, <1>4, <1>5 DEF Inv, TypeOK
<1>7. LoadedFresh'
  <2> SUFFICES ASSUME pc = "store"
               PROVE  loaded \cap Settled(Head(todo).addr)
                        = regs'[Head(todo).addr] \cap Settled(Head(todo).addr)
    BY <1>4 DEF LoadedFresh
  <2>1. Head(todo).addr \in Regs
    BY HeadAction DEF Inv, TypeOK, ActionType
  <2> QED
    BY <2>1, <1>5 DEF Inv, LoadedFresh
<1> QED
  BY <1>6, <1>7 DEF Inv

\* A list of actions that have their values in their masks.
WellFormed(p) == p \in Seq(ActionType) /\ \A i \in DOMAIN p : ValueInMask(p[i])

\* A call begins with a list of well-formed actions.
LEMMA StartInv ==
  ASSUME Inv, NEW p, WellFormed(p), Start(p)
  PROVE  Inv'
<1>1. p \in Seq(ActionType) /\ \A i \in DOMAIN p : ValueInMask(p[i])
  BY DEF WellFormed
<1>2. \A i \in DOMAIN p : p[i].addr \in Regs
  <2>1. DOMAIN p = 1 .. Len(p) /\ \A i \in 1 .. Len(p) : p[i] \in ActionType
    BY <1>1
  <2> QED
    BY <2>1 DEF ActionType
<1>3. /\ todo' = p /\ pc' = After(p) /\ reads' \in SUBSET Regs
      /\ UNCHANGED <<regs, loaded, ret>>
  BY <1>2 DEF Start
<1> QED
  BY <1>1, <1>3 DEF Inv, TypeOK, LoadedFresh, After

\* Inv is inductive for the run-time half, if it is given well-formed actions.
LEMMA ExecInvariance ==
  ASSUME \A p \in Programs : WellFormed(p)
  PROVE  ExecSpec => []Inv
<1>1. ExecInit => Inv
  BY ExecAssumption DEF ExecInit, Inv, TypeOK, LoadedFresh
<1>2. Inv /\ [ExecNext]_execVars => Inv'
  <2>1. Inv /\ UNCHANGED execVars => Inv'
    BY DEF Inv, TypeOK, LoadedFresh, execVars
  <2> QED
    BY <2>1, StepInv, HardwareInv, StartInv DEF ExecNext
<1> QED
  BY <1>1, <1>2, PTL DEF ExecSpec

\* The store of a well-formed action leaves the bits outside its mask alone.
LEMMA StoreFrame ==
  ASSUME Inv, todo # <<>>, Store(Head(todo)), NEW r \in Regs, NEW b \in Bits,
         r = Head(todo).addr => b \notin Head(todo).mask
  PROVE  b \in regs'[r] <=> b \in regs[r]
<1> DEFINE a == Head(todo)
           w == Written(a, loaded)
<1>0. TypeOK /\ a \in ActionType /\ ValueInMask(a)
  BY HeadAction DEF Inv
<1>1. /\ a.addr \in Regs /\ a.mask \in SUBSET Bits /\ a.lit \cup a.in \in SUBSET a.mask
      /\ regs \in [Regs -> SUBSET Bits] /\ loaded \in SUBSET Bits
  BY <1>0 DEF ActionType, ValueInMask, TypeOK
<1>2. regs' = [regs EXCEPT ![a.addr] = HwStore(a.addr, regs[a.addr], w)]
  BY DEF Store
<1>3. CASE r # a.addr
  BY <1>1, <1>2, <1>3
<1>4. CASE r = a.addr
  <2>1. b \notin a.mask
    BY <1>4
  <2>2. /\ w \in SUBSET Bits
        /\ b \in WIIZ[r] => b \notin w
        /\ b \in WIIO[r] => b \in w
        /\ b \in Plain(r) => (b \in w <=> b \in loaded)
    <3> DEFINE v == a.lit \cup a.in
    <3>0. v \subseteq a.mask
      BY <1>1
    <3>1. CASE a.kind = "xor"
      <4>1. w = XorWritten(r, a.mask, v, loaded)
        BY <3>1, <1>4 DEF Written
      <4>2. a.mask \in SUBSET Bits /\ loaded \in SUBSET Bits /\ b \notin a.mask
        BY <1>1, <2>1
      <4> HIDE DEF w, v, a
      <4> QED
        BY <3>0, <4>1, <4>2, XorOutside
    <3>2. CASE a.kind # "xor"
      <4>1. w = OrWritten(r, a.mask, v, loaded)
        BY <3>2, <1>4 DEF Written
      <4>2. a.mask \in SUBSET Bits /\ loaded \in SUBSET Bits /\ b \notin a.mask
        BY <1>1, <2>1
      <4> HIDE DEF w, v, a
      <4> QED
        BY <3>0, <4>1, <4>2, OrOutside
    <3> QED
      BY <3>1, <3>2
  <2>3. b \in Plain(r) => (b \in loaded <=> b \in regs[r])
    <3>1. CASE pc = "store"
      BY <3>1, <1>4 DEF Inv, LoadedFresh, Settled
    <3>2. CASE pc # "store"
      BY <3>2, <1>1, <1>4, <2>1, NoLoadNoPlain DEF Store, Loads
    <3> QED
      BY <3>1, <3>2
  <2>4. b \in HwStore(r, regs[r], w) <=> b \in regs[r]
    BY <1>1, <1>4, <2>2, <2>3, BitSorts, IgnoredBit
  <2> QED
    BY <1>1, <1>2, <1>4, <2>4
<1> QED
  BY <1>3, <1>4

\* No store of a call, whatever its program and whatever flags rise or are
\* reset between its load and the store, changes a bit outside the fields the
\* action writes.
THEOREM ExecFrame ==
  ASSUME \A p \in Programs : WellFormed(p)
  PROVE  ExecSpec => Frame
<1>1. Inv /\ Step /\ [ExecNext]_execVars =>
        \A r \in Regs, b \in Bits :
          (r = Head(todo).addr => b \notin Head(todo).mask)
            => (b \in regs'[r] <=> b \in regs[r])
  BY StoreFrame DEF Step, Read, Load
<1>2. Inv /\ [ExecNext]_execVars =>
        [Step => \A r \in Regs, b \in Bits :
           (r = Head(todo).addr => b \notin Head(todo).mask)
             => (b \in regs'[r] <=> b \in regs[r])]_execVars
  BY <1>1
<1> QED
  BY <1>2, ExecInvariance, PTL DEF ExecSpec, Frame
-----------------------------------------------------------------------------
\* Calls of apply are runs of the run-time half.
LEMMA ApplyRuns == Spec => ExecSpec
<1>1. Init => ExecInit
  BY DEF Init
<1>2. [Next]_vars => [ExecNext]_execVars
  BY ApplyAssumption DEF Next, vars, apply, Execute, Interfere, ExecNext
<1> QED
  BY <1>1, <1>2, PTL DEF Spec, ExecSpec
-----------------------------------------------------------------------------
HIDE RegistersAssumption DEF Kinds, OneKinds, ZeroKinds

\* The merged actions of a group: as the indexed ones, and "both" with values of both
\* kinds.
MergedActions ==
  [kind : {"literal", "runtime", "both", "xor", "read"}, addr : Regs,
   mask : SUBSET Bits, lit : SUBSET Bits, inputs : Seq(Nat)]

\* The actions of a group in order: by register, and there as they are ranked.
LEMMA SortedInOrder ==
  ASSUME NEW g \in Seq(IndexedActions), NEW s, s = SortedActions(g)
  PROVE  /\ s \in Seq(IndexedActions) /\ Len(s) = Len(g) /\ ToSet(s) = ToSet(g)
         /\ \A i, j \in 1 .. Len(s) : i < j => ~IndexedActionLess(s[j], s[i])
<1> DEFINE T  == ToSet(g)
           lt == {p \in T \X T : IndexedActionLess(p[1], p[2])}
           bf == {p \in T \X T : ~IndexedActionLess(p[2], p[1])}
<1>0. Len(g) \in Nat /\ DOMAIN g = 1 .. Len(g) /\ \A i \in 1 .. Len(g) : g[i] \in IndexedActions
  OBVIOUS
<1>1. T \subseteq IndexedActions /\ T = Firsts(g, Len(g)) /\ g \in Seq(T)
  <2>1. T \subseteq IndexedActions
    BY <1>0 DEF ToSet
  <2>2. T = Firsts(g, Len(g))
    BY <1>0, Zenon DEF ToSet, Firsts
  <2>3. \A i \in 1 .. Len(g) : g[i] \in T
    BY <1>0 DEF ToSet
  <2>4. g \in Seq(T)
    <3> HIDE DEF T
    <3> QED BY <1>0, <2>3
  <2> QED BY <2>1, <2>2, <2>4
<1>2. \A a \in IndexedActions : a.addr \in Nat /\ ActionExecRank(a) \in 1 .. 3
  <2>1. \A a \in IndexedActions : a.addr \in Regs
    BY DEF IndexedActions
  <2> QED BY <2>1, ApplyAssumption DEF ActionExecRank
<1>3. \A x, y \in T : (<<x, y>> \in lt <=> IndexedActionLess(x, y)) /\ (<<x, y>> \in bf <=> ~IndexedActionLess(y, x))
  OBVIOUS
<1>4. \A x, y, z \in T : /\ ~IndexedActionLess(y, x) /\ ~IndexedActionLess(z, y) => ~IndexedActionLess(z, x)
                         /\ ~(IndexedActionLess(x, y) /\ IndexedActionLess(y, x))
  <2> SUFFICES ASSUME NEW x \in T, NEW y \in T, NEW z \in T
               PROVE  /\ ~IndexedActionLess(y, x) /\ ~IndexedActionLess(z, y) => ~IndexedActionLess(z, x)
                      /\ ~(IndexedActionLess(x, y) /\ IndexedActionLess(y, x))
    OBVIOUS
  <2>1. /\ x.addr \in Nat /\ y.addr \in Nat /\ z.addr \in Nat /\ ActionExecRank(x) \in 1 .. 3
        /\ ActionExecRank(y) \in 1 .. 3 /\ ActionExecRank(z) \in 1 .. 3
    BY <1>1, <1>2
  <2> QED BY <2>1 DEF IndexedActionLess
<1> HIDE DEF T, lt, bf
<1>5. Orders(lt, bf, T)
  <2>1. \A x, y, z \in T : <<x, y>> \in bf /\ <<y, z>> \in bf => <<x, z>> \in bf
    BY <1>3, <1>4, Zenon
  <2>2. \A x, y \in T : <<x, y>> \in bf => <<y, x>> \notin lt
    BY <1>3, Zenon
  <2>3. \A x, y, z \in T : <<x, z>> \in lt => <<x, y>> \in lt \/ <<y, z>> \in lt
    BY <1>3, <1>4, Zenon
  <2> QED BY <2>1, <2>2, <2>3, Zenon DEF Orders
<1>6. Sortable(lt, bf, T, g)
  <2> SUFFICES ASSUME NEW i \in 1 .. Len(g), NEW j \in 1 .. Len(g) PROVE Fits(lt, bf, g[i], g[j])
    BY <1>1, Zenon DEF Sortable
  <2>1. g[i] \in T /\ g[j] \in T
    BY <1>1
  <2> QED BY <1>3, <1>4, <2>1, Zenon DEF Fits
<1>7. SortedFirst(bf, T, g, Len(g), sort(lt, g))
  BY <1>5, <1>6, SortSorts
<1>8. s = sort(lt, g)
  BY DEF SortedActions, lt, T
<1>9. s \in Seq(T) /\ Len(s) = Len(g) /\ ToSet(s) = T /\ InOrder(bf, s)
  BY <1>1, <1>7, <1>8, Zenon DEF SortedFirst
<1>10. \A i \in 1 .. Len(s) : s[i] \in T
  BY <1>9
<1>11. s \in Seq(IndexedActions)
  <2>1. Len(s) \in Nat /\ s \in Seq(T) /\ \A i \in 1 .. Len(s) : s[i] \in IndexedActions
    BY <1>1, <1>9, <1>10
  <2> QED BY <2>1
<1>12. \A i, j \in 1 .. Len(s) : i < j => ~IndexedActionLess(s[j], s[i])
  BY <1>3, <1>9, <1>10, Zenon DEF InOrder
<1> QED BY <1>9, <1>11, <1>12 DEF T

\* f has the lists of merged actions, each with one action more than the one before.
Mergings(g, f) ==
  f[0] = <<>> /\ \A i \in 1 .. Len(SortedActions(g)) : f[i] = MergeStep(f[i - 1], SortedActions(g)[i])

\* MergeRegisterActions is where a run through the sorted actions ends.
LEMMA MergeRuns ==
  ASSUME NEW call, Len(SortedActions(call)) \in Nat
  PROVE  \E f : Mergings(call, f) /\ MergeRegisterActions(call) = f[Len(SortedActions(call))]
<1> DEFINE n == Len(SortedActions(call))
           base == <<>>
           Succ(x, i) == MergeStep(x, SortedActions(call)[i])
           Run(g, k) == /\ g = [i \in 0 .. k |-> g[i]] /\ g[0] = base
                        /\ \A i \in 1 .. k : g[i] = Succ(g[i - 1], i)
           S == {k \in Nat : \E g : Run(g, k)}
           Fcn(g) == g = [i \in 0 .. n |-> IF i = 0 THEN base ELSE MergeStep(g[i - 1], SortedActions(call)[i])]
           f == CHOOSE g : Fcn(g)
<1>0. n \in Nat
  OBVIOUS
<1>1. \E g : Run(g, n)
  <2> HIDE DEF n, base, Succ
  <2>1. Run([i \in 0 .. 0 |-> base], 0)
    OBVIOUS
  <2>2. ASSUME NEW k \in Nat, NEW g, Run(g, k)
        PROVE  Run([i \in 0 .. k + 1 |-> IF i <= k THEN g[i] ELSE Succ(g[k], k + 1)], k + 1)
    <3> DEFINE h == [i \in 0 .. k + 1 |-> IF i <= k THEN g[i] ELSE Succ(g[k], k + 1)]
    <3>1. h = [i \in 0 .. k + 1 |-> h[i]] /\ h[0] = base
      BY <2>2
    <3>2. ASSUME NEW i \in 1 .. k + 1 PROVE h[i] = Succ(h[i - 1], i)
      <4>1. CASE i <= k
        <5>1. h[i] = g[i] /\ h[i - 1] = g[i - 1] /\ i \in 1 .. k
          BY <4>1
        <5> QED BY <2>2, <5>1
      <4>2. CASE i = k + 1
        <5>1. h[i] = Succ(g[k], k + 1) /\ h[i - 1] = g[k] /\ i = k + 1
          BY <4>2
        <5> QED BY <5>1
      <4> QED BY <4>1, <4>2
    <3> QED BY <3>1, <3>2
  <2> HIDE DEF Run
  <2>3. 0 \in S
    BY <2>1
  <2>4. \A k \in Nat : k \in S => k + 1 \in S
    <3> SUFFICES ASSUME NEW k \in Nat, NEW g, Run(g, k) PROVE \E h : Run(h, k + 1)
      OBVIOUS
    <3> QED BY <2>2, Zenon
  <2>5. n \in S
    <3> HIDE DEF S
    <3> QED BY <1>0, <2>3, <2>4, Induction
  <2> QED BY <2>5
<1>2. PICK g : Run(g, n)
  <2> HIDE DEF Run
  <2> QED BY <1>1
<1>3. Fcn(g)
  <2>1. \A i \in 0 .. n : g[i] = IF i = 0 THEN base ELSE Succ(g[i - 1], i)
    <3> HIDE DEF n, base, Succ
    <3> SUFFICES ASSUME NEW i \in 0 .. n PROVE g[i] = IF i = 0 THEN base ELSE Succ(g[i - 1], i)
      OBVIOUS
    <3>1. g[0] = base /\ \A j \in 1 .. n : g[j] = Succ(g[j - 1], j)
      BY <1>2
    <3>2. i = 0 \/ i \in 1 .. n
      BY <1>0
    <3> QED BY <3>1, <3>2
  <2>2. g = [i \in 0 .. n |-> g[i]]
    BY <1>2
  <2> QED BY <2>1, <2>2, Zenon
<1>4. Fcn(f)
  <2> HIDE DEF Fcn
  <2> QED BY <1>3, Zenon
<1>5. MergeRegisterActions(call) = f[n]
  BY DEF MergeRegisterActions
<1>6. f[0] = base /\ \A i \in 1 .. n : f[i] = Succ(f[i - 1], i)
  <2>1. \A i \in 0 .. n : f[i] = IF i = 0 THEN base ELSE Succ(f[i - 1], i)
    BY <1>4
  <2> HIDE DEF f, base, Succ, n
  <2> QED BY <1>0, <2>1
<1> HIDE DEF f
<1> QED BY <1>5, <1>6 DEF Mergings

\* What a register may be accessed by in a group: one read, one write, and a xor beside
\* a write of known values.
Compatible(x, y) ==
  {x.kind, y.kind} \in {{"read", k} : k \in {"literal", "runtime", "both", "xor"}}
                         \cup {{"literal", "xor"}}

\* No two actions of d access a register otherwise.
Once(d) == \A i, j \in 1 .. Len(d) : i # j /\ d[i].addr = d[j].addr => Compatible(d[i], d[j])

\* d is what the actions up to n were merged to.
Stacked(d, n) ==
  /\ d \in Seq(MergedActions) /\ d # <<>> /\ Once(d)
  /\ d[1].addr = n.addr
  /\ d[1].kind = "read" <=> n.kind = "read"
  /\ d[1].kind = "xor" => n.kind = "xor"
  /\ \A k \in 2 .. Len(d) :
       /\ d[k].addr <= n.addr
       /\ d[k].addr = n.addr => \/ d[1].kind = "read" /\ d[k].kind # "read"
                                \/ d[1].kind = "xor" /\ d[k].kind = "literal"

\* An action merged with the last one, or by itself, is a merged action.
LEMMA MergedType ==
  ASSUME NEW x \in IndexedActions, NEW y \in MergedActions
  PROVE  Merged(x, y) \in MergedActions /\ x \in MergedActions
<1>1. x.inputs \in Seq(Nat) /\ y.inputs \in Seq(Nat)
  BY DEF IndexedActions, MergedActions
<1>2. x.inputs \o y.inputs \in Seq(Nat)
  BY <1>1
<1> QED BY <1>2 DEF IndexedActions, MergedActions, Merged

\* The next action in the order keeps the list so: it can only be merged with its head.
LEMMA StackedOn ==
  ASSUME NEW d, NEW n \in IndexedActions, Stacked(d, n), NEW x \in IndexedActions,
         ~IndexedActionLess(x, n), NEW e, e = MergeStep(d, x)
  PROVE  Stacked(e, x)
<1>1. /\ d \in Seq(MergedActions) /\ d # <<>> /\ Head(d) = d[1] /\ Len(d) \in Nat /\ Len(d) >= 1
      /\ Tail(d) \in Seq(MergedActions) /\ Len(Tail(d)) = Len(d) - 1
      /\ (\A k \in 1 .. Len(d) - 1 : Tail(d)[k] = d[k + 1])
      /\ \A k \in 1 .. Len(d) : d[k] \in MergedActions
  BY DEF Stacked
<1>2. /\ \A y \in MergedActions : y.addr \in Nat /\ y.kind \in {"literal", "runtime", "both", "xor", "read"}
      /\ \A y \in IndexedActions : y.addr \in Nat /\ y.kind \in {"literal", "runtime", "xor", "read"}
  BY ApplyAssumption DEF MergedActions, IndexedActions
<1>3. d[1] \in MergedActions
  BY <1>1
<1>4. n.addr <= x.addr /\ (n.addr = x.addr => ActionExecRank(n) <= ActionExecRank(x))
  <2>1. n.addr \in Nat /\ x.addr \in Nat /\ ActionExecRank(n) \in 1 .. 3 /\ ActionExecRank(x) \in 1 .. 3
    BY <1>2 DEF ActionExecRank
  <2> QED BY <2>1 DEF IndexedActionLess
<1>5. /\ n.addr = x.addr /\ n.kind = "read" => x.kind = "read"
      /\ n.addr = x.addr /\ n.kind = "xor" => x.kind \in {"xor", "read"}
  BY <1>2, <1>4 DEF ActionExecRank
<1>6. CASE Mergeable(x, d[1])
  <2> DEFINE m == Merged(x, d[1])
  <2>1. m \in MergedActions /\ e = <<m>> \o Tail(d)
    BY <1>1, <1>3, <1>6, MergedType DEF MergeStep
  <2>2. /\ m.addr = x.addr /\ x.addr = d[1].addr /\ d[1].addr = n.addr
        /\ m.kind = "read" <=> x.kind = "read"
        /\ m.kind = "xor" <=> x.kind = "xor" /\ d[1].kind = "xor"
        /\ d[1].kind = "read" <=> x.kind = "read"
    BY <1>2, <1>3, <1>6 DEF Merged, Mergeable, Stacked
  <2> HIDE DEF m
  <2>3. /\ e \in Seq(MergedActions) /\ e # <<>> /\ Len(e) = Len(d) /\ e[1] = m
        /\ \A k \in 2 .. Len(d) : e[k] = d[k]
    <3>1. /\ e \in Seq(MergedActions) /\ e # <<>> /\ Len(e) = Len(d) /\ e[1] = m
          /\ \A k \in 2 .. Len(e) : k - 1 \in 1 .. Len(Tail(d)) /\ e[k] = Tail(d)[k - 1]
      BY <1>1, <2>1, NewHead
    <3>2. ASSUME NEW k \in 2 .. Len(d) PROVE e[k] = d[k]
      <4>1. k - 1 \in 1 .. Len(d) - 1 /\ (k - 1) + 1 = k
        BY <1>1
      <4> QED BY <1>1, <3>1, <4>1
    <3> QED BY <3>1, <3>2
  <2>4. ASSUME NEW k \in 2 .. Len(e)
        PROVE  /\ k \in 2 .. Len(d) /\ e[k] = d[k] /\ e[k].addr <= x.addr
               /\ e[k].addr = x.addr => \/ m.kind = "read" /\ e[k].kind # "read"
                                        \/ m.kind = "xor" /\ e[k].kind = "literal"
    <3>1. k \in 2 .. Len(d) /\ e[k] = d[k] /\ k \in 1 .. Len(d)
      BY <1>1, <2>3
    <3>2. /\ d[k].addr <= x.addr
          /\ d[k].addr = x.addr => \/ d[1].kind = "read" /\ d[k].kind # "read"
                                   \/ d[1].kind = "xor" /\ d[k].kind = "literal"
      BY <2>2, <3>1 DEF Stacked
    <3>3. d[1].kind = "xor" => x.kind = "xor"
      BY <1>5, <2>2 DEF Stacked
    <3> QED BY <2>2, <3>1, <3>2, <3>3
  <2>5. Once(e)
    <3> SUFFICES ASSUME NEW i \in 1 .. Len(e), NEW j \in 1 .. Len(e), i # j, e[i].addr = e[j].addr
                 PROVE  Compatible(e[i], e[j])
      BY DEF Once
    <3>1. (i = 1 \/ i \in 2 .. Len(e)) /\ (j = 1 \/ j \in 2 .. Len(e))
      OBVIOUS
    <3>2. \A k \in 2 .. Len(e) : e[k].addr = x.addr => Compatible(m, e[k]) /\ Compatible(e[k], m)
      <4> SUFFICES ASSUME NEW k \in 2 .. Len(e), e[k].addr = x.addr PROVE Compatible(m, e[k]) /\ Compatible(e[k], m)
        OBVIOUS
      <4>1. e[k] \in MergedActions
        BY <1>1, <2>4
      <4> QED BY <1>2, <2>4, <4>1 DEF Compatible
    <3>3. CASE i = 1
      BY <2>2, <2>3, <3>1, <3>2, <3>3
    <3>4. CASE j = 1
      BY <2>2, <2>3, <3>1, <3>2, <3>4
    <3>5. CASE i \in 2 .. Len(e) /\ j \in 2 .. Len(e)
      <4>1. i \in 1 .. Len(d) /\ j \in 1 .. Len(d) /\ e[i] = d[i] /\ e[j] = d[j]
        BY <2>3, <2>4, <3>5
      <4> QED BY <4>1 DEF Once, Stacked
    <3> QED BY <3>1, <3>3, <3>4, <3>5, Zenon
  <2>6. e[1].addr = x.addr /\ (e[1].kind = "read" <=> x.kind = "read") /\ (e[1].kind = "xor" => x.kind = "xor")
    BY <2>2, <2>3
  <2> QED BY <2>3, <2>4, <2>5, <2>6 DEF Stacked
<1>7. CASE ~Mergeable(x, d[1])
  <2>1. e = <<x>> \o d /\ x \in MergedActions
    BY <1>1, <1>3, <1>7, MergedType DEF MergeStep
  <2>2. /\ e \in Seq(MergedActions) /\ e # <<>> /\ Len(e) = Len(d) + 1 /\ e[1] = x
        /\ \A k \in 2 .. Len(e) : k - 1 \in 1 .. Len(d) /\ e[k] = d[k - 1]
    BY <1>1, <2>1, NewHead
  <2>3. x.addr = n.addr => \/ x.kind = "read" /\ d[1].kind # "read"
                           \/ x.kind = "xor" /\ d[1].kind = "literal"
    <3> SUFFICES ASSUME x.addr = n.addr
                 PROVE  \/ x.kind = "read" /\ d[1].kind # "read"
                        \/ x.kind = "xor" /\ d[1].kind = "literal"
      OBVIOUS
    <3>1. d[1].addr = x.addr /\ (d[1].kind = "read" <=> n.kind = "read") /\ (d[1].kind = "xor" => n.kind = "xor")
      BY DEF Stacked
    <3> QED BY <1>2, <1>3, <1>5, <1>7, <3>1 DEF Mergeable
  <2>4. ASSUME NEW k \in 1 .. Len(d)
        PROVE  /\ d[k].addr <= x.addr
               /\ d[k].addr = x.addr => \/ x.kind = "read" /\ d[k].kind # "read"
                                        \/ x.kind = "xor" /\ d[k].kind = "literal"
    <3>1. n.addr \in Nat /\ x.addr \in Nat /\ d[k].addr \in Nat
      BY <1>1, <1>2
    <3>2. CASE k = 1
      BY <1>4, <2>3, <3>1, <3>2 DEF Stacked
    <3>3. CASE k # 1
      <4>1. k \in 2 .. Len(d)
        BY <3>3
      <4>2. /\ d[k].addr <= n.addr
            /\ d[k].addr = n.addr => \/ d[1].kind = "read" /\ d[k].kind # "read"
                                     \/ d[1].kind = "xor" /\ d[k].kind = "literal"
        BY <4>1 DEF Stacked
      <4>3. d[k].addr <= x.addr /\ (d[k].addr = x.addr => d[k].addr = n.addr /\ x.addr = n.addr)
        BY <1>4, <3>1, <4>2
      <4> QED BY <2>3, <4>2, <4>3
    <3> QED BY <3>2, <3>3
  <2>5. Once(e)
    <3> SUFFICES ASSUME NEW i \in 1 .. Len(e), NEW j \in 1 .. Len(e), i # j, e[i].addr = e[j].addr
                 PROVE  Compatible(e[i], e[j])
      BY DEF Once
    <3>1. (i = 1 \/ i \in 2 .. Len(e)) /\ (j = 1 \/ j \in 2 .. Len(e))
      OBVIOUS
    <3>2. \A k \in 2 .. Len(e) : e[k].addr = x.addr => Compatible(x, e[k]) /\ Compatible(e[k], x)
      <4> SUFFICES ASSUME NEW k \in 2 .. Len(e), e[k].addr = x.addr PROVE Compatible(x, e[k]) /\ Compatible(e[k], x)
        OBVIOUS
      <4>1. k - 1 \in 1 .. Len(d) /\ e[k] = d[k - 1] /\ d[k - 1] \in MergedActions
        BY <1>1, <2>2
      <4>2. \/ x.kind = "read" /\ e[k].kind # "read"
            \/ x.kind = "xor" /\ e[k].kind = "literal"
        BY <2>4, <4>1
      <4> QED BY <1>2, <4>1, <4>2 DEF Compatible
    <3>3. CASE i = 1
      BY <2>2, <3>1, <3>2, <3>3
    <3>4. CASE j = 1
      BY <2>2, <3>1, <3>2, <3>4
    <3>5. CASE i \in 2 .. Len(e) /\ j \in 2 .. Len(e)
      <4>1. /\ i - 1 \in 1 .. Len(d) /\ j - 1 \in 1 .. Len(d) /\ e[i] = d[i - 1] /\ e[j] = d[j - 1]
            /\ i - 1 # j - 1
        BY <2>2, <3>5
      <4> QED BY <4>1 DEF Once, Stacked
    <3> QED BY <3>1, <3>3, <3>4, <3>5, Zenon
  <2>6. \A k \in 2 .. Len(e) :
           /\ e[k].addr <= x.addr
           /\ e[k].addr = x.addr => \/ x.kind = "read" /\ e[k].kind # "read"
                                    \/ x.kind = "xor" /\ e[k].kind = "literal"
    BY <2>2, <2>4
  <2> QED BY <2>2, <2>5, <2>6 DEF Stacked
<1> QED BY <1>6, <1>7

\* The action m is made of those of the set C.
Made(m, C) ==
  /\ C # {}
  /\ \A a \in C : a.addr = m.addr /\ (a.kind = "read" <=> m.kind = "read")
  /\ m.mask = UNION {a.mask : a \in C} /\ m.lit = UNION {a.lit : a \in C}
  /\ ToSet(m.inputs) = UNION {ToSet(a.inputs) : a \in C}
  /\ m.kind = "xor" => \A a \in C : a.kind = "xor"
  /\ m.kind = "both" => \E a \in C : a.kind = "runtime"
  /\ m.kind \in {"literal", "runtime", "read"} => \A a \in C : a.kind = m.kind

\* Each of D is made of some of P, and each of P is in one of D.
Makes(D, P) ==
  /\ \A m \in D : \E C \in SUBSET P : Made(m, C)
  /\ \A a \in P : \E m \in D : \E C \in SUBSET P : a \in C /\ Made(m, C)

\* An action by itself.
LEMMA MadeOfOne ==
  ASSUME NEW x \in IndexedActions
  PROVE  Made(x, {x})
BY DEF Made, IndexedActions

\* What is merged with a merged action is one of those it is made of.
LEMMA MadeOfMore ==
  ASSUME NEW x \in IndexedActions, NEW y \in MergedActions, Mergeable(x, y), NEW C, Made(y, C)
  PROVE  Made(Merged(x, y), C \cup {x})
<1> DEFINE m == Merged(x, y)
           K == C \cup {x}
<1>1. /\ x.inputs \in Seq(Nat) /\ y.inputs \in Seq(Nat)
      /\ x.kind \in {"literal", "runtime", "xor", "read"}
      /\ y.kind \in {"literal", "runtime", "both", "xor", "read"}
  BY DEF IndexedActions, MergedActions
<1>2. /\ m.kind = (IF x.kind = y.kind THEN x.kind ELSE "both") /\ m.addr = x.addr
      /\ m.mask = x.mask \cup y.mask /\ m.lit = x.lit \cup y.lit /\ m.inputs = x.inputs \o y.inputs
  BY DEF Merged
<1>3. ToSet(m.inputs) = ToSet(x.inputs) \cup ToSet(y.inputs)
  BY <1>1, <1>2, JoinedSet
<1> HIDE DEF m
<1>4. m.mask = UNION {a.mask : a \in K} /\ m.lit = UNION {a.lit : a \in K}
  <2>1. y.mask = UNION {a.mask : a \in C} /\ y.lit = UNION {a.lit : a \in C}
    BY DEF Made
  <2> QED BY <1>2, <2>1
<1>5. ToSet(m.inputs) = UNION {ToSet(a.inputs) : a \in K}
  <2>1. ToSet(y.inputs) = UNION {ToSet(a.inputs) : a \in C}
    BY DEF Made
  <2> QED BY <1>3, <2>1
<1>6. \A a \in K : a.addr = m.addr /\ (a.kind = "read" <=> m.kind = "read")
  <2>1. \A a \in C : a.addr = y.addr /\ (a.kind = "read" <=> y.kind = "read")
    BY DEF Made
  <2>2. x.addr = y.addr /\ (x.kind = "read" <=> y.kind = "read") /\ (m.kind = "read" <=> x.kind = "read")
    BY <1>1, <1>2 DEF Mergeable
  <2> QED BY <1>2, <2>1, <2>2
<1>7. m.kind = "xor" => \A a \in K : a.kind = "xor"
  BY <1>2 DEF Made
<1>8. m.kind = "both" => \E a \in K : a.kind = "runtime"
  <2>1. CASE x.kind = "runtime"
    BY <2>1
  <2>2. CASE x.kind # "runtime" /\ m.kind = "both"
    <3>1. y.kind \in {"runtime", "both"}
      BY <1>1, <1>2, <2>2 DEF Mergeable
    <3>2. C # {} /\ \E a \in C : a.kind = "runtime"
      BY <3>1 DEF Made
    <3> QED BY <3>2
  <2> QED BY <2>1, <2>2
<1>9. m.kind \in {"literal", "runtime", "read"} => \A a \in K : a.kind = m.kind
  BY <1>2 DEF Made
<1>10. K # {}
  OBVIOUS
<1> QED BY <1>4, <1>5, <1>6, <1>7, <1>8, <1>9, <1>10, Zenon DEF Made, m

\* So is each list after the next action.
LEMMA MakesOn ==
  ASSUME NEW d \in Seq(MergedActions), NEW P, Makes(ToSet(d), P), NEW x \in IndexedActions,
         NEW e, e = MergeStep(d, x)
  PROVE  Makes(ToSet(e), P \cup {x})
<1> DEFINE Q == P \cup {x}
<1>0. \A m \in ToSet(d) : \E C \in SUBSET Q : Made(m, C)
  BY DEF Makes
<1>00. \A a \in P : \E m \in ToSet(d) : \E C \in SUBSET Q : a \in C /\ Made(m, C)
  BY DEF Makes
<1>1. CASE d # <<>> /\ Mergeable(x, Head(d))
  <2> DEFINE h == Head(d)
             m == Merged(x, h)
  <2>1. h \in MergedActions /\ Tail(d) \in Seq(MergedActions) /\ d = <<h>> \o Tail(d)
    BY <1>1, HeadAndTail
  <2>2. m \in MergedActions /\ e = <<m>> \o Tail(d)
    BY <1>1, <2>1, MergedType DEF MergeStep
  <2> HIDE DEF m, h
  <2> DEFINE t == Tail(d)
  <2>21. t \in Seq(MergedActions) /\ d = <<h>> \o t /\ e = <<m>> \o t
    BY <2>1, <2>2
  <2> HIDE DEF t
  <2>20. \A y \in MergedActions, b \in Seq(MergedActions) : ToSet(<<y>> \o b) = {y} \cup ToSet(b)
    BY NewHead
  <2>22. ToSet(d) = {h} \cup ToSet(t)
    <3>1. h \in MergedActions
      BY <2>1
    <3>2. ToSet(<<h>> \o t) = {h} \cup ToSet(t)
      BY <3>1, <2>20, <2>21
    <3>3. d = <<h>> \o t
      BY <2>21
    <3> QED BY <3>2, <3>3, Zenon
  <2>23. ToSet(e) = {m} \cup ToSet(t)
    <3>1. ToSet(<<m>> \o t) = {m} \cup ToSet(t)
      BY <2>2, <2>20, <2>21
    <3> QED BY <2>21, <3>1, Zenon
  <2>3. ToSet(d) = {h} \cup ToSet(t) /\ ToSet(e) = {m} \cup ToSet(t)
    BY <2>22, <2>23
  <2>4. ASSUME NEW C \in SUBSET Q, Made(h, C) PROVE C \cup {x} \in SUBSET Q /\ Made(m, C \cup {x})
    BY <1>1, <2>1, <2>4, MadeOfMore DEF h, m
  <2>5. \A y \in ToSet(e) : \E C \in SUBSET Q : Made(y, C)
    <3>1. \E C \in SUBSET Q : Made(m, C)
      BY <1>0, <2>3, <2>4
    <3> QED BY <1>0, <2>3, <3>1
  <2>6. \E y \in ToSet(e) : \E C \in SUBSET Q : x \in C /\ Made(y, C)
    <3>1. PICK C \in SUBSET Q : Made(h, C)
      BY <1>0, <2>3
    <3>2. C \cup {x} \in SUBSET Q /\ Made(m, C \cup {x}) /\ x \in C \cup {x} /\ m \in ToSet(e)
      BY <2>3, <2>4, <3>1
    <3> QED BY <3>2
  <2>7. ASSUME NEW a \in P PROVE \E y \in ToSet(e) : \E C \in SUBSET Q : a \in C /\ Made(y, C)
    <3>1. PICK y \in ToSet(d) : \E C \in SUBSET Q : a \in C /\ Made(y, C)
      BY <1>00
    <3>2. PICK C \in SUBSET Q : a \in C /\ Made(y, C)
      BY <3>1
    <3>3. CASE y = h
      <4>1. C \cup {x} \in SUBSET Q /\ Made(m, C \cup {x}) /\ a \in C \cup {x} /\ m \in ToSet(e)
        BY <2>3, <2>4, <3>2, <3>3
      <4> QED BY <4>1
    <3>4. CASE y # h
      BY <2>3, <3>1, <3>4
    <3> QED BY <3>3, <3>4
  <2> QED BY <2>5, <2>6, <2>7 DEF Makes
<1>2. CASE ~(d # <<>> /\ Mergeable(x, Head(d)))
  <2>1. e = <<x>> \o d /\ x \in MergedActions
    <3>1. x \in MergedActions
      BY DEF IndexedActions, MergedActions
    <3> QED BY <1>2, <3>1 DEF MergeStep
  <2>2. ToSet(e) = {x} \cup ToSet(d)
    BY <2>1, NewHead
  <2>3. {x} \in SUBSET Q /\ Made(x, {x}) /\ x \in {x}
    BY MadeOfOne
  <2>4. \A m \in ToSet(e) : \E C \in SUBSET Q : Made(m, C)
    BY <1>0, <2>2, <2>3
  <2>5. \A a \in P : \E m \in ToSet(e) : \E C \in SUBSET Q : a \in C /\ Made(m, C)
    BY <1>00, <2>2
  <2>6. \E m \in ToSet(e) : \E C \in SUBSET Q : x \in C /\ Made(m, C)
    BY <2>2, <2>3
  <2> QED BY <2>4, <2>5, <2>6 DEF Makes
<1> QED BY <1>1, <1>2

\* What a group is merged to: every action in one of the merged ones, which are made of
\* nothing else and access a register once.
LEMMA GroupMerges ==
  ASSUME NEW g \in Seq(IndexedActions), NEW p, p = MergeRegisterActions(g)
  PROVE  p \in Seq(MergedActions) /\ Once(p) /\ Makes(ToSet(p), ToSet(g))
<1> DEFINE s == SortedActions(g)
           n == Len(s)
<1>1. /\ s \in Seq(IndexedActions) /\ ToSet(s) = ToSet(g) /\ n \in Nat /\ DOMAIN s = 1 .. n
      /\ \A i, j \in 1 .. n : i < j => ~IndexedActionLess(s[j], s[i])
  <2>1. /\ s \in Seq(IndexedActions) /\ ToSet(s) = ToSet(g)
        /\ \A i, j \in 1 .. n : i < j => ~IndexedActionLess(s[j], s[i])
    BY SortedInOrder
  <2> HIDE DEF s
  <2> QED BY <2>1
<1>2. PICK f : Mergings(g, f) /\ p = f[n]
  BY <1>1, MergeRuns
<1>3. /\ f[0] = <<>> /\ \A i \in 1 .. n : f[i] = MergeStep(f[i - 1], s[i])
  BY <1>2 DEF Mergings
<1> HIDE DEF s, n
<1> DEFINE S == {i \in 0 .. n : /\ f[i] \in Seq(MergedActions) /\ Makes(ToSet(f[i]), Firsts(s, i))
                                /\ IF i = 0 THEN f[i] = <<>> ELSE Stacked(f[i], s[i])}
<1>4. 0 \in S
  <2>1. ToSet(<<>>) = {} /\ <<>> \in Seq(MergedActions)
    BY NothingIn
  <2>2. Firsts(s, 0) = {}
    BY DEF Firsts
  <2>3. Makes({}, {})
    BY DEF Makes
  <2>4. f[0] = <<>> /\ 0 \in 0 .. n
    BY <1>1, <1>3
  <2>5. Makes(ToSet(f[0]), Firsts(s, 0))
    BY <2>1, <2>2, <2>3, <2>4, Zenon
  <2> QED BY <2>1, <2>4, <2>5
<1>5. ASSUME NEW i \in 1 .. n, i - 1 \in S PROVE i \in S
  <2> DEFINE d == f[i - 1]
             x == s[i]
  <2>1. x \in IndexedActions /\ d \in Seq(MergedActions) /\ Makes(ToSet(d), Firsts(s, i - 1)) /\ f[i] = MergeStep(d, x)
    BY <1>1, <1>3, <1>5
  <2>2. Makes(ToSet(f[i]), Firsts(s, i))
    <3>1. Firsts(s, i) = Firsts(s, i - 1) \cup {x}
      <4>1. \A k \in 1 .. i : k \in 1 .. i - 1 \/ k = i
        BY <1>1
      <4>2. \A k \in 1 .. i - 1 : k \in 1 .. i
        BY <1>1
      <4>3. i \in 1 .. i
        BY <1>1
      <4> QED BY <4>1, <4>2, <4>3, Zenon DEF Firsts
    <3> HIDE DEF d, x
    <3> QED BY <2>1, <3>1, MakesOn
  <2>3. Stacked(f[i], x)
    <3>1. CASE i = 1
      <4>1. d = <<>>
        BY <1>5, <3>1
      <4>2. f[i] = <<x>> \o <<>> /\ x \in MergedActions /\ <<>> \in Seq(MergedActions)
        BY <2>1, <4>1 DEF MergeStep, IndexedActions, MergedActions
      <4>3. f[i] \in Seq(MergedActions) /\ Len(f[i]) = 1 /\ f[i][1] = x /\ f[i] # <<>>
        BY <4>2
      <4>4. Once(f[i])
        BY <4>3 DEF Once
      <4> QED BY <4>3, <4>4 DEF Stacked
    <3>2. CASE i # 1
      <4>1. i - 1 \in 1 .. n /\ i - 1 < i /\ i - 1 # 0
        BY <1>1, <3>2
      <4>2. Stacked(d, s[i - 1]) /\ s[i - 1] \in IndexedActions /\ ~IndexedActionLess(x, s[i - 1])
        BY <1>1, <1>5, <4>1
      <4> HIDE DEF d, x
      <4> QED BY <2>1, <4>2, StackedOn
    <3> QED BY <3>1, <3>2
  <2>4. f[i] \in Seq(MergedActions) /\ i \in 0 .. n /\ i # 0
    BY <1>1, <2>3 DEF Stacked
  <2> QED BY <2>2, <2>3, <2>4
<1>6. n \in S
  <2>1. \A i \in 1 .. n : i - 1 \in S => i \in S
    BY <1>5
  <2>2. \A i \in 0 .. n : i \in S
    <3> HIDE DEF S
    <3> QED BY <1>1, <1>4, <2>1, InductionTo
  <2> QED BY <1>1, <2>2
<1>7. Firsts(s, n) = ToSet(g)
  BY <1>1, Zenon DEF Firsts, ToSet
<1>8. Once(p)
  <2>1. CASE n = 0
    <3>1. p = <<>> /\ Len(<<>>) = 0
      BY <1>2, <1>6, <2>1
    <3> QED BY <3>1 DEF Once
  <2>2. CASE n # 0
    BY <1>2, <1>6, <2>2 DEF Stacked
  <2> QED BY <2>1, <2>2
<1> QED BY <1>2, <1>6, <1>7, <1>8
-----------------------------------------------------------------------------
\* The arguments of a call and the actions made of them.
Elements == Actions \cup {SequencePoint}

\* What they become: MakeIndexedAction.
IndexedElements == IndexedActions \cup {SequencePoint}

\* The values apply is passed at run time, by the place of the argument.
InputValues(call) == [i \in DOMAIN call |-> argToUnsigned(call[i])]

\* The values the inputs of an action have.
Given(x, vals) == UNION {vals[k + 1] : k \in ToSet(x.inputs)}

\* x is what becomes of a.
Stands(call) ==
  {p \in IndexedElements \X Elements :
     IF p[2] = SequencePoint THEN p[1] = SequencePoint ELSE
       /\ p[1] # SequencePoint /\ p[1].kind = p[2].kind /\ p[1].addr = p[2].addr
       /\ p[1].mask = p[2].mask /\ p[1].lit = p[2].lit
       /\ ToSet(p[1].inputs) \subseteq 0 .. Len(call) - 1
       /\ Given(p[1], InputValues(call)) = p[2].in}

\* An indexed action is no sequence point.
LEMMA IndexedType ==
  ASSUME NEW a \in Actions, NEW inputs \in Seq(Nat)
  PROVE  Indexed(a, inputs) \in IndexedActions /\ a # SequencePoint /\ a.kind # "list"
         /\ Indexed(a, inputs) # SequencePoint
<1>1. a.kind \in {"literal", "runtime", "xor", "read"} /\ a.addr \in Regs /\ a.mask \in SUBSET Bits /\ a.lit \in SUBSET Bits
  BY DEF Actions
<1>2. Indexed(a, inputs) \in IndexedActions
  BY <1>1 DEF Indexed, IndexedActions
<1> QED BY <1>1, <1>2, ApplyAssumption

\* The actions an argument stands for.
Piece(a) == IF a # SequencePoint /\ a.kind = "list" THEN a.of ELSE <<a>>

\* An argument becomes as many actions as it stands for, one for one.
LEMMA PiecesAlike ==
  ASSUME NEW call \in Seq(Arguments), NEW i \in 1 .. Len(call)
  PROVE  /\ MakeIndexedAction(call[i], i - 1) \in Seq(IndexedElements)
         /\ Piece(call[i]) \in Seq(Elements)
         /\ Alike(MakeIndexedAction(call[i], i - 1), Piece(call[i]), Stands(call))
<1> DEFINE a == call[i]
           u == MakeIndexedAction(a, i - 1)
           v == Piece(a)
<1>00. Len(call) \in Nat /\ DOMAIN call = 1 .. Len(call) /\ a \in Arguments
  BY ListFacts, Zenon
<1>0. a \in Arguments /\ i - 1 \in Nat /\ i - 1 \in 0 .. Len(call) - 1 /\ (i - 1) + 1 = i
  <2> HIDE DEF a
  <2> QED BY <1>00
<1>1. InputValues(call)[i] = argToUnsigned(a)
  <2>1. i \in DOMAIN call
    BY <1>00, Zenon
  <2> QED BY <2>1, Zenon DEF InputValues
<1> HIDE DEF a
<1>2. CASE a = SequencePoint
  <2>1. u = <<a>> /\ v = <<a>> /\ a \in Elements /\ a \in IndexedElements
    BY <1>2 DEF MakeIndexedAction, Piece, Elements, IndexedElements
  <2>2. <<a, a>> \in Stands(call)
    BY <1>2, <2>1 DEF Stands
  <2>3. /\ u \in Seq(IndexedElements) /\ v \in Seq(Elements) /\ Len(u) = 1 /\ Len(v) = 1
        /\ u[1] = a /\ v[1] = a
    <3>1. \A X : \A z \in X : <<z>> \in Seq(X) /\ Len(<<z>>) = 1 /\ <<z>>[1] = z
      OBVIOUS
    <3> HIDE DEF u, v
    <3> QED BY <2>1, <3>1
  <2>4. Alike(u, v, Stands(call))
    <3> HIDE DEF u, v
    <3> QED BY <2>2, <2>3 DEF Alike
  <2> QED BY <2>3, <2>4, Zenon DEF a
<1>3. CASE a \in Actions
  <2> DEFINE is == IF a.kind = "runtime" THEN <<i - 1>> ELSE <<>>
             x  == Indexed(a, is)
  <2>1. is \in Seq(Nat) /\ ToSet(is) = IF a.kind = "runtime" THEN {i - 1} ELSE {}
    <3>1. <<i - 1>> \in Seq(Nat) /\ ToSet(<<i - 1>>) = {i - 1} /\ ToSet(<<>>) = {} /\ <<>> \in Seq(Nat)
      BY <1>0, OneElement, NothingIn
    <3> QED BY <3>1
  <2>2. x \in IndexedActions /\ a # SequencePoint /\ a.kind # "list" /\ x # SequencePoint
    BY <1>3, <2>1, IndexedType
  <2>3. u = <<x>> /\ v = <<a>>
    BY <2>2 DEF MakeIndexedAction, Piece
  <2>4. /\ x.kind = a.kind /\ x.addr = a.addr /\ x.mask = a.mask /\ x.lit = a.lit
        /\ ToSet(x.inputs) = IF a.kind = "runtime" THEN {i - 1} ELSE {}
    BY <2>1 DEF Indexed
  <2>5. Given(x, InputValues(call)) = a.in
    <3>1. CASE a.kind = "runtime"
      <4>1. argToUnsigned(a) = a.in
        BY <2>2, <3>1 DEF argToUnsigned
      <4>2. Given(x, InputValues(call)) = UNION {InputValues(call)[k + 1] : k \in {i - 1}}
        BY <2>4, <3>1 DEF Given
      <4> QED BY <1>0, <1>1, <4>1, <4>2
    <3>2. CASE a.kind # "runtime"
      <4>1. a.in = {}
        BY <1>3, <3>2 DEF Actions
      <4> QED BY <2>4, <3>2, <4>1 DEF Given
    <3> QED BY <3>1, <3>2
  <2>6. <<x, a>> \in Stands(call)
    BY <1>0, <1>3, <2>2, <2>4, <2>5 DEF Stands, Elements, IndexedElements
  <2>7. /\ u \in Seq(IndexedElements) /\ v \in Seq(Elements) /\ Len(u) = 1 /\ Len(v) = 1
        /\ u[1] = x /\ v[1] = a
    <3>1. x \in IndexedElements /\ a \in Elements
      BY <1>3, <2>2 DEF Elements, IndexedElements
    <3> HIDE DEF x, u, v
    <3> QED BY <2>3, <3>1
  <2>8. Alike(u, v, Stands(call))
    <3> HIDE DEF u, v, x
    <3> QED BY <2>6, <2>7 DEF Alike
  <2> QED BY <2>7, <2>8, Zenon DEF a
<1>4. CASE a # SequencePoint /\ a \in [kind : {"list"}, of : Seq(CompileTimeActions)]
  <2>1. a.kind = "list" /\ a.of \in Seq(CompileTimeActions) /\ v = a.of
        /\ u = [k \in DOMAIN a.of |-> Indexed(a.of[k], <<>>)]
    BY <1>4 DEF MakeIndexedAction, Piece
  <2>2. /\ Len(a.of) \in Nat /\ DOMAIN a.of = 1 .. Len(a.of)
        /\ \A k \in 1 .. Len(a.of) : a.of[k] \in CompileTimeActions
    BY <2>1
  <2>3. ASSUME NEW k \in 1 .. Len(a.of)
        PROVE  Indexed(a.of[k], <<>>) \in IndexedActions /\ a.of[k] \in Actions
               /\ <<Indexed(a.of[k], <<>>), a.of[k]>> \in Stands(call)
    <3> DEFINE c == a.of[k]
               x == Indexed(c, <<>>)
    <3>1. c \in Actions /\ c.in = {}
      BY <2>2 DEF CompileTimeActions, Actions
    <3>2. ToSet(<<>>) = {} /\ <<>> \in Seq(Nat)
      BY NothingIn
    <3>3. x \in IndexedActions /\ c # SequencePoint /\ x # SequencePoint
      BY <3>1, <3>2, IndexedType
    <3>4. /\ x.kind = c.kind /\ x.addr = c.addr /\ x.mask = c.mask /\ x.lit = c.lit
          /\ ToSet(x.inputs) = {}
      BY <3>2 DEF Indexed
    <3>5. Given(x, InputValues(call)) = c.in
      BY <3>1, <3>4 DEF Given
    <3> HIDE DEF c, x
    <3>6. <<x, c>> \in Stands(call)
      BY <3>1, <3>3, <3>4, <3>5 DEF Stands, Elements, IndexedElements
    <3> QED BY <3>1, <3>3, <3>6 DEF c, x
  <2>4. u \in Seq(IndexedElements) /\ Len(u) = Len(a.of)
    <3>1. u \in [1 .. Len(a.of) -> IndexedElements]
      BY <2>1, <2>2, <2>3 DEF IndexedElements
    <3> HIDE DEF u
    <3> QED BY <2>2, <3>1
  <2>5. v \in Seq(Elements)
    <3>1. \A k \in 1 .. Len(a.of) : a.of[k] \in Elements
      BY <2>3 DEF Elements
    <3> QED BY <2>1, <2>2, <3>1
  <2>6. \A k \in 1 .. Len(u) : <<u[k], v[k]>> \in Stands(call)
    BY <2>1, <2>2, <2>3, <2>4
  <2>7. Alike(u, v, Stands(call))
    <3> HIDE DEF u
    <3> QED BY <2>1, <2>4, <2>6 DEF Alike
  <2> QED BY <2>4, <2>5, <2>7, Zenon DEF a
<1> QED BY <1>0, <1>2, <1>3, <1>4 DEF Arguments

\* The list of actions that is split, and the arguments it comes from, one for one.
LEMMA ElementsAlike ==
  ASSUME NEW call \in Seq(Arguments)
  PROVE  /\ FlattenedActions(call) \in Seq(IndexedElements) /\ Opened(call) \in Seq(Elements)
         /\ Alike(FlattenedActions(call), Opened(call), Stands(call))
<1> DEFINE us == [i \in DOMAIN call |-> MakeIndexedAction(call[i], i - 1)]
           vs == [i \in DOMAIN call |-> Piece(call[i])]
<1>0. Len(call) \in Nat /\ DOMAIN call = 1 .. Len(call)
  BY ListFacts, Zenon
<1>1. /\ us \in [1 .. Len(call) -> Seq(IndexedElements)] /\ vs \in [1 .. Len(call) -> Seq(Elements)]
      /\ \A i \in 1 .. Len(call) : Alike(us[i], vs[i], Stands(call))
  BY <1>0, PiecesAlike
<1>2. FlattenedActions(call) = FlattenSeq(us) /\ Opened(call) = FlattenSeq(vs)
  BY DEF FlattenedActions, flatten, append, Opened, Piece
<1> HIDE DEF us, vs
<1>3. /\ us \in Seq(Seq(IndexedElements)) /\ vs \in Seq(Seq(Elements))
      /\ Len(us) = Len(call) /\ Len(vs) = Len(call)
  <2> DEFINE m == Len(call)
  <2>1. m \in Nat /\ us \in [1 .. m -> Seq(IndexedElements)] /\ vs \in [1 .. m -> Seq(Elements)]
    BY <1>0, <1>1
  <2> HIDE DEF m
  <2>2. us \in Seq(Seq(IndexedElements)) /\ Len(us) = m /\ vs \in Seq(Seq(Elements)) /\ Len(vs) = m
    BY <2>1
  <2> QED BY <2>2 DEF m
<1>4. Alike(FlattenSeq(us), FlattenSeq(vs), Stands(call))
  BY <1>1, <1>3, AlikeFlattened
<1>5. FlattenSeq(us) \in Seq(IndexedElements) /\ FlattenSeq(vs) \in Seq(Elements)
  BY <1>3, FlattenedElements
<1> QED BY <1>2, <1>4, <1>5
-----------------------------------------------------------------------------
\* The groups of the arguments of a call.
LEMMA GroupsOf ==
  ASSUME NEW call \in Seq(Arguments)
  PROVE  /\ Steps(call) \in Seq(Seq(IndexedActions))
         /\ \A g \in ToSet(Steps(call)) : g \in Seq(IndexedActions)
<1>1. FlattenedActions(call) \in Seq(IndexedElements)
  BY ElementsAlike
<1>2. IndexedElements \ {SequencePoint} = IndexedActions
  BY ApplyAssumption DEF IndexedElements
<1>3. Steps(call) \in Seq(Seq(IndexedActions))
  BY <1>1, <1>2, GroupsType DEF Steps
<1>4. ToSet(Steps(call)) \subseteq Seq(IndexedActions)
  <2> DEFINE s == Steps(call)
  <2> HIDE DEF s
  <2>1. Len(s) \in Nat /\ DOMAIN s = 1 .. Len(s) /\ \A i \in 1 .. Len(s) : s[i] \in Seq(IndexedActions)
    BY <1>3, ListFacts, Zenon DEF s
  <2>2. ToSet(s) \subseteq Seq(IndexedActions)
    BY <2>1, Zenon DEF ToSet
  <2> QED BY <2>2 DEF s
<1> QED BY <1>3, <1>4
-----------------------------------------------------------------------------
\* What a group of arguments compiles to.
Part(g, vals) ==
  LET p == MergeRegisterActions(g) IN [i \in DOMAIN p |-> WithInput(p[i], vals)]

\* The groups of a call, merged.
MergedGroups(call) == LET st == Steps(call) IN [i \in DOMAIN st |-> MergeRegisterActions(st[i])]

\* A call compiles to the merged groups one behind the other, with their inputs.
LEMMA Compiled ==
  ASSUME NEW call \in Seq(Arguments), NEW mm, mm = FlattenSeq(MergedGroups(call))
  PROVE  /\ MergedGroups(call) \in Seq(Seq(MergedActions)) /\ mm \in Seq(MergedActions)
         /\ Len(MergedGroups(call)) = Len(Steps(call)) /\ Gathers(mm, MergedGroups(call))
         /\ Compile(call) = [i \in DOMAIN mm |-> WithInput(mm[i], InputValues(call))]
         /\ Len(Compile(call)) = Len(mm) /\ Len(mm) \in Nat
         /\ \A i \in 1 .. Len(mm) : Compile(call)[i] = WithInput(mm[i], InputValues(call))
<1> DEFINE st == Steps(call)
           gs == MergedGroups(call)
           n  == Len(st)
<1>1. /\ n \in Nat /\ DOMAIN st = 1 .. n /\ \A i \in 1 .. n : st[i] \in Seq(IndexedActions)
  <2>1. Steps(call) \in Seq(Seq(IndexedActions))
    BY GroupsOf
  <2> QED BY <2>1, ListFacts, Zenon
<1>2. \A i \in 1 .. n : MergeRegisterActions(st[i]) \in Seq(MergedActions)
  <2> HIDE DEF st
  <2> QED BY <1>1, GroupMerges
<1>3. gs = [i \in 1 .. n |-> MergeRegisterActions(st[i])]
  BY <1>1, Zenon DEF MergedGroups
<1>4. gs \in Seq(Seq(MergedActions)) /\ Len(gs) = n
  <2> HIDE DEF st, gs, n
  <2> QED BY <1>1, <1>2, <1>3
<1>5. mm \in Seq(MergedActions) /\ Gathers(mm, gs)
  <2>1. mm = FlattenSeq(gs)
    OBVIOUS
  <2> HIDE DEF gs
  <2> QED BY <1>4, <2>1, FlattenedElements
<1>6. Compile(call) = [i \in DOMAIN mm |-> WithInput(mm[i], InputValues(call))]
  BY Zenon DEF Compile, flatten, append, MergedGroups, InputValues
<1>7. Len(mm) \in Nat /\ DOMAIN mm = 1 .. Len(mm)
  BY <1>5, ListFacts, Zenon
<1>8. /\ Len(Compile(call)) = Len(mm)
      /\ \A i \in 1 .. Len(mm) : Compile(call)[i] = WithInput(mm[i], InputValues(call))
  <2> DEFINE p == Compile(call)
             W(i) == WithInput(mm[i], InputValues(call))
  <2>1. p = [i \in 1 .. Len(mm) |-> W(i)] /\ Len(mm) \in Nat
    BY <1>6, <1>7, Zenon
  <2> HIDE DEF p, W
  <2>2. Len(p) = Len(mm) /\ \A i \in 1 .. Len(mm) : p[i] = W(i)
    BY <2>1
  <2> QED BY <2>2 DEF p, W
<1> QED BY <1>4, <1>5, <1>6, <1>7, <1>8

\* Each action comes from a group, and those of a group from the list of actions.
LEMMA CompiledFrom ==
  ASSUME NEW call \in Seq(Arguments), NEW i \in 1 .. Len(Compile(call))
  PROVE  \E g \in ToSet(Steps(call)) : \E m \in ToSet(MergeRegisterActions(g)) :
           Compile(call)[i] = WithInput(m, InputValues(call))
<1> DEFINE st == Steps(call)
           gs == MergedGroups(call)
           mm == FlattenSeq(gs)
<1>1. /\ Len(gs) = Len(st) /\ Gathers(mm, gs) /\ i \in 1 .. Len(mm)
      /\ Compile(call)[i] = WithInput(mm[i], InputValues(call)) /\ gs \in Seq(Seq(MergedActions))
  BY Compiled
<1>2. Len(st) \in Nat /\ DOMAIN st = 1 .. Len(st)
  <2>1. Steps(call) \in Seq(Seq(IndexedActions))
    BY GroupsOf
  <2> QED BY <2>1, ListFacts, Zenon
<1>3. \A k \in 1 .. Len(st) : gs[k] = MergeRegisterActions(st[k]) /\ st[k] \in ToSet(st)
  BY <1>2, Zenon DEF MergedGroups, ToSet
<1>4. \A k \in 1 .. Len(gs) : DOMAIN gs[k] = 1 .. Len(gs[k])
  <2> HIDE DEF gs
  <2>1. \A k \in 1 .. Len(gs) : gs[k] \in Seq(MergedActions)
    BY <1>1
  <2> QED BY <2>1
<1> HIDE DEF st, gs, mm
<1>5. PICK k \in 1 .. Len(gs) : \E l \in 1 .. Len(gs[k]) : mm[i] = gs[k][l]
  BY <1>1, Zenon DEF Gathers
<1>6. PICK l \in 1 .. Len(gs[k]) : mm[i] = gs[k][l]
  BY <1>5
<1>7. gs[k] = MergeRegisterActions(st[k]) /\ st[k] \in ToSet(st) /\ mm[i] \in ToSet(gs[k])
  BY <1>1, <1>3, <1>4, <1>6, Zenon DEF ToSet
<1> QED BY <1>1, <1>7, Zenon DEF st

\* What is in a group is one of the actions of the call, and no sequence point.
LEMMA InGroups ==
  ASSUME NEW call \in Seq(Arguments), NEW g \in ToSet(Steps(call)), NEW x \in ToSet(g)
  PROVE  /\ x \in IndexedActions
         /\ \E k \in 1 .. Len(FlattenedActions(call)) : FlattenedActions(call)[k] = x /\ x # SequencePoint
<1> DEFINE F == FlattenedActions(call)
           X == ToSet(F)
<1>1. F \in Seq(IndexedElements)
  BY ElementsAlike
<1>2. Len(F) \in Nat /\ DOMAIN F = 1 .. Len(F)
  BY <1>1, ListFacts, Zenon
<1>3. F \in Seq(X)
  <2> HIDE DEF F
  <2>1. \A k \in 1 .. Len(F) : F[k] \in X
    BY <1>2, Zenon DEF ToSet
  <2>2. F \in [1 .. Len(F) -> X]
    <3> HIDE DEF X
    <3> QED BY <1>1, <2>1
  <2> HIDE DEF X
  <2> QED BY <1>2, <2>2
<1>4. Steps(call) \in Seq(Seq(X \ {SequencePoint}))
  <2> HIDE DEF X
  <2> QED BY <1>3, GroupsType DEF Steps
<1> DEFINE st == Steps(call)
           Y  == X \ {SequencePoint}
<1>5. g \in Seq(Y)
  <2>1. Len(st) \in Nat /\ DOMAIN st = 1 .. Len(st) /\ \A k \in 1 .. Len(st) : st[k] \in Seq(Y)
    <3> HIDE DEF Y
    <3> QED BY <1>4, ListFacts, Zenon DEF Y
  <2> QED BY <2>1, Zenon DEF ToSet
<1>6. x \in Y
  <2>1. Len(g) \in Nat /\ DOMAIN g = 1 .. Len(g) /\ \A k \in 1 .. Len(g) : g[k] \in Y
    <3> HIDE DEF Y
    <3> QED BY <1>5, ListFacts, Zenon
  <2> QED BY <2>1, Zenon DEF ToSet
<1>7. x \in IndexedActions
  <2>1. g \in Seq(IndexedActions)
    BY GroupsOf
  <2>2. DOMAIN g = 1 .. Len(g) /\ \A k \in 1 .. Len(g) : g[k] \in IndexedActions
    BY <2>1, ListFacts, Zenon
  <2> QED BY <2>2, Zenon DEF ToSet
<1> QED BY <1>2, <1>6, <1>7, Zenon DEF ToSet
-----------------------------------------------------------------------------
\* The sequence points before an argument.
LEMMA Points ==
  ASSUME NEW i \in Nat, NEW j \in Nat, i <= j
  PROVE  PointsBefore(i) \in Nat /\ PointsBefore(j) \in Nat /\ PointsBefore(i) <= PointsBefore(j)
<1> DEFINE P(n) == {k \in 1 .. n - 1 : args[k] = SequencePoint}
<1>1. \A n \in Nat : IsFiniteSet(P(n))
  <2> SUFFICES ASSUME NEW n \in Nat PROVE IsFiniteSet(P(n))
    OBVIOUS
  <2>1. IsFiniteSet(1 .. n - 1)
    BY FS_Interval
  <2>2. P(n) \subseteq 1 .. n - 1
    OBVIOUS
  <2> HIDE DEF P
  <2> QED BY <2>1, <2>2, FS_Subset
<1>2. P(i) \subseteq P(j)
  OBVIOUS
<1> HIDE DEF P
<1>3. Cardinality(P(i)) \in Nat /\ Cardinality(P(j)) \in Nat /\ Cardinality(P(i)) <= Cardinality(P(j))
  BY <1>1, <1>2, FS_Subset, FS_CardinalityType
<1> QED BY <1>3 DEF PointsBefore, P

\* Every argument is in a group.
LEMMA InOneGroup ==
  ASSUME args \in Seq(Elements), NEW k \in 1 .. Len(args), args[k] # SequencePoint
  PROVE  PointsBefore(k) + 1 \in 1 .. NGroups /\ args[k] \in Group(PointsBefore(k) + 1)
<1>1. Len(args) \in Nat /\ DOMAIN args = 1 .. Len(args)
  OBVIOUS
<1>2. /\ PointsBefore(k) \in Nat /\ PointsBefore(Len(args) + 1) \in Nat
      /\ PointsBefore(k) <= PointsBefore(Len(args) + 1)
  BY <1>1, Points
<1>3. PointsBefore(k) + 1 \in 1 .. NGroups /\ (PointsBefore(k) + 1) - 1 = PointsBefore(k)
  BY <1>2 DEF NGroups
<1> QED BY <1>1, <1>3 DEF Group
-----------------------------------------------------------------------------
\* Finder gives the values at the indexes that MakeSeperators counts out.
Positions(sep, f) == f[0] = 0 /\ \A i \in 1 .. Len(sep) : f[i] = f[i - 1] + sep[i] + 1

\* There are such positions, and Finder gives the values at them.
LEMMA FinderRuns ==
  ASSUME NEW sep \in Seq(Int), NEW vals
  PROVE  \E f : Positions(sep, f) /\ Finder(sep, vals) = UNION {vals[f[i]] : i \in DOMAIN sep}
<1> DEFINE n == Len(sep)
           step == [p \in Int \X (1 .. n) |-> p[1] + sep[p[2]] + 1]
           Fcn(g) == g = [i \in 0 .. n |-> IF i = 0 THEN 0 ELSE g[i - 1] + sep[i] + 1]
           f == CHOOSE g : Fcn(g)
<1>1. n \in Nat /\ \A i \in 1 .. n : sep[i] \in Int
  OBVIOUS
<1>2. step \in [Int \X (1 .. n) -> Int]
  BY <1>1
<1>3. PICK g \in [0 .. n -> Int] : RecursTo(n, g, 0, step)
  <2>1. 0 \in Int /\ n \in Nat
    BY <1>1
  <2> HIDE DEF step, n
  <2> QED BY <1>2, <2>1, RecursionTo
<1>4. Fcn(g)
  <2>1. g[0] = 0
    BY <1>3 DEF RecursTo
  <2>2. ASSUME NEW i \in 0 .. n, i # 0 PROVE g[i] = g[i - 1] + sep[i] + 1
    <3>1. i \in 1 .. n /\ i - 1 \in 0 .. n
      BY <1>1, <2>2
    <3>2. g[i] = step[<<g[i - 1], i>>] /\ g[i - 1] \in Int
      <4> HIDE DEF step, n
      <4> QED BY <1>3, <3>1 DEF RecursTo
    <3> QED BY <3>1, <3>2
  <2>3. \A i \in 0 .. n : g[i] = IF i = 0 THEN 0 ELSE g[i - 1] + sep[i] + 1
    BY <2>1, <2>2
  <2>4. g = [i \in 0 .. n |-> g[i]]
    OBVIOUS
  <2> QED BY <2>3, <2>4, Zenon
<1>5. Fcn(f)
  <2> HIDE DEF Fcn
  <2> QED BY <1>4, Zenon
<1>6. Finder(sep, vals) = UNION {vals[f[i]] : i \in DOMAIN sep}
  BY DEF Finder
<1>7. Positions(sep, f)
  <2>1. \A i \in 0 .. n : f[i] = IF i = 0 THEN 0 ELSE f[i - 1] + sep[i] + 1
    BY <1>5
  <2>2. 0 \in 0 .. n /\ \A i \in 1 .. n : i \in 0 .. n /\ i # 0
    BY <1>1
  <2> HIDE DEF f
  <2>3. f[0] = 0 /\ \A i \in 1 .. n : f[i] = f[i - 1] + sep[i] + 1
    BY <2>1, <2>2
  <2> QED BY <2>3 DEF Positions
<1> HIDE DEF f
<1> QED BY <1>6, <1>7

\* MakeSeperators sorts the indexes and loses none.
LEMMA IndexesSorted ==
  ASSUME NEW inputs \in Seq(Nat), NEW s, s = sort({p \in Nat \X Nat : p[1] < p[2]}, inputs)
  PROVE  s \in Seq(Nat) /\ Len(s) = Len(inputs) /\ ToSet(s) = ToSet(inputs)
<1> DEFINE lt == {p \in Nat \X Nat : p[1] < p[2]}
           bf == {p \in Nat \X Nat : p[1] <= p[2]}
<1>0. Len(inputs) \in Nat /\ DOMAIN inputs = 1 .. Len(inputs) /\ \A i \in 1 .. Len(inputs) : inputs[i] \in Nat
  BY ListFacts, Zenon
<1>1. Orders(lt, bf, Nat)
  BY DEF Orders
<1>2. Sortable(lt, bf, Nat, inputs)
  BY <1>0 DEF Sortable, Fits
<1>3. SortedFirst(bf, Nat, inputs, Len(inputs), sort(lt, inputs))
  <2> HIDE DEF lt, bf
  <2> QED BY <1>1, <1>2, SortSorts
<1>4. Firsts(inputs, Len(inputs)) = ToSet(inputs)
  BY <1>0, Zenon DEF Firsts, ToSet
<1> QED BY <1>3, <1>4, Zenon DEF SortedFirst

\* So Finder picks just the values of the inputs, whatever their order.
LEMMA FinderFinds ==
  ASSUME NEW inputs \in Seq(Nat), NEW vals
  PROVE  Finder(MakeSeperators(inputs), vals) = UNION {vals[k + 1] : k \in ToSet(inputs)}
<1> DEFINE s == sort({p \in Nat \X Nat : p[1] < p[2]}, inputs)
           sep == MakeSeperators(inputs)
           n == Len(s)
<1>1. s \in Seq(Nat) /\ ToSet(s) = ToSet(inputs)
  BY IndexesSorted
<1>2. sep = [i \in DOMAIN s |-> IF i = 1 THEN s[1] ELSE s[i] - (s[i - 1] + 1)]
  BY Zenon DEF MakeSeperators
<1> HIDE DEF s, sep
<1>3. n \in Nat /\ DOMAIN s = 1 .. n /\ \A i \in 1 .. n : s[i] \in Nat
  BY <1>1
<1>4. \A i \in 1 .. n : i # 1 => i - 1 \in 1 .. n
  BY <1>3
<1>5. sep \in Seq(Int) /\ Len(sep) = n /\ DOMAIN sep = 1 .. n
  <2>1. sep \in [1 .. n -> Int]
    BY <1>2, <1>3, <1>4
  <2> QED BY <1>3, <2>1
<1>6. PICK f : Positions(sep, f) /\ Finder(sep, vals) = UNION {vals[f[i]] : i \in DOMAIN sep}
  BY <1>5, FinderRuns
<1> DEFINE S == {i \in 0 .. n : i # 0 => f[i] = s[i] + 1}
<1>7. \A i \in 1 .. n : i - 1 \in S => i \in S
  <2> SUFFICES ASSUME NEW i \in 1 .. n, i - 1 \in S PROVE i \in S
    OBVIOUS
  <2>1. i \in 0 .. n /\ f[i] = f[i - 1] + sep[i] + 1 /\ f[0] = 0
    BY <1>5, <1>6 DEF Positions
  <2>2. CASE i = 1
    BY <1>2, <1>3, <2>1, <2>2
  <2>3. CASE i # 1
    <3>1. i - 1 \in 1 .. n /\ i - 1 # 0
      BY <1>3, <2>3
    <3>2. f[i - 1] = s[i - 1] + 1 /\ sep[i] = s[i] - (s[i - 1] + 1) /\ s[i] \in Nat /\ s[i - 1] \in Nat
      BY <1>2, <1>3, <2>3, <3>1
    <3> QED BY <2>1, <3>2
  <2> QED BY <2>2, <2>3
<1>8. \A i \in 0 .. n : i \in S
  <2>1. 0 \in S
    BY <1>3
  <2> HIDE DEF S
  <2> QED BY <1>3, <1>7, <2>1, InductionTo
<1>9. \A i \in 1 .. n : f[i] = s[i] + 1
  BY <1>3, <1>8
<1>10. UNION {vals[f[i]] : i \in DOMAIN sep} = UNION {vals[s[i] + 1] : i \in 1 .. n}
  BY <1>5, <1>9
<1>11. UNION {vals[s[i] + 1] : i \in 1 .. n} = UNION {vals[k + 1] : k \in ToSet(s)}
  BY <1>3 DEF ToSet
<1> QED BY <1>1, <1>6, <1>10, <1>11 DEF sep
-----------------------------------------------------------------------------
\* The registers one action after the other: V[i] has them after the first i of p.
States == [Regs -> SUBSET Bits]

\* a writes bit b of r.
Does(a, r, b) == a.kind # "read" /\ a.addr = r /\ b \in a.mask

\* The bit after a: what a does to it, or what it was.
BitDone(a, r, b, old) == IF Does(a, r, b) THEN Meant(a, b, old) ELSE old

\* V goes through the registers as the actions of p change them.
Effects(V, v, p) ==
  /\ V \in [0 .. Len(p) -> States] /\ V[0] = v
  /\ \A i \in 1 .. Len(p), r \in Regs, b \in Bits :
       b \in V[i][r] <=> BitDone(p[i], r, b, b \in V[i - 1][r])

\* p brings the registers from v to w.
Brings(v, p, w) == \E V : Effects(V, v, p) /\ V[Len(p)] = w

\* No action brings the registers nowhere.
LEMMA BringsNothing ==
  ASSUME NEW v \in States
  PROVE  Brings(v, <<>>, v)
<1> DEFINE V == [i \in 0 .. 0 |-> v]
<1>1. V \in [0 .. 0 -> States] /\ V[0] = v
  OBVIOUS
<1>2. Len(<<>>) = 0
  OBVIOUS
<1> HIDE DEF V
<1>3. Effects(V, v, <<>>)
  BY <1>1, <1>2 DEF Effects
<1> QED BY <1>1, <1>2, <1>3, Zenon DEF Brings

\* A list of actions behind another.
LEMMA BringsBoth ==
  ASSUME NEW X, NEW p \in Seq(X), NEW q \in Seq(X), NEW v, NEW u, NEW w, Brings(v, p, u), Brings(u, q, w)
  PROVE  Brings(v, p \o q, w)
<1>1. PICK V : Effects(V, v, p) /\ V[Len(p)] = u
  BY DEF Brings
<1>2. PICK U : Effects(U, u, q) /\ U[Len(q)] = w
  BY DEF Brings
<1> DEFINE m == Len(p)
           n == Len(q)
           o == p \o q
           W == [i \in 0 .. m + n |-> IF i <= m THEN V[i] ELSE U[i - m]]
<1>3. /\ m \in Nat /\ n \in Nat /\ Len(o) = m + n
      /\ \A i \in 1 .. m : o[i] = p[i]
      /\ \A i \in 1 .. m + n : i > m => i - m \in 1 .. n /\ o[i] = q[i - m]
  OBVIOUS
<1> HIDE DEF o, m, n
<1>4. V \in [0 .. m -> States] /\ V[0] = v /\ U \in [0 .. n -> States] /\ U[0] = u /\ V[m] = u /\ U[n] = w
  BY <1>1, <1>2 DEF Effects, m, n
<1>5. /\ \A i \in 0 .. m : i \in 0 .. m + n /\ W[i] = V[i]
      /\ \A i \in 0 .. m + n : i >= m => i - m \in 0 .. n /\ W[i] = U[i - m]
  <2>1. ASSUME NEW i \in 0 .. m PROVE i \in 0 .. m + n /\ W[i] = V[i]
    BY <1>3
  <2>2. ASSUME NEW i \in 0 .. m + n, i >= m PROVE i - m \in 0 .. n /\ W[i] = U[i - m]
    <3>1. i - m \in 0 .. n
      BY <1>3, <2>2
    <3>2. CASE i = m
      <4>1. W[i] = V[m] /\ i - m = 0
        BY <1>3, <3>2
      <4> QED BY <1>4, <3>1, <4>1
    <3>3. CASE i # m
      BY <1>3, <2>2, <3>1, <3>3
    <3> QED BY <3>2, <3>3
  <2> QED BY <2>1, <2>2
<1>6. W \in [0 .. m + n -> States]
  <2>1. \A i \in 0 .. m + n : W[i] \in States
    <3> SUFFICES ASSUME NEW i \in 0 .. m + n PROVE W[i] \in States
      OBVIOUS
    <3>1. i \in 0 .. m \/ i >= m
      BY <1>3
    <3> HIDE DEF W
    <3> QED BY <1>4, <1>5, <3>1
  <2> QED BY <2>1
<1> HIDE DEF W
<1>7. W[0] = v /\ W[m + n] = w
  <2>1. 0 \in 0 .. m /\ m + n \in 0 .. m + n /\ m + n >= m /\ (m + n) - m = n
    BY <1>3
  <2> QED BY <1>4, <1>5, <2>1
<1>8. ASSUME NEW i \in 1 .. m + n, NEW r \in Regs, NEW b \in Bits
      PROVE  b \in W[i][r] <=> BitDone(o[i], r, b, b \in W[i - 1][r])
  <2>1. CASE i <= m
    <3>1. i \in 1 .. m /\ W[i] = V[i] /\ W[i - 1] = V[i - 1] /\ o[i] = p[i]
      BY <1>3, <1>5, <2>1
    <3>2. b \in V[i][r] <=> BitDone(p[i], r, b, b \in V[i - 1][r])
      BY <1>1, <3>1, Zenon DEF Effects, m
    <3> QED BY <3>1, <3>2, Zenon
  <2>2. CASE i > m
    <3> DEFINE j == i - m
    <3>1. j \in 1 .. n /\ W[i] = U[j] /\ W[i - 1] = U[j - 1] /\ o[i] = q[j]
      <4>1. i - 1 >= m /\ i - 1 \in 0 .. m + n /\ (i - 1) - m = j - 1 /\ i >= m /\ i \in 0 .. m + n
        BY <1>3, <2>2
      <4>2. W[i] = U[i - m] /\ W[i - 1] = U[(i - 1) - m]
        BY <1>5, <4>1, Zenon
      <4> QED BY <1>3, <2>2, <4>1, <4>2
    <3> HIDE DEF j
    <3>2. b \in U[j][r] <=> BitDone(q[j], r, b, b \in U[j - 1][r])
      BY <1>2, <3>1, Zenon DEF Effects, n
    <3> QED BY <3>1, <3>2, Zenon
  <2>3. i <= m \/ i > m
    BY <1>3
  <2> QED BY <2>1, <2>2, <2>3, Zenon
<1>9. Effects(W, v, o)
  BY <1>3, <1>6, <1>7, <1>8, Zenon DEF Effects
<1> QED BY <1>3, <1>7, <1>9, Zenon DEF Brings, o

\* The bits of r that arguments of the set A write, and the registers after all of them
\* took effect together.
WritersIn(A, r, b) == {a \in A : a.kind # "read" /\ a.addr = r /\ b \in a.mask}

Together(v, A) ==
  [r \in Regs |-> {b \in Bits :
     IF WritersIn(A, r, b) = {} THEN b \in v[r]
     ELSE \E a \in WritersIn(A, r, b) : Meant(a, b, b \in v[r])}]

\* Actions that write each bit once take effect together.
LEMMA TogetherBrings ==
  ASSUME NEW q, Len(q) \in Nat, NEW A, NEW v \in States,
         \A i, j \in 1 .. Len(q), r \in Regs, b \in Bits : Does(q[i], r, b) /\ Does(q[j], r, b) => i = j,
         \A i \in 1 .. Len(q), r \in Regs, b \in Bits : Does(q[i], r, b) => WritersIn(A, r, b) # {},
         \A r \in Regs, b \in Bits : \A a \in WritersIn(A, r, b) :
           \E i \in 1 .. Len(q) : Does(q[i], r, b),
         \A r \in Regs, b \in Bits : \A a \in WritersIn(A, r, b), i \in 1 .. Len(q) :
           Does(q[i], r, b) => (Meant(a, b, b \in v[r]) <=> Meant(q[i], b, b \in v[r]))
  PROVE  Brings(v, q, Together(v, A))
<1> DEFINE n == Len(q)
           Done(i, r, b) == \E j \in 1 .. i : Does(q[j], r, b)
           On(i, r, b) == IF Done(i, r, b) THEN \E j \in 1 .. i : Does(q[j], r, b) /\ Meant(q[j], b, b \in v[r])
                          ELSE b \in v[r]
           V == [i \in 0 .. n |-> [r \in Regs |-> {b \in Bits : On(i, r, b)}]]
<1>1. V \in [0 .. n -> States]
  <2> HIDE DEF On
  <2> QED BY DEF States
<1>2. \A i \in 0 .. n, r \in Regs, b \in Bits : b \in V[i][r] <=> On(i, r, b)
  <2> HIDE DEF On
  <2> QED OBVIOUS
<1>3. V[0] = v
  <2>1. \A r \in Regs, b \in Bits : On(0, r, b) <=> b \in v[r]
    OBVIOUS
  <2>2. 0 \in 0 .. n
    OBVIOUS
  <2>3. \A r \in Regs : V[0][r] \subseteq Bits /\ v[r] \subseteq Bits
    BY <1>1, <2>2 DEF States
  <2>4. \A r \in Regs : V[0][r] = v[r]
    <3> HIDE DEF V, On
    <3> SUFFICES ASSUME NEW r \in Regs PROVE V[0][r] = v[r]
      OBVIOUS
    <3>1. \A b \in Bits : b \in V[0][r] <=> b \in v[r]
      BY <1>2, <2>1, <2>2
    <3> QED BY <2>3, <3>1
  <2>5. V[0] = [r \in Regs |-> V[0][r]] /\ v = [r \in Regs |-> v[r]]
    <3>1. V[0] \in States
      BY <1>1, <2>2
    <3> HIDE DEF V
    <3> QED BY <3>1 DEF States
  <2> HIDE DEF V
  <2> QED BY <2>4, <2>5
<1> HIDE DEF V
<1>4. ASSUME NEW i \in 1 .. n, NEW r \in Regs, NEW b \in Bits
      PROVE  b \in V[i][r] <=> BitDone(q[i], r, b, b \in V[i - 1][r])
  <2>1. i \in 0 .. n /\ i - 1 \in 0 .. n
    OBVIOUS
  <2>2. \A j \in 1 .. i : j \in 1 .. n /\ (j \in 1 .. i - 1 \/ j = i)
    OBVIOUS
  <2>3. \A j \in 1 .. i - 1 : j \in 1 .. i /\ j \in 1 .. n /\ j # i
    OBVIOUS
  <2>4. i \in 1 .. i
    OBVIOUS
  <2>5. (b \in V[i][r] <=> On(i, r, b)) /\ (b \in V[i - 1][r] <=> On(i - 1, r, b))
    BY <1>2, <2>1
  <2>6. CASE Does(q[i], r, b)
    <3>1. ~Done(i - 1, r, b)
      BY <2>3, <2>6
    <3>2. On(i - 1, r, b) <=> b \in v[r]
      BY <3>1
    <3>3. \A j \in 1 .. i : Does(q[j], r, b) => j = i
      BY <2>2, <2>6
    <3>4. On(i, r, b) <=> Meant(q[i], b, b \in v[r])
      BY <2>4, <2>6, <3>3, Zenon
    <3>5. (b \in V[i - 1][r]) = (b \in v[r])
      BY <2>5, <3>2
    <3>6. BitDone(q[i], r, b, b \in V[i - 1][r]) <=> Meant(q[i], b, b \in v[r])
      BY <2>6, <3>5, Zenon DEF BitDone
    <3> HIDE DEF On
    <3> QED BY <2>5, <3>4, <3>6, Zenon
  <2>7. CASE ~Does(q[i], r, b)
    <3>1. On(i, r, b) <=> On(i - 1, r, b)
      BY <2>2, <2>3, <2>7, Zenon
    <3>2. BitDone(q[i], r, b, b \in V[i - 1][r]) <=> b \in V[i - 1][r]
      BY <2>7, Zenon DEF BitDone
    <3> HIDE DEF On
    <3> QED BY <2>5, <3>1, <3>2, Zenon
  <2> QED BY <2>6, <2>7, Zenon
<1>5. Effects(V, v, q)
  BY <1>1, <1>3, <1>4, Zenon DEF Effects
<1>6. V[n] = Together(v, A)
  <2>0. n \in 0 .. n
    OBVIOUS
  <2>1. ASSUME NEW r \in Regs, NEW b \in Bits
        PROVE  On(n, r, b) <=> IF WritersIn(A, r, b) = {} THEN b \in v[r]
                               ELSE \E a \in WritersIn(A, r, b) : Meant(a, b, b \in v[r])
    <3>1. CASE WritersIn(A, r, b) = {}
      <4>1. ~Done(n, r, b)
        BY <3>1
      <4> QED BY <3>1, <4>1
    <3>2. CASE WritersIn(A, r, b) # {}
      <4>1. PICK i \in 1 .. n : Does(q[i], r, b)
        BY <3>2
      <4>2. \A j \in 1 .. n : Does(q[j], r, b) => j = i
        BY <4>1
      <4>3. On(n, r, b) <=> Meant(q[i], b, b \in v[r])
        BY <4>1, <4>2, Zenon
      <4>4. \A a \in WritersIn(A, r, b) : Meant(a, b, b \in v[r]) <=> Meant(q[i], b, b \in v[r])
        BY <4>1
      <4> HIDE DEF On
      <4> QED BY <3>2, <4>3, <4>4
    <3> QED BY <3>1, <3>2
  <2> HIDE DEF On
  <2>2. \A r \in Regs, b \in Bits : b \in V[n][r] <=> b \in Together(v, A)[r]
    BY <1>2, <2>0, <2>1 DEF Together
  <2>3. V[n] \in States /\ Together(v, A) \in States
    BY <1>1, <2>0 DEF Together, States
  <2> DEFINE x == V[n]
             y == Together(v, A)
  <2> HIDE DEF x, y
  <2>4. \A r \in Regs, b \in Bits : b \in x[r] <=> b \in y[r]
    BY <2>2 DEF x, y
  <2>5. x \in States /\ y \in States
    BY <2>3 DEF x, y
  <2>6. \A r \in Regs : x[r] = y[r]
    BY <2>4, <2>5 DEF States
  <2>7. x = y
    BY <2>5, <2>6 DEF States
  <2> QED BY <2>7 DEF x, y
<1> QED BY <1>5, <1>6, Zenon DEF Brings

\* No two writes of a group address the same bit, and no toggle bit is cleared beside a
\* runtime write of its register.
Good(g) ==
  /\ \A i, j \in DOMAIN g :
       i # j /\ g[i].addr = g[j].addr /\ g[i].kind # "read" /\ g[j].kind # "read"
         => g[i].mask \cap g[j].mask = {}
  /\ ~ \E a, c \in ToSet(g) : a.kind = "xor" /\ c.kind = "runtime" /\ a.addr = c.addr

\* The actions of a good group that write a bit are one and the same.
LEMMA OneWriter ==
  ASSUME NEW g \in Seq(IndexedActions), Good(g), NEW x \in ToSet(g), NEW y \in ToSet(g), NEW r, NEW b,
         Does(x, r, b), Does(y, r, b)
  PROVE  x = y
<1>1. PICK i \in DOMAIN g : x = g[i]
  BY DEF ToSet
<1>2. PICK j \in DOMAIN g : y = g[j]
  BY DEF ToSet
<1>3. i # j => g[i].mask \cap g[j].mask = {}
  BY <1>1, <1>2, Zenon DEF Good, Does
<1>4. b \in g[i].mask /\ b \in g[j].mask
  BY <1>1, <1>2, Zenon DEF Does
<1>5. i = j
  BY <1>3, <1>4
<1> QED BY <1>1, <1>2, <1>5

\* A merged action that writes a bit is made of actions of which one writes it.
LEMMA MadeWriter ==
  ASSUME NEW g \in Seq(IndexedActions), NEW m, NEW C \in SUBSET ToSet(g), Made(m, C), NEW r, NEW b, Does(m, r, b)
  PROVE  \E x \in C : Does(x, r, b)
BY DEF Made, Does

\* No two merged actions of a good group write the same bit.
LEMMA OneMerged ==
  ASSUME NEW g \in Seq(IndexedActions), Good(g), NEW p, p = MergeRegisterActions(g),
         NEW i \in 1 .. Len(p), NEW j \in 1 .. Len(p), NEW r, NEW b, Does(p[i], r, b), Does(p[j], r, b)
  PROVE  i = j
<1>1. p \in Seq(MergedActions) /\ Once(p) /\ Makes(ToSet(p), ToSet(g))
  BY GroupMerges
<1>2. DOMAIN p = 1 .. Len(p)
  BY <1>1
<1>3. p[i] \in ToSet(p) /\ p[j] \in ToSet(p)
  BY <1>2, Zenon DEF ToSet
<1>4. PICK C \in SUBSET ToSet(g) : Made(p[i], C)
  BY <1>1, <1>3 DEF Makes
<1>5. PICK K \in SUBSET ToSet(g) : Made(p[j], K)
  BY <1>1, <1>3 DEF Makes
<1>6. PICK x \in C : Does(x, r, b)
  BY <1>4, MadeWriter
<1>7. PICK y \in K : Does(y, r, b)
  BY <1>5, MadeWriter
<1>8. x = y
  BY <1>6, <1>7, OneWriter
<1> SUFFICES ASSUME i # j PROVE FALSE
  OBVIOUS
<1>9. Compatible(p[i], p[j]) /\ p[i].kind # "read" /\ p[j].kind # "read"
  BY <1>1 DEF Once, Does
<1>10. {p[i].kind, p[j].kind} = {"literal", "xor"}
  BY <1>9 DEF Compatible
<1>11. \/ p[i].kind = "literal" /\ p[j].kind = "xor"
       \/ p[i].kind = "xor" /\ p[j].kind = "literal"
  BY <1>10
<1>12. x.kind = p[i].kind /\ y.kind = p[j].kind
  BY <1>4, <1>5, <1>6, <1>7, <1>11 DEF Made
<1> QED BY <1>8, <1>11, <1>12

\* What the run-time half is handed.
LEMMA Handed ==
  ASSUME NEW m \in MergedActions, NEW vals
  PROVE  /\ WithInput(m, vals).kind = m.kind /\ WithInput(m, vals).addr = m.addr
         /\ WithInput(m, vals).mask = m.mask /\ WithInput(m, vals).lit = m.lit
         /\ WithInput(m, vals).in = Given(m, vals)
<1>1. m.inputs \in Seq(Nat)
  BY DEF MergedActions
<1>2. Finder(MakeSeperators(m.inputs), vals) = Given(m, vals)
  BY <1>1, FinderFinds DEF Given
<1> QED BY <1>2 DEF WithInput

\* The inputs of a merged action are those of the actions it is made of.
LEMMA GivenTogether ==
  ASSUME NEW m, NEW C, Made(m, C), NEW vals
  PROVE  Given(m, vals) = UNION {Given(z, vals) : z \in C}
<1> DEFINE In(z) == ToSet(z.inputs)
           G(k) == vals[k + 1]
<1>1. ToSet(m.inputs) = UNION {In(z) : z \in C}
  BY DEF Made
<1>2. Given(m, vals) = UNION {G(k) : k \in UNION {In(z) : z \in C}}
  BY <1>1 DEF Given
<1>3. UNION {G(k) : k \in UNION {In(z) : z \in C}} = UNION {UNION {G(k) : k \in In(z)} : z \in C}
  <2> HIDE DEF In, G
  <2> QED OBVIOUS
<1> QED BY <1>2, <1>3 DEF Given

\* What is in a group stands for an action of the call.
LEMMA StandsFor ==
  ASSUME NEW call \in Seq(Arguments), NEW g \in ToSet(Steps(call)), NEW x \in ToSet(g)
  PROVE  \E a \in Actions : <<x, a>> \in Stands(call)
<1>1. PICK k \in 1 .. Len(FlattenedActions(call)) : FlattenedActions(call)[k] = x /\ x # SequencePoint
  BY InGroups
<1>2. /\ Opened(call) \in Seq(Elements) /\ Alike(FlattenedActions(call), Opened(call), Stands(call))
  BY ElementsAlike
<1>3. k \in 1 .. Len(Opened(call)) /\ <<x, Opened(call)[k]>> \in Stands(call)
  BY <1>1, <1>2, Zenon DEF Alike
<1> DEFINE a == Opened(call)[k]
<1>4. a \in Elements
  BY <1>2, <1>3, ListFacts, Zenon
<1>5. a # SequencePoint
  BY <1>1, <1>3 DEF Stands
<1> QED BY <1>3, <1>4, <1>5 DEF Elements

\* Whatever is passed, and however it is merged, each action a call compiles to has its
\* values in its mask: those of the actions it is made of are in theirs.
LEMMA CompiledInMask ==
  ASSUME NEW call \in Seq(Arguments)
  PROVE  WellFormed(Compile(call))
<1> DEFINE p == Compile(call)
           vals == InputValues(call)
<1>1. ASSUME NEW i \in 1 .. Len(p) PROVE p[i] \in ActionType /\ ValueInMask(p[i])
  <2>1. PICK g \in ToSet(Steps(call)) : \E m \in ToSet(MergeRegisterActions(g)) : p[i] = WithInput(m, vals)
    BY CompiledFrom
  <2>2. PICK m \in ToSet(MergeRegisterActions(g)) : p[i] = WithInput(m, vals)
    BY <2>1
  <2>3. g \in Seq(IndexedActions)
    BY GroupsOf
  <2> DEFINE q == MergeRegisterActions(g)
  <2>4. q \in Seq(MergedActions) /\ Makes(ToSet(q), ToSet(g))
    BY <2>3, GroupMerges
  <2>5. m \in MergedActions
    <3>1. DOMAIN q = 1 .. Len(q) /\ \A k \in 1 .. Len(q) : q[k] \in MergedActions
      BY <2>4, ListFacts, Zenon
    <3> QED BY <3>1, Zenon DEF ToSet
  <2>6. PICK C \in SUBSET ToSet(g) : Made(m, C)
    BY <2>4 DEF Makes
  <2>7. ASSUME NEW z \in C PROVE z.lit \cup Given(z, vals) \subseteq z.mask /\ z.mask \subseteq m.mask
    <3>1. PICK a \in Actions : <<z, a>> \in Stands(call)
      BY StandsFor
    <3>2. a # SequencePoint /\ a.lit \cup a.in \subseteq a.mask
      BY ApplyAssumption DEF Actions
    <3>3. z.mask = a.mask /\ z.lit = a.lit /\ Given(z, vals) = a.in
      BY <3>1, <3>2 DEF Stands
    <3>4. m.mask = UNION {c.mask : c \in C}
      BY <2>6 DEF Made
    <3> QED BY <3>2, <3>3, <3>4
  <2>8. m.lit = UNION {z.lit : z \in C} /\ Given(m, vals) = UNION {Given(z, vals) : z \in C}
    <3>1. m.lit = UNION {z.lit : z \in C}
      BY <2>6 DEF Made
    <3> HIDE DEF vals
    <3>2. Given(m, vals) = UNION {Given(z, vals) : z \in C}
      BY <2>6, GivenTogether
    <3> QED BY <3>1, <3>2
  <2>9. m.lit \cup Given(m, vals) \subseteq m.mask
    <3> HIDE DEF vals
    <3> QED BY <2>7, <2>8
  <2>10. m.mask \in SUBSET Bits /\ m.lit \in SUBSET Bits /\ m.addr \in Regs
         /\ m.kind \in {"literal", "runtime", "both", "xor", "read"}
    BY <2>5 DEF MergedActions
  <2>11. /\ p[i].kind = m.kind /\ p[i].addr = m.addr /\ p[i].mask = m.mask /\ p[i].lit = m.lit
         /\ p[i].in = Given(m, vals)
    BY <2>2, <2>5, Handed
  <2>12. p[i] = [kind |-> m.kind, addr |-> m.addr, mask |-> m.mask, lit |-> m.lit, in |-> p[i].in]
    BY <2>2 DEF WithInput
  <2>13. p[i].in \in SUBSET Bits
    BY <2>9, <2>10, <2>11
  <2>14. p[i] \in ActionType
    <3> DEFINE w == p[i]
    <3>1. w = [kind |-> m.kind, addr |-> m.addr, mask |-> m.mask, lit |-> m.lit, in |-> w.in] /\ w.in \in SUBSET Bits
      BY <2>12, <2>13
    <3> HIDE DEF w
    <3>2. w \in ActionType
      BY <2>10, <3>1 DEF ActionType
    <3> QED BY <3>2 DEF w
  <2>15. ValueInMask(p[i])
    BY <2>9, <2>11 DEF ValueInMask
  <2> QED BY <2>14, <2>15
<1>2. Len(p) \in Nat /\ p = [i \in 1 .. Len(p) |-> p[i]]
  <2> DEFINE mm == FlattenSeq(MergedGroups(call))
  <2>1. p = [i \in DOMAIN mm |-> WithInput(mm[i], vals)] /\ mm \in Seq(MergedActions)
        /\ Len(p) = Len(mm) /\ Len(mm) \in Nat
    BY Compiled
  <2>2. DOMAIN mm = 1 .. Len(mm)
    BY <2>1, ListFacts, Zenon
  <2>3. DOMAIN p = 1 .. Len(p)
    BY <2>1, <2>2, Zenon
  <2>4. p = [i \in DOMAIN p |-> p[i]]
    <3> DEFINE W(i) == WithInput(mm[i], vals)
    <3>1. p = [i \in DOMAIN mm |-> W(i)]
      BY <2>1
    <3> HIDE DEF p, mm, W
    <3> QED BY <3>1
  <2> QED BY <2>1, <2>3, <2>4, Zenon
<1> HIDE DEF p
<1>3. p \in Seq(ActionType) /\ DOMAIN p = 1 .. Len(p)
  BY <1>1, <1>2
<1> QED BY <1>1, <1>3 DEF WellFormed, p

\* So the run-time half is only ever given well-formed actions.
LEMMA ProgramsWellFormed == \A p \in Programs : WellFormed(p)
BY CompiledInMask, ApplyAssumption

\* And what holds of it holds of apply.
LEMMA Invariance == Spec => []Inv
<1>1. ExecSpec => []Inv
  BY ProgramsWellFormed, ExecInvariance
<1> QED BY <1>1, ApplyRuns, PTL

\* Every list of arguments compiles to actions whose values stay inside their masks,
\* however they are merged, and a call executes no others.
THEOREM TypeCorrect == Spec => []TypeOK
<1>1. Inv => TypeOK
  BY DEF Inv
<1> QED BY <1>1, Invariance, PTL

\* And no call of apply disturbs a bit that its merged actions do not name.
THEOREM FramePreserved == Spec => Frame
<1>1. ExecSpec => Frame
  BY ProgramsWellFormed, ExecFrame
<1> QED BY <1>1, ApplyRuns, PTL

\* An action of a good group and the merged one it is in do the same to its bits.
LEMMA SameMeaning ==
  ASSUME NEW call, NEW g \in Seq(IndexedActions), Good(g),
         NEW m \in MergedActions, NEW C \in SUBSET ToSet(g), Made(m, C),
         \A z \in C : \E c \in Actions : <<z, c>> \in Stands(call),
         NEW x \in C, NEW a \in Actions, <<x, a>> \in Stands(call), NEW r, NEW b, Does(x, r, b), NEW old,
         NEW w, w = WithInput(m, InputValues(call))
  PROVE  Does(w, r, b) /\ (Meant(a, b, old) <=> Meant(w, b, old))
<1> DEFINE vals == InputValues(call)
<1>1. /\ w.kind = m.kind /\ w.addr = m.addr /\ w.mask = m.mask /\ w.lit = m.lit /\ w.in = Given(m, vals)
  BY Handed
<1>2. a # SequencePoint
  BY ApplyAssumption
<1>3. x.kind = a.kind /\ x.addr = a.addr /\ x.mask = a.mask /\ x.lit = a.lit /\ Given(x, vals) = a.in
  BY <1>2 DEF Stands
<1>4. Does(w, r, b)
  BY <1>1 DEF Made, Does
<1>5. ASSUME NEW z \in C, b \in z.lit \cup Given(z, vals) PROVE z = x
  <2>1. PICK c \in Actions : <<z, c>> \in Stands(call)
    OBVIOUS
  <2>2. c # SequencePoint /\ c.lit \cup c.in \subseteq c.mask
    BY ApplyAssumption DEF Actions
  <2>3. z.mask = c.mask /\ z.lit = c.lit /\ Given(z, vals) = c.in
    BY <2>1, <2>2 DEF Stands
  <2>4. b \in z.mask
    BY <1>5, <2>2, <2>3
  <2>5. z.addr = m.addr /\ (z.kind = "read" <=> m.kind = "read") /\ x.addr = m.addr /\ (x.kind = "read" <=> m.kind = "read")
    BY DEF Made
  <2>6. Does(z, r, b)
    BY <2>4, <2>5 DEF Does
  <2> QED BY <2>6, OneWriter
<1>6. b \in m.lit <=> b \in x.lit
  <2>1. m.lit = UNION {z.lit : z \in C}
    BY DEF Made
  <2> QED BY <1>5, <2>1
<1>7. b \in Given(m, vals) <=> b \in Given(x, vals)
  <2>1. Given(m, vals) = UNION {Given(z, vals) : z \in C}
    BY GivenTogether
  <2>2. \A z \in C : b \in Given(z, vals) => z = x
    BY <1>5
  <2> HIDE DEF vals
  <2> QED BY <2>1, <2>2
<1>8. b \in a.lit \cup a.in <=> b \in w.lit \cup w.in
  BY <1>1, <1>3, <1>6, <1>7
<1>9. a.kind = "xor" <=> w.kind = "xor"
  <2>1. m.kind = "xor" => x.kind = "xor"
    BY DEF Made
  <2>2. x.kind = "xor" => m.kind = "xor"
    <3> SUFFICES ASSUME x.kind = "xor", m.kind # "xor" PROVE FALSE
      OBVIOUS
    <3>1. m.kind \in {"literal", "runtime", "both", "xor", "read"}
      BY DEF MergedActions
    <3>2. m.kind = "both"
      BY <3>1 DEF Made
    <3>3. PICK z \in C : z.kind = "runtime"
      BY <3>2 DEF Made
    <3>4. z.addr = x.addr
      BY DEF Made
    <3> QED BY <3>3, <3>4 DEF Good
  <2> QED BY <1>1, <1>3, <2>1, <2>2
<1>10. w.addr = a.addr
  BY <1>1, <1>3 DEF Made
<1>11. (b \in a.lit \cup a.in) = (b \in w.lit \cup w.in)
  BY <1>8
<1> QED BY <1>4, <1>9, <1>10, <1>11, Zenon DEF Meant

\* A good group brings the registers to where all its arguments together do.
LEMMA GroupBrings ==
  ASSUME NEW call, NEW g \in Seq(IndexedActions), Good(g), NEW A \in SUBSET Actions,
         \A x \in ToSet(g) : \E a \in A : <<x, a>> \in Stands(call),
         \A a \in A : \E x \in ToSet(g) : <<x, a>> \in Stands(call),
         NEW v \in States
  PROVE  Brings(v, Part(g, InputValues(call)), Together(v, A))
<1> DEFINE vals == InputValues(call)
           p == MergeRegisterActions(g)
           q == Part(g, vals)
<1>1. p \in Seq(MergedActions) /\ Makes(ToSet(p), ToSet(g))
  BY GroupMerges
<1>2. Len(p) \in Nat /\ DOMAIN p = 1 .. Len(p) /\ \A i \in 1 .. Len(p) : p[i] \in MergedActions
  BY <1>1, ListFacts, Zenon
<1>3. Len(q) = Len(p) /\ \A i \in 1 .. Len(p) : q[i] = WithInput(p[i], vals)
  <2>1. q = [i \in 1 .. Len(p) |-> WithInput(p[i], vals)]
    BY <1>2, Zenon DEF Part
  <2> HIDE DEF q, p, vals
  <2>2. Len(p) \in Nat
    BY <1>2
  <2> QED BY <2>1, <2>2
<1>4. \A i \in 1 .. Len(p), r \in Regs, b \in Bits : Does(q[i], r, b) <=> Does(p[i], r, b)
  <2> SUFFICES ASSUME NEW i \in 1 .. Len(p) PROVE \A r \in Regs, b \in Bits : Does(q[i], r, b) <=> Does(p[i], r, b)
    OBVIOUS
  <2>1. q[i].kind = p[i].kind /\ q[i].addr = p[i].addr /\ q[i].mask = p[i].mask
    BY <1>2, <1>3, Handed
  <2> QED BY <2>1 DEF Does
<1>5. \A x \in ToSet(g), a \in A : <<x, a>> \in Stands(call) =>
        /\ a # SequencePoint /\ a \in Actions
        /\ \A r \in Regs, b \in Bits : Does(x, r, b) <=> Does(a, r, b)
  <2> SUFFICES ASSUME NEW x \in ToSet(g), NEW a \in A, <<x, a>> \in Stands(call)
               PROVE  /\ a # SequencePoint /\ a \in Actions
                      /\ \A r \in Regs, b \in Bits : Does(x, r, b) <=> Does(a, r, b)
    OBVIOUS
  <2>1. a # SequencePoint /\ a \in Actions
    BY ApplyAssumption
  <2>2. x.kind = a.kind /\ x.addr = a.addr /\ x.mask = a.mask
    BY <2>1 DEF Stands
  <2> QED BY <2>1, <2>2 DEF Does
<1>6. \A x \in ToSet(g) : \E c \in Actions : <<x, c>> \in Stands(call)
  OBVIOUS
<1> HIDE DEF p, q, vals
<1>7. \A i, j \in 1 .. Len(q), r \in Regs, b \in Bits : Does(q[i], r, b) /\ Does(q[j], r, b) => i = j
  BY <1>3, <1>4, OneMerged DEF p
<1>8. ASSUME NEW i \in 1 .. Len(q), NEW r \in Regs, NEW b \in Bits, Does(q[i], r, b)
      PROVE  WritersIn(A, r, b) # {}
  <2>1. Does(p[i], r, b) /\ i \in 1 .. Len(p) /\ p[i] \in ToSet(p)
    <3>1. i \in 1 .. Len(p)
      BY <1>3
    <3> QED BY <1>2, <1>4, <1>8, <3>1, Zenon DEF ToSet
  <2>2. PICK C \in SUBSET ToSet(g) : Made(p[i], C)
    BY <1>1, <2>1 DEF Makes
  <2>3. PICK x \in C : Does(x, r, b)
    BY <2>1, <2>2, MadeWriter
  <2>4. PICK a \in A : <<x, a>> \in Stands(call)
    BY <2>3
  <2>5. Does(a, r, b)
    BY <1>5, <2>3, <2>4
  <2> QED BY <2>5 DEF WritersIn, Does
<1>9. ASSUME NEW r \in Regs, NEW b \in Bits, NEW a \in WritersIn(A, r, b)
      PROVE  /\ \E i \in 1 .. Len(q) : Does(q[i], r, b)
             /\ \A i \in 1 .. Len(q) : Does(q[i], r, b) =>
                  (Meant(a, b, b \in v[r]) <=> Meant(q[i], b, b \in v[r]))
  <2>1. a \in A /\ Does(a, r, b)
    BY DEF WritersIn, Does
  <2>2. PICK x \in ToSet(g) : <<x, a>> \in Stands(call)
    BY <2>1
  <2>3. Does(x, r, b) /\ a \in Actions
    BY <1>5, <2>1, <2>2
  <2>4. PICK m \in ToSet(p) : \E C \in SUBSET ToSet(g) : x \in C /\ Made(m, C)
    BY <1>1 DEF Makes
  <2>5. PICK C \in SUBSET ToSet(g) : x \in C /\ Made(m, C)
    BY <2>4
  <2>6. PICK k \in 1 .. Len(p) : m = p[k]
    BY <1>2, <2>4 DEF ToSet
  <2>7. m \in MergedActions /\ q[k] = WithInput(m, InputValues(call)) /\ k \in 1 .. Len(q)
    BY <1>2, <1>3, <2>6 DEF vals
  <2>8. \A z \in C : \E c \in Actions : <<z, c>> \in Stands(call)
    BY <1>6
  <2>9. Does(q[k], r, b) /\ (Meant(a, b, b \in v[r]) <=> Meant(q[k], b, b \in v[r]))
    BY <2>2, <2>3, <2>5, <2>7, <2>8, SameMeaning
  <2>10. \A i \in 1 .. Len(q) : Does(q[i], r, b) => i = k
    BY <1>7, <2>7, <2>9
  <2> QED BY <2>7, <2>9, <2>10
<1>10. Len(q) \in Nat
  BY <1>2, <1>3
<1>11. \A i \in 1 .. Len(q), r \in Regs, b \in Bits : Does(q[i], r, b) => WritersIn(A, r, b) # {}
  BY <1>8
<1>12. /\ \A r \in Regs, b \in Bits : \A a \in WritersIn(A, r, b) : \E i \in 1 .. Len(q) : Does(q[i], r, b)
       /\ \A r \in Regs, b \in Bits : \A a \in WritersIn(A, r, b), i \in 1 .. Len(q) :
            Does(q[i], r, b) => (Meant(a, b, b \in v[r]) <=> Meant(q[i], b, b \in v[r]))
  BY <1>9
<1>13. Brings(v, q, Together(v, A))
  BY <1>7, <1>10, <1>11, <1>12, TogetherBrings
<1> QED BY <1>13 DEF q, vals
-----------------------------------------------------------------------------
\* What groups compile to.
MergedOf(out) == FlattenSeq([i \in DOMAIN out |-> MergeRegisterActions(out[i])])

\* The actions with the values handed to them.
Withs(mm, vals) == [i \in DOMAIN mm |-> WithInput(mm[i], vals)]

\* A group more, merged, is put behind the others.
LEMMA MergedOfMore ==
  ASSUME NEW out \in Seq(Seq(IndexedActions)), NEW g \in Seq(IndexedActions)
  PROVE  /\ MergedOf(out) \in Seq(MergedActions)
         /\ MergedOf(Append(out, g)) = MergedOf(out) \o MergeRegisterActions(g)
<1> DEFINE n  == Len(out)
           M(x) == MergeRegisterActions(x)
           ss == [i \in 1 .. n |-> M(out[i])]
           o  == Append(out, g)
<1>1. n \in Nat /\ DOMAIN out = 1 .. n /\ \A i \in 1 .. n : out[i] \in Seq(IndexedActions)
  BY ListFacts, Zenon
<1>2. /\ o \in Seq(Seq(IndexedActions)) /\ Len(o) = n + 1 /\ DOMAIN o = 1 .. n + 1 /\ o[n + 1] = g
      /\ \A i \in 1 .. n : o[i] = out[i]
  OBVIOUS
<1>3. \A x \in Seq(IndexedActions) : M(x) \in Seq(MergedActions)
  BY GroupMerges
<1>4. MergedOf(out) = FlattenSeq(ss)
  BY <1>1, Zenon DEF MergedOf
<1>5. MergedOf(o) = FlattenSeq([i \in 1 .. n + 1 |-> M(o[i])])
  BY <1>2, Zenon DEF MergedOf
<1> HIDE DEF M, n, o
<1>6. ss \in Seq(Seq(MergedActions)) /\ Len(ss) = n
  BY <1>1, <1>3
<1>7. [i \in 1 .. n + 1 |-> M(o[i])] = Append(ss, M(g))
  <2> DEFINE a == [i \in 1 .. n + 1 |-> M(o[i])]
             b == Append(ss, M(g))
  <2>1. a \in Seq(Seq(MergedActions)) /\ Len(a) = n + 1
    <3>1. \A i \in 1 .. n + 1 : o[i] \in Seq(IndexedActions)
      BY <1>2
    <3> QED BY <1>1, <1>3, <3>1
  <2>2. b \in Seq(Seq(MergedActions)) /\ Len(b) = n + 1 /\ b[n + 1] = M(g) /\ \A i \in 1 .. n : b[i] = ss[i]
    <3>1. M(g) \in Seq(MergedActions)
      BY <1>3
    <3> HIDE DEF ss
    <3> QED BY <1>1, <1>6, <3>1
  <2>3. \A i \in 1 .. n + 1 : a[i] = b[i]
    <3> SUFFICES ASSUME NEW i \in 1 .. n + 1 PROVE a[i] = b[i]
      OBVIOUS
    <3>1. a[i] = M(o[i])
      OBVIOUS
    <3> HIDE DEF a, b
    <3>2. CASE i = n + 1
      BY <1>2, <2>2, <3>1, <3>2
    <3>3. CASE i # n + 1
      <4>1. i \in 1 .. n
        BY <1>1, <3>3
      <4>2. ss[i] = M(out[i])
        BY <4>1
      <4> QED BY <1>2, <2>2, <3>1, <4>1, <4>2
    <3> QED BY <3>2, <3>3
  <2> HIDE DEF a, b
  <2>4. a = b
    BY <1>1, <2>1, <2>2, <2>3, SeqEqual
  <2> QED BY <2>4 DEF a, b
<1>8. FlattenSeq(Append(ss, M(g))) = FlattenSeq(ss) \o M(g)
  <2>1. M(g) \in Seq(MergedActions)
    BY <1>3
  <2> HIDE DEF ss
  <2> QED BY <1>6, <2>1, FlattenedAppend
<1>9. MergedOf(out) \in Seq(MergedActions)
  <2>1. FlattenSeq(ss) \in Seq(MergedActions)
    <3> HIDE DEF ss
    <3> QED BY <1>6, FlattenedElements
  <2> QED BY <1>4, <2>1, Zenon
<1>10. MergedOf(o) = MergedOf(out) \o M(g)
  BY <1>4, <1>5, <1>7, <1>8, Zenon
<1> QED BY <1>9, <1>10 DEF o, M

\* Each action is handed its values by itself.
LEMMA WithsJoined ==
  ASSUME NEW vals, NEW a \in Seq(MergedActions), NEW b \in Seq(MergedActions)
  PROVE  \E X : /\ Withs(a, vals) \in Seq(X) /\ Withs(b, vals) \in Seq(X)
                /\ Withs(a \o b, vals) = Withs(a, vals) \o Withs(b, vals)
<1> DEFINE W(m) == WithInput(m, vals)
           X == {W(m) : m \in MergedActions}
           c == a \o b
           u == [i \in 1 .. Len(a) |-> W(a[i])]
           v == [i \in 1 .. Len(b) |-> W(b[i])]
           w == [i \in 1 .. Len(c) |-> W(c[i])]
<1>1. /\ Len(a) \in Nat /\ DOMAIN a = 1 .. Len(a) /\ \A i \in 1 .. Len(a) : a[i] \in MergedActions
      /\ Len(b) \in Nat /\ DOMAIN b = 1 .. Len(b) /\ \A i \in 1 .. Len(b) : b[i] \in MergedActions
  BY ListFacts, Zenon
<1>2. /\ c \in Seq(MergedActions) /\ Len(c) = Len(a) + Len(b)
      /\ \A i \in 1 .. Len(a) : c[i] = a[i]
      /\ \A i \in 1 .. Len(c) : i > Len(a) => i - Len(a) \in 1 .. Len(b) /\ c[i] = b[i - Len(a)]
  OBVIOUS
<1> HIDE DEF c
<1>3. DOMAIN c = 1 .. Len(c) /\ \A i \in 1 .. Len(c) : c[i] \in MergedActions
  BY <1>2
<1>4. Withs(a, vals) = u /\ Withs(b, vals) = v /\ Withs(c, vals) = w
  BY <1>1, <1>3, Zenon DEF Withs
<1> HIDE DEF W
<1>5. \A m \in MergedActions : W(m) \in X
  OBVIOUS
<1> HIDE DEF X
<1>6. /\ u \in Seq(X) /\ Len(u) = Len(a) /\ v \in Seq(X) /\ Len(v) = Len(b)
      /\ w \in Seq(X) /\ Len(w) = Len(a) + Len(b)
  <2>1. u \in Seq(X) /\ Len(u) = Len(a)
    BY <1>1, <1>5
  <2>2. v \in Seq(X) /\ Len(v) = Len(b)
    BY <1>1, <1>5
  <2>3. w \in Seq(X) /\ Len(w) = Len(c)
    BY <1>1, <1>2, <1>3, <1>5
  <2> QED BY <1>2, <2>1, <2>2, <2>3
<1>7. /\ \A i \in 1 .. Len(a) : u[i] = W(a[i])
      /\ \A i \in 1 .. Len(b) : v[i] = W(b[i])
      /\ \A i \in 1 .. Len(c) : w[i] = W(c[i])
  OBVIOUS
<1> HIDE DEF u, v, w
<1>8. /\ u \o v \in Seq(X) /\ Len(u \o v) = Len(a) + Len(b)
      /\ \A i \in 1 .. Len(a) : (u \o v)[i] = u[i]
      /\ \A i \in 1 .. Len(a) + Len(b) : i > Len(a) => (u \o v)[i] = v[i - Len(a)]
  <2>1. /\ u \o v \in Seq(X) /\ Len(u \o v) = Len(u) + Len(v)
        /\ \A i \in 1 .. Len(u) : (u \o v)[i] = u[i]
        /\ \A i \in 1 .. Len(u) + Len(v) : i > Len(u) => i - Len(u) \in 1 .. Len(v) /\ (u \o v)[i] = v[i - Len(u)]
    <3>1. u \in Seq(X) /\ v \in Seq(X)
      BY <1>6
    <3> QED BY <3>1, BothLists, Zenon
  <2>2. Len(u) = Len(a) /\ Len(v) = Len(b)
    BY <1>6
  <2> QED BY <2>1, <2>2, Zenon
<1>9. \A i \in 1 .. Len(a) + Len(b) : w[i] = (u \o v)[i]
  <2> SUFFICES ASSUME NEW i \in 1 .. Len(a) + Len(b) PROVE w[i] = (u \o v)[i]
    OBVIOUS
  <2>1. CASE i <= Len(a)
    <3>1. i \in 1 .. Len(a) /\ i \in 1 .. Len(c)
      BY <1>1, <1>2, <2>1
    <3> QED BY <1>2, <1>7, <1>8, <3>1
  <2>2. CASE i > Len(a)
    <3>1. i - Len(a) \in 1 .. Len(b) /\ c[i] = b[i - Len(a)] /\ i \in 1 .. Len(c)
      BY <1>1, <1>2, <2>2
    <3>2. (u \o v)[i] = v[i - Len(a)]
      BY <1>8, <2>2
    <3> QED BY <1>7, <3>1, <3>2
  <2>3. i <= Len(a) \/ i > Len(a)
    BY <1>1
  <2> QED BY <2>1, <2>2, <2>3
<1>10. w = u \o v
  <2> DEFINE z == u \o v
  <2>1. z \in Seq(X) /\ Len(z) = Len(w) /\ \A i \in 1 .. Len(w) : w[i] = z[i]
    BY <1>6, <1>8, <1>9
  <2> HIDE DEF z
  <2>2. w = z
    BY <1>6, <2>1, SeqEqual
  <2> QED BY <2>2 DEF z
<1> QED BY <1>4, <1>6, <1>10, Zenon DEF c

\* A group more.
LEMMA BringsMore ==
  ASSUME NEW vals, NEW out \in Seq(Seq(IndexedActions)), NEW g \in Seq(IndexedActions),
         NEW v, NEW u, NEW w, Brings(v, Withs(MergedOf(out), vals), u), Brings(u, Part(g, vals), w)
  PROVE  Brings(v, Withs(MergedOf(Append(out, g)), vals), w)
<1> DEFINE a == MergedOf(out)
           b == MergeRegisterActions(g)
<1>1. a \in Seq(MergedActions) /\ b \in Seq(MergedActions) /\ MergedOf(Append(out, g)) = a \o b
  BY MergedOfMore, GroupMerges
<1>2. Part(g, vals) = Withs(b, vals)
  BY Zenon DEF Part, Withs
<1> HIDE DEF a, b
<1>3. PICK X : /\ Withs(a, vals) \in Seq(X) /\ Withs(b, vals) \in Seq(X)
               /\ Withs(a \o b, vals) = Withs(a, vals) \o Withs(b, vals)
  BY <1>1, WithsJoined
<1>4. Brings(v, Withs(a, vals), u) /\ Brings(u, Withs(b, vals), w)
  BY <1>2 DEF a
<1>5. Brings(v, Withs(a, vals) \o Withs(b, vals), w)
  BY <1>3, <1>4, BringsBoth
<1> QED BY <1>1, <1>3, <1>5
-----------------------------------------------------------------------------
\* A sequence point counts from the argument behind it.
LEMMA PointsNext ==
  ASSUME NEW i \in Nat \ {0}
  PROVE  PointsBefore(i + 1) = PointsBefore(i) + (IF args[i] = SequencePoint THEN 1 ELSE 0)
<1> DEFINE P(n) == {k \in 1 .. n - 1 : args[k] = SequencePoint}
<1>1. IsFiniteSet(P(i))
  <2>1. IsFiniteSet(1 .. i - 1) /\ P(i) \subseteq 1 .. i - 1
    BY FS_Interval
  <2> HIDE DEF P
  <2> QED BY <2>1, FS_Subset
<1>2. (i + 1) - 1 = i /\ \A k \in 1 .. i : k \in 1 .. i - 1 \/ k = i
  OBVIOUS
<1>3. i \notin P(i) /\ i \in 1 .. i /\ \A k \in 1 .. i - 1 : k \in 1 .. i
  OBVIOUS
<1>4. P(i + 1) = IF args[i] = SequencePoint THEN P(i) \cup {i} ELSE P(i)
  BY <1>2, <1>3
<1>5. Cardinality(P(i) \cup {i}) = Cardinality(P(i)) + 1 /\ Cardinality(P(i)) \in Nat
  <2> HIDE DEF P
  <2> QED BY <1>1, <1>3, FS_AddElement, FS_CardinalityType
<1> HIDE DEF P
<1>6. Cardinality(P(i + 1)) = Cardinality(P(i)) + (IF args[i] = SequencePoint THEN 1 ELSE 0)
  BY <1>4, <1>5
<1> QED BY <1>6, Zenon DEF PointsBefore, P

\* There is none before the first argument.
LEMMA NoPointsYet == PointsBefore(1) = 0
<1>1. {k \in 1 .. 1 - 1 : args[k] = SequencePoint} = {}
  OBVIOUS
<1> QED BY <1>1, FS_EmptySet, Zenon DEF PointsBefore

\* The registers after each of the first n groups of arguments.
StagesTo(n, W) ==
  /\ W \in [0 .. n -> States] /\ W[0] = before
  /\ \A k \in 1 .. n : W[k] = Together(W[k - 1], Group(k))

Stages(W) == StagesTo(NGroups, W)

\* AfterGroups ends where these stages do.
LEMMA LastStage ==
  ASSUME NEW n \in Nat, before \in States
  PROVE  \E W : StagesTo(n, W) /\ AfterGroups(n) = W[n]
<1> DEFINE step == [p \in States \X (1 .. n) |-> AfterGroup(p[1], p[2])]
           Fcn(g) == g = [k \in 0 .. n |-> IF k = 0 THEN before ELSE AfterGroup(g[k - 1], k)]
           f == CHOOSE g : Fcn(g)
<1>1. \A v, k : AfterGroup(v, k) \in States /\ AfterGroup(v, k) = Together(v, Group(k))
  <2> SUFFICES ASSUME NEW v, NEW k PROVE AfterGroup(v, k) \in States /\ AfterGroup(v, k) = Together(v, Group(k))
    OBVIOUS
  <2>1. AfterGroup(v, k) = Together(v, Group(k))
    BY Zenon DEF AfterGroup, Together, Writers, WritersIn
  <2>2. AfterGroup(v, k) \in States
    BY DEF AfterGroup, States
  <2> QED BY <2>1, <2>2
<1>2. step \in [States \X (1 .. n) -> States]
  BY <1>1
<1>3. PICK g \in [0 .. n -> States] : RecursTo(n, g, before, step)
  <2> HIDE DEF step
  <2> QED BY <1>2, RecursionTo
<1>4. Fcn(g)
  <2>1. g[0] = before
    BY <1>3 DEF RecursTo
  <2>2. ASSUME NEW k \in 0 .. n, k # 0 PROVE g[k] = AfterGroup(g[k - 1], k)
    <3>1. k \in 1 .. n /\ k - 1 \in 0 .. n
      BY <2>2
    <3>2. g[k] = step[<<g[k - 1], k>>] /\ g[k - 1] \in States
      <4> HIDE DEF step
      <4> QED BY <1>3, <3>1 DEF RecursTo
    <3> QED BY <3>1, <3>2
  <2>3. \A k \in 0 .. n : g[k] = IF k = 0 THEN before ELSE AfterGroup(g[k - 1], k)
    BY <2>1, <2>2
  <2>4. g = [k \in 0 .. n |-> g[k]]
    OBVIOUS
  <2> QED BY <2>3, <2>4, Zenon
<1>5. Fcn(f)
  <2> HIDE DEF Fcn
  <2> QED BY <1>4, Zenon
<1>6. AfterGroups(n) = f[n]
  BY DEF AfterGroups
<1>7. StagesTo(n, f)
  <2>1. f = [k \in 0 .. n |-> IF k = 0 THEN before ELSE AfterGroup(f[k - 1], k)]
    BY <1>5
  <2> HIDE DEF f
  <2>2. \A k \in 0 .. n : f[k] = IF k = 0 THEN before ELSE AfterGroup(f[k - 1], k)
    BY <2>1
  <2>3. f = [k \in 0 .. n |-> f[k]]
    BY <2>1
  <2>4. 0 \in 0 .. n /\ \A k \in 1 .. n : k \in 0 .. n /\ k # 0
    OBVIOUS
  <2>5. f[0] = before /\ \A k \in 1 .. n : f[k] = Together(f[k - 1], Group(k))
    BY <1>1, <2>2, <2>4
  <2>6. \A k \in 0 .. n : f[k] \in States
    BY <1>1, <2>2
  <2>7. f \in [0 .. n -> States]
    BY <2>3, <2>6
  <2> QED BY <2>5, <2>7 DEF StagesTo
<1> HIDE DEF f
<1> QED BY <1>6, <1>7

\* After each group, too.
LEMMA GroupStages ==
  ASSUME NGroups \in Nat, before \in States
  PROVE  \E W : Stages(W) /\ \A m \in 0 .. NGroups : AfterGroups(m) = W[m]
<1>1. PICK W : StagesTo(NGroups, W)
  BY LastStage
<1>2. ASSUME NEW m \in 0 .. NGroups PROVE AfterGroups(m) = W[m]
  <2>1. PICK U : StagesTo(m, U) /\ AfterGroups(m) = U[m]
    BY LastStage
  <2> DEFINE S == {i \in 0 .. m : U[i] = W[i]}
  <2>2. 0 \in S
    BY <1>1, <2>1 DEF StagesTo
  <2>3. ASSUME NEW i \in 1 .. m, i - 1 \in S PROVE i \in S
    <3>1. U[i - 1] = W[i - 1] /\ i \in 0 .. m /\ i \in 1 .. NGroups
      BY <2>3
    <3>2. U[i] = Together(U[i - 1], Group(i)) /\ W[i] = Together(W[i - 1], Group(i))
      BY <1>1, <2>1, <3>1, Zenon DEF StagesTo
    <3> QED BY <3>1, <3>2
  <2>4. m \in Nat /\ m \in 0 .. m
    OBVIOUS
  <2>5. m \in S
    <3> HIDE DEF S
    <3> QED BY <2>2, <2>3, <2>4, InductionTo
  <2> QED BY <2>1, <2>5
<1> QED BY <1>1, <1>2, Zenon DEF Stages

\* The actions of F behind the last sequence point of its first i, and those of the
\* n-th group.
Since(F, i) ==
  {F[k] : k \in {l \in 1 .. i : F[l] # SequencePoint /\ PointsBefore(l) = PointsBefore(i + 1)}}

OfGroup(F, n) ==
  {F[k] : k \in {l \in 1 .. Len(F) : F[l] # SequencePoint /\ PointsBefore(l) = n - 1}}

\* At the end of a group they are the same.
LEMMA SinceGroup ==
  ASSUME NEW F, Len(F) \in Nat, NEW i \in 0 .. Len(F), NEW n, PointsBefore(i + 1) = n - 1,
         \A k \in 1 .. Len(F) : F[k] # SequencePoint /\ PointsBefore(k) = PointsBefore(i + 1) => k <= i
  PROVE  Since(F, i) = OfGroup(F, n)
<1>1. {l \in 1 .. i : F[l] # SequencePoint /\ PointsBefore(l) = PointsBefore(i + 1)}
        = {l \in 1 .. Len(F) : F[l] # SequencePoint /\ PointsBefore(l) = n - 1}
  OBVIOUS
<1> QED BY <1>1, Zenon DEF Since, OfGroup

\* Induction over the groups of a call: what holds of no groups and of each next one with
\* those before it holds of all of them.  A group with nothing in it disappears.
LEMMA GroupInduction ==
  ASSUME NEW call \in Seq(Arguments), args = Opened(call), NEW F, F = FlattenedActions(call), NEW T,
         <<<<>>, 0>> \in T,
         \A out \in Seq(Seq(IndexedActions)) : \A cur \in Seq(IndexedActions) : \A m \in 1 .. NGroups :
           <<out, m - 1>> \in T /\ ToSet(cur) = OfGroup(F, m) => <<EndGroup(out, cur), m>> \in T
  PROVE  <<Steps(call), NGroups>> \in T
<1> DEFINE n == Len(F)
<1>1. /\ F \in Seq(IndexedElements) /\ n \in Nat /\ n = Len(args)
      /\ \A k \in 1 .. n : F[k] \in IndexedElements /\ (F[k] = SequencePoint <=> args[k] = SequencePoint)
  <2>1. F \in Seq(IndexedElements) /\ args \in Seq(Elements) /\ Alike(F, args, Stands(call))
    BY ElementsAlike
  <2>2. Len(F) \in Nat /\ \A k \in 1 .. Len(F) : F[k] \in IndexedElements
    BY <2>1, ListFacts, Zenon
  <2>3. Len(F) = Len(args) /\ \A k \in 1 .. Len(F) : <<F[k], args[k]>> \in Stands(call)
    BY <2>1, Zenon DEF Alike
  <2>4. \A k \in 1 .. Len(F) : F[k] = SequencePoint <=> args[k] = SequencePoint
    BY <2>3 DEF Stands
  <2> QED BY <2>1, <2>2, <2>3, <2>4
<1>2. IndexedElements \ {SequencePoint} = IndexedActions
  BY ApplyAssumption DEF IndexedElements
<1>3. PICK f : Splits(F, SequencePoint, f) /\ Steps(call) = EndGroup(f[n].out, f[n].cur)
  <2>1. PICK f : Splits(F, SequencePoint, f) /\ split(F, SequencePoint) = EndGroup(f[n].out, f[n].cur)
    BY <1>1, SplitRuns
  <2> QED BY <2>1, Zenon DEF Steps
<1> HIDE DEF n
<1>4. \A i \in 0 .. n : f[i] \in SplitState(IndexedActions)
  BY <1>1, <1>2, <1>3, SplitType DEF n
<1>5. \A i \in 0 .. n : PointsBefore(i + 1) \in Nat /\ PointsBefore(i + 1) + 1 \in 1 .. NGroups
  <2> SUFFICES ASSUME NEW i \in 0 .. n PROVE PointsBefore(i + 1) \in Nat /\ PointsBefore(i + 1) + 1 \in 1 .. NGroups
    OBVIOUS
  <2>1. i + 1 \in Nat /\ n + 1 \in Nat /\ i + 1 <= n + 1
    BY <1>1
  <2>2. PointsBefore(i + 1) \in Nat /\ PointsBefore(n + 1) \in Nat /\ PointsBefore(i + 1) <= PointsBefore(n + 1)
    BY <2>1, Points
  <2>3. NGroups = PointsBefore(n + 1) + 1
    BY <1>1 DEF NGroups
  <2> QED BY <2>2, <2>3
<1> DEFINE S == {i \in 0 .. n : ToSet(f[i].cur) = Since(F, i) /\ <<f[i].out, PointsBefore(i + 1)>> \in T}
<1>6. 0 \in S
  <2>1. f[0].out = <<>> /\ f[0].cur = <<>>
    BY <1>3 DEF Splits
  <2>2. ToSet(f[0].cur) = Since(F, 0)
    <3>1. ToSet(f[0].cur) = {}
      BY <2>1, NothingIn
    <3>2. Since(F, 0) = {}
      BY DEF Since
    <3> QED BY <3>1, <3>2
  <2>3. PointsBefore(0 + 1) = 0
    <3>1. 0 + 1 = 1
      OBVIOUS
    <3> QED BY <3>1, NoPointsYet, Zenon
  <2> QED BY <1>1, <2>1, <2>2, <2>3
<1>7. ASSUME NEW i \in 1 .. n, i - 1 \in S PROVE i \in S
  <2> DEFINE o == f[i - 1].out
             c == f[i - 1].cur
             j == i - 1
  <2>1. /\ i \in 0 .. n /\ j \in 0 .. n /\ j + 1 = i /\ i \in Nat \ {0} /\ i \in 1 .. Len(F)
        /\ f[j] \in SplitState(IndexedActions) /\ f[i] = SplitStep(f[j], F[i], SequencePoint)
        /\ F[i] \in IndexedElements /\ ToSet(c) = Since(F, j) /\ <<o, PointsBefore(j + 1)>> \in T
    <3>1. i \in 0 .. n /\ j \in 0 .. n /\ j + 1 = i /\ i \in Nat \ {0} /\ i \in 1 .. Len(F)
      BY <1>1 DEF n
    <3>2. f[i] = SplitStep(f[j], F[i], SequencePoint)
      BY <1>3, <3>1 DEF Splits
    <3>3. f[j] \in SplitState(IndexedActions) /\ F[i] \in IndexedElements
      BY <1>1, <1>4, <3>1
    <3> QED BY <1>7, <3>1, <3>2, <3>3
  <2>2. o \in Seq(Seq(IndexedActions)) /\ c \in Seq(IndexedActions)
    BY <2>1 DEF SplitState
  <2> HIDE DEF j
  <2>4. /\ F[i] = SequencePoint => f[i].out = EndGroup(o, c) /\ f[i].cur = <<>>
        /\ F[i] # SequencePoint => f[i].out = o /\ f[i].cur = Append(c, F[i])
    <3>1. f[j] \in SplitState(IndexedElements \ {SequencePoint})
      BY <1>2, <2>1
    <3>2. F[i] \in IndexedElements /\ f[i] = SplitStep(f[j], F[i], SequencePoint)
      BY <2>1
    <3> DEFINE x == F[i]
               r == f[j]
               q == f[i]
    <3>3. x \in IndexedElements /\ r \in SplitState(IndexedElements \ {SequencePoint}) /\ q = SplitStep(r, x, SequencePoint)
      BY <3>1, <3>2
    <3> HIDE DEF x, r, q
    <3>4. /\ x = SequencePoint => q.out = EndGroup(r.out, r.cur) /\ q.cur = <<>>
          /\ x # SequencePoint => q.out = r.out /\ q.cur = Append(r.cur, x)
      BY <3>3 DEF SplitStep, SplitState
    <3>5. o = r.out /\ c = r.cur
      BY DEF r, j
    <3> HIDE DEF o, c
    <3> QED BY <3>4, <3>5, Zenon DEF x, q
  <2>5. PointsBefore(i + 1) = PointsBefore(i) + (IF F[i] = SequencePoint THEN 1 ELSE 0)
    BY <1>1, <2>1, PointsNext
  <2>6. PointsBefore(i) \in Nat /\ PointsBefore(i + 1) \in Nat
    BY <1>5, <2>1
  <2> HIDE DEF o, c, j
  <2>7. CASE F[i] # SequencePoint
    <3>1. PointsBefore(i + 1) = PointsBefore(i)
      BY <2>5, <2>6, <2>7
    <3>2. Since(F, i) = Since(F, j) \cup {F[i]}
      <4> DEFINE K == {l \in 1 .. j : F[l] # SequencePoint /\ PointsBefore(l) = PointsBefore(j + 1)}
      <4>1. i \in 1 .. i /\ \A l \in 1 .. i : l \in 1 .. j \/ l = i
        BY <2>1
      <4>2. \A l \in 1 .. j : l \in 1 .. i
        BY <2>1
      <4>3. {l \in 1 .. i : F[l] # SequencePoint /\ PointsBefore(l) = PointsBefore(i + 1)} = K \cup {i}
        BY <2>1, <2>7, <3>1, <4>1, <4>2
      <4>4. Since(F, i) = {F[k] : k \in K \cup {i}} /\ Since(F, j) = {F[k] : k \in K}
        BY <4>3, Zenon DEF Since
      <4> HIDE DEF K
      <4> QED BY <4>4
    <3>3. ToSet(f[i].cur) = ToSet(c) \cup {F[i]}
      <4>1. F[i] \in IndexedActions
        BY <1>2, <2>1, <2>7
      <4> DEFINE one == <<F[i]>>
      <4>2. one \in Seq(IndexedActions) /\ ToSet(one) = {F[i]}
        BY <4>1, OneElement
      <4>3. f[i].cur = c \o one
        <5> DEFINE x == F[i]
        <5>1. f[i].cur = Append(c, x) /\ x \in IndexedActions
          BY <2>4, <2>7, <4>1
        <5> HIDE DEF x
        <5>2. Append(c, x) = c \o <<x>>
          BY <2>2, <5>1, Appended
        <5> QED BY <5>1, <5>2 DEF x
      <4> HIDE DEF one
      <4>4. ToSet(c \o one) = ToSet(c) \cup ToSet(one)
        BY <2>2, <4>2, JoinedSet
      <4> QED BY <4>2, <4>3, <4>4
    <3>4. ToSet(f[i].cur) = Since(F, i)
      BY <2>1, <3>2, <3>3
    <3>5. f[i].out = o /\ PointsBefore(i + 1) = PointsBefore(j + 1)
      BY <2>1, <2>4, <2>7, <3>1
    <3> QED BY <2>1, <3>4, <3>5
  <2>8. CASE F[i] = SequencePoint
    <3> DEFINE e == EndGroup(o, c)
               m == PointsBefore(j + 1) + 1
    <3>1. PointsBefore(i + 1) = m /\ m \in 1 .. NGroups
      BY <1>5, <2>1, <2>5, <2>8
    <3>2. \A k \in 1 .. i : PointsBefore(k) \in Nat /\ PointsBefore(k) <= PointsBefore(i)
      <4> SUFFICES ASSUME NEW k \in 1 .. i PROVE PointsBefore(k) \in Nat /\ PointsBefore(k) <= PointsBefore(i)
        OBVIOUS
      <4>1. k \in Nat /\ i \in Nat /\ k <= i
        BY <2>1
      <4> QED BY <4>1, Points
    <3>3. ToSet(f[i].cur) = Since(F, i)
      <4>1. ToSet(f[i].cur) = {}
        BY <2>4, <2>8, NothingIn
      <4>2. \A k \in 1 .. i : PointsBefore(k) # PointsBefore(i + 1)
        BY <2>5, <2>6, <2>8, <3>2
      <4>3. Since(F, i) = {}
        BY <4>2 DEF Since
      <4> QED BY <4>1, <4>3
    <3>4. \A k \in 1 .. Len(F) : F[k] # SequencePoint /\ PointsBefore(k) = PointsBefore(j + 1) => k <= j
      <4> SUFFICES ASSUME NEW k \in 1 .. Len(F), F[k] # SequencePoint, PointsBefore(k) = PointsBefore(j + 1), ~(k <= j)
                   PROVE  FALSE
        OBVIOUS
      <4>1. k # i /\ k >= i + 1 /\ k \in Nat /\ i + 1 \in Nat
        <5>1. k # i
          BY <2>8
        <5>2. k \in Nat /\ j \in Nat
          BY <1>1, <2>1
        <5> QED BY <2>1, <5>1, <5>2
      <4>2. PointsBefore(i + 1) <= PointsBefore(k) /\ PointsBefore(k) \in Nat
        BY <4>1, Points
      <4>3. PointsBefore(k) = PointsBefore(i)
        BY <2>1
      <4> QED BY <2>5, <2>6, <2>8, <4>2, <4>3
    <3>5. f[i].out = e
      BY <2>4, <2>8
    <3> HIDE DEF e, m
    <3>6. ToSet(c) = OfGroup(F, m)
      <4>1. j \in 0 .. Len(F) /\ PointsBefore(j + 1) = m - 1
        <5>1. PointsBefore(j + 1) \in Nat
          BY <1>5, <2>1
        <5> QED BY <2>1, <5>1 DEF n, m
      <4>2. Since(F, j) = OfGroup(F, m)
        BY <1>1, <3>4, <4>1, SinceGroup DEF n
      <4> QED BY <2>1, <4>2
    <3>7. <<e, m>> \in T
      <4>1. <<o, m - 1>> \in T
        <5>1. PointsBefore(j + 1) \in Nat
          BY <1>5, <2>1
        <5>2. m - 1 = PointsBefore(j + 1)
          BY <5>1 DEF m
        <5> QED BY <2>1, <5>2
      <4> QED BY <2>2, <3>1, <3>6, <4>1, Zenon DEF e
    <3> QED BY <2>1, <3>1, <3>3, <3>5, <3>7
  <2> QED BY <2>7, <2>8
<1>8. \A i \in 0 .. n : i \in S
  <2>1. \A i \in 1 .. n : i - 1 \in S => i \in S
    BY <1>7
  <2> HIDE DEF S
  <2> QED BY <1>1, <1>6, <2>1, InductionTo
<1> DEFINE o == f[n].out
           c == f[n].cur
<1>9. o \in Seq(Seq(IndexedActions)) /\ c \in Seq(IndexedActions) /\ Steps(call) = EndGroup(o, c)
  <2>1. n \in 0 .. n
    BY <1>1
  <2>2. f[n] \in SplitState(IndexedActions)
    BY <1>4, <2>1
  <2> QED BY <1>3, <2>2 DEF SplitState
<1>10. NGroups = PointsBefore(n + 1) + 1 /\ NGroups \in 1 .. NGroups /\ PointsBefore(n + 1) = NGroups - 1
  <2>1. NGroups = PointsBefore(n + 1) + 1
    BY <1>1 DEF NGroups
  <2>2. n \in 0 .. n
    BY <1>1
  <2>3. PointsBefore(n + 1) \in Nat /\ PointsBefore(n + 1) + 1 \in 1 .. NGroups
    BY <1>5, <2>2
  <2> QED BY <2>1, <2>3
<1>11. ToSet(c) = OfGroup(F, NGroups) /\ <<o, NGroups - 1>> \in T
  <2>1. n \in S
    BY <1>1, <1>8
  <2>2. ToSet(c) = Since(F, n) /\ <<o, PointsBefore(n + 1)>> \in T
    BY <2>1
  <2>3. n \in 0 .. Len(F) /\ \A k \in 1 .. Len(F) : F[k] # SequencePoint /\ PointsBefore(k) = PointsBefore(n + 1) => k <= n
    BY <1>1 DEF n
  <2>4. Since(F, n) = OfGroup(F, NGroups)
    BY <1>1, <1>10, <2>3, SinceGroup DEF n
  <2> QED BY <1>10, <2>2, <2>4
<1> HIDE DEF o, c
<1> QED BY <1>9, <1>10, <1>11, Zenon

\* The actions of a group stand for its arguments, one for one.
LEMMA GroupStands ==
  ASSUME NEW call \in Seq(Arguments), args = Opened(call), NEW F, F = FlattenedActions(call), NEW n \in Nat
  PROVE  /\ Group(n) \subseteq Actions
         /\ \A x \in OfGroup(F, n) : \E a \in Group(n) : <<x, a>> \in Stands(call)
         /\ \A a \in Group(n) : \E x \in OfGroup(F, n) : <<x, a>> \in Stands(call)
<1>1. /\ args \in Seq(Elements) /\ Len(F) = Len(args) /\ Len(F) \in Nat /\ DOMAIN args = 1 .. Len(F)
      /\ \A k \in 1 .. Len(F) : <<F[k], args[k]>> \in Stands(call) /\ args[k] \in Elements
  <2>1. F \in Seq(IndexedElements) /\ args \in Seq(Elements) /\ Alike(F, args, Stands(call))
    BY ElementsAlike
  <2>2. Len(F) \in Nat /\ DOMAIN args = 1 .. Len(args) /\ \A k \in 1 .. Len(args) : args[k] \in Elements
    BY <2>1, ListFacts, Zenon
  <2>3. Len(F) = Len(args) /\ \A k \in 1 .. Len(F) : <<F[k], args[k]>> \in Stands(call)
    BY <2>1, Zenon DEF Alike
  <2> QED BY <2>1, <2>2, <2>3
<1>2. \A k \in 1 .. Len(F) : F[k] = SequencePoint <=> args[k] = SequencePoint
  BY <1>1 DEF Stands
<1> DEFINE K == {l \in 1 .. Len(F) : F[l] # SequencePoint /\ PointsBefore(l) = n - 1}
<1>3. Group(n) = {args[k] : k \in K} /\ OfGroup(F, n) = {F[k] : k \in K}
  <2>1. {k \in DOMAIN args : args[k] # SequencePoint /\ PointsBefore(k) = n - 1} = K
    BY <1>1, <1>2
  <2> QED BY <2>1, Zenon DEF Group, OfGroup
<1>4. \A k \in K : args[k] \in Actions /\ <<F[k], args[k]>> \in Stands(call)
  BY <1>1, <1>2 DEF Elements
<1> HIDE DEF K
<1> QED BY <1>3, <1>4, Zenon

\* When a group ends, what the groups so far compile to brings the registers to where
\* the arguments so far do.
LEMMA GroupEnds ==
  ASSUME NEW call \in Seq(Arguments), args = Opened(call), NEW F, F = FlattenedActions(call),
         NEW W, Stages(W), NEW n \in 1 .. NGroups, NGroups \in Nat,
         NEW out \in Seq(Seq(IndexedActions)), NEW cur \in Seq(IndexedActions), ToSet(cur) = OfGroup(F, n),
         (\A g \in ToSet(out) : Good(g)) => Brings(before, Withs(MergedOf(out), InputValues(call)), W[n - 1]),
         NEW e, e = EndGroup(out, cur), \A g \in ToSet(e) : Good(g)
  PROVE  Brings(before, Withs(MergedOf(e), InputValues(call)), W[n])
<1> DEFINE A == Group(n)
           vals == InputValues(call)
<1>1. n - 1 \in 0 .. NGroups /\ n \in Nat
  OBVIOUS
<1>2. A \subseteq Actions
  BY <1>1, GroupStands
<1>3. /\ \A x \in ToSet(cur) : \E a \in A : <<x, a>> \in Stands(call)
      /\ \A a \in A : \E x \in ToSet(cur) : <<x, a>> \in Stands(call)
  <2>1. /\ \A x \in OfGroup(F, n) : \E a \in A : <<x, a>> \in Stands(call)
        /\ \A a \in A : \E x \in OfGroup(F, n) : <<x, a>> \in Stands(call)
    BY <1>1, GroupStands
  <2> QED BY <2>1, Zenon
<1>4. W[n] = Together(W[n - 1], A) /\ W[n - 1] \in States
  BY <1>1 DEF Stages, StagesTo
<1> HIDE DEF A, vals
<1>5. CASE cur = <<>>
  <2>1. e = out
    BY <1>5 DEF EndGroup
  <2>2. A = {}
    <3>1. ToSet(cur) = {}
      BY <1>5, NothingIn
    <3> QED BY <1>3, <3>1
  <2>3. W[n] = W[n - 1]
    <3> DEFINE v == W[n - 1]
    <3>1. v \in States /\ W[n] = Together(v, A)
      BY <1>4
    <3> HIDE DEF v
    <3>2. \A r \in Regs, b \in Bits : WritersIn(A, r, b) = {}
      BY <2>2 DEF WritersIn
    <3>3. \A r \in Regs : Together(v, A)[r] = v[r]
      BY <3>1, <3>2 DEF Together, States
    <3>4. Together(v, A) \in States
      BY DEF Together, States
    <3>5. Together(v, A) = v
      BY <3>1, <3>3, <3>4 DEF States
    <3> QED BY <3>1, <3>5 DEF v
  <2> QED BY <1>1, <2>1, <2>3
<1>6. CASE cur # <<>>
  <2>1. e = Append(out, cur)
    BY <1>6 DEF EndGroup
  <2>2. cur \in ToSet(e) /\ \A g \in ToSet(out) : g \in ToSet(e)
    <3> DEFINE G == Seq(IndexedActions)
    <3>1. out \in Seq(G) /\ cur \in G
      OBVIOUS
    <3> HIDE DEF G
    <3>2. /\ Len(e) = Len(out) + 1 /\ Len(out) \in Nat /\ e[Len(out) + 1] = cur /\ DOMAIN e = 1 .. Len(e)
          /\ DOMAIN out = 1 .. Len(out) /\ \A k \in 1 .. Len(out) : e[k] = out[k]
      BY <2>1, <3>1
    <3>3. Len(out) + 1 \in DOMAIN e /\ \A k \in DOMAIN out : k \in DOMAIN e /\ e[k] = out[k]
      BY <3>2
    <3> QED BY <3>2, <3>3 DEF ToSet
  <2>3. Good(cur) /\ Brings(before, Withs(MergedOf(out), vals), W[n - 1])
    BY <1>1, <2>2 DEF vals
  <2>4. Brings(W[n - 1], Part(cur, vals), W[n])
    BY <1>2, <1>3, <1>4, <2>3, GroupBrings DEF vals
  <2>5. Brings(before, Withs(MergedOf(e), vals), W[n])
    BY <2>1, <2>3, <2>4, BringsMore
  <2> QED BY <2>5 DEF vals
<1> QED BY <1>5, <1>6

\* There is a group at least.
LEMMA GroupCount ==
  ASSUME args \in Seq(Elements)
  PROVE  NGroups \in Nat \ {0}
<1>1. Len(args) \in Nat
  OBVIOUS
<1>2. Len(args) + 1 \in Nat /\ Len(args) + 1 <= Len(args) + 1
  BY <1>1
<1>3. PointsBefore(Len(args) + 1) \in Nat
  BY <1>2, Points
<1> QED BY <1>3 DEF NGroups

\* No groups compile to nothing.
LEMMA NothingMerged == MergedOf(<<>>) = <<>> /\ \A vals : Withs(MergedOf(<<>>), vals) = <<>>
<1>1. [k \in DOMAIN <<>> |-> MergeRegisterActions(<<>>[k])] = <<>>
  OBVIOUS
<1>2. <<>> \in Seq(Seq(MergedActions)) /\ Len(<<>>) = 0
  OBVIOUS
<1>3. \E h : Flattens(<<>>, h) /\ FlattenSeq(<<>>) = h[0]
  BY <1>2, FlattensTo
<1>4. FlattenSeq(<<>>) = <<>>
  BY <1>3 DEF Flattens
<1>5. MergedOf(<<>>) = <<>>
  BY <1>1, <1>4, Zenon DEF MergedOf
<1>6. \A vals : [k \in DOMAIN <<>> |-> WithInput(<<>>[k], vals)] = <<>>
  OBVIOUS
<1> QED BY <1>5, <1>6, Zenon DEF Withs

\* A call compiles to its merged groups.
LEMMA CompiledAs ==
  ASSUME NEW call \in Seq(Arguments)
  PROVE  Compile(call) = Withs(MergedOf(Steps(call)), InputValues(call))
<1>1. Compile(call) = [i \in DOMAIN FlattenSeq(MergedGroups(call)) |-> WithInput(FlattenSeq(MergedGroups(call))[i], InputValues(call))]
  BY Compiled
<1>2. MergedOf(Steps(call)) = FlattenSeq(MergedGroups(call))
  BY Zenon DEF MergedOf, MergedGroups
<1> QED BY <1>1, <1>2, Zenon DEF Withs

\* Whatever is merged, sorted and skipped on the way, what a call compiles to brings the
\* registers to where its arguments do, group by group.
LEMMA CompileBrings ==
  ASSUME NEW call \in Seq(Arguments), args = Opened(call), before \in States,
         \A g \in ToSet(Steps(call)) : Good(g)
  PROVE  Brings(before, Compile(call), AfterGroups(NGroups))
<1> DEFINE F == FlattenedActions(call)
           vals == InputValues(call)
<1>1. NGroups \in Nat
  <2>1. args \in Seq(Elements)
    BY ElementsAlike
  <2> QED BY <2>1, GroupCount
<1>2. PICK W : Stages(W) /\ AfterGroups(NGroups) = W[NGroups]
  <2>1. NGroups \in 0 .. NGroups
    BY <1>1
  <2> QED BY <1>1, <2>1, GroupStages
<1> DEFINE Ends(o, m) == (\A g \in ToSet(o) : Good(g)) => Brings(before, Withs(MergedOf(o), vals), W[m])
           T == {p \in Seq(Seq(IndexedActions)) \X (0 .. NGroups) : Ends(p[1], p[2])}
<1>3. <<<<>>, 0>> \in T
  <2>2. Brings(before, Withs(MergedOf(<<>>), vals), W[0])
    BY <1>2, BringsNothing, NothingMerged DEF Stages, StagesTo
  <2>3. <<>> \in Seq(Seq(IndexedActions)) /\ 0 \in 0 .. NGroups
    BY <1>1
  <2> HIDE DEF vals
  <2> QED BY <2>2, <2>3
<1>4. \A out \in Seq(Seq(IndexedActions)) : \A cur \in Seq(IndexedActions) : \A m \in 1 .. NGroups :
        <<out, m - 1>> \in T /\ ToSet(cur) = OfGroup(F, m) => <<EndGroup(out, cur), m>> \in T
  <2> SUFFICES ASSUME NEW out \in Seq(Seq(IndexedActions)), NEW cur \in Seq(IndexedActions), NEW m \in 1 .. NGroups,
                      <<out, m - 1>> \in T, ToSet(cur) = OfGroup(F, m)
               PROVE  <<EndGroup(out, cur), m>> \in T
    OBVIOUS
  <2>1. EndGroup(out, cur) \in Seq(Seq(IndexedActions)) /\ m \in 0 .. NGroups
    BY <1>1 DEF EndGroup
  <2>2. Ends(out, m - 1)
    OBVIOUS
  <2> HIDE DEF T
  <2>3. Ends(EndGroup(out, cur), m)
    BY <1>1, <1>2, <2>2, GroupEnds
  <2> HIDE DEF Ends
  <2> QED BY <2>1, <2>3 DEF T
<1>5. <<Steps(call), NGroups>> \in T
  <2> HIDE DEF T
  <2> QED BY <1>3, <1>4, GroupInduction
<1>6. Brings(before, Withs(MergedOf(Steps(call)), InputValues(call)), W[NGroups])
  <2>1. Ends(Steps(call), NGroups)
    BY <1>5
  <2> QED BY <2>1 DEF vals
<1> QED BY <1>2, <1>6, CompiledAs

-----------------------------------------------------------------------------
\* The actions merged from the groups up to the n-th, with the number of the group of
\* each: they are in order, made of actions of the group, and access a register as Once
\* says; and each action of a group is in one of them.
Placed(F, mm, n, G) ==
  /\ G \in [1 .. Len(mm) -> 1 .. n]
  /\ \A k, l \in 1 .. Len(mm) : k <= l => G[k] <= G[l]
  /\ \A k \in 1 .. Len(mm) : \E C \in SUBSET OfGroup(F, G[k]) : Made(mm[k], C)
  /\ \A m \in 1 .. n : \A x \in OfGroup(F, m) : \E k \in 1 .. Len(mm) : \E C : x \in C /\ Made(mm[k], C)
  /\ \A k, l \in 1 .. Len(mm) :
       k # l /\ G[k] = G[l] /\ mm[k].addr = mm[l].addr => Compatible(mm[k], mm[l])

\* The next group is merged behind them.
LEMMA PlacedMore ==
  ASSUME NEW F, NEW mm \in Seq(MergedActions), NEW n \in Nat \ {0}, NEW G, Placed(F, mm, n - 1, G),
         NEW q \in Seq(MergedActions), Once(q), Makes(ToSet(q), OfGroup(F, n))
  PROVE  \E H : Placed(F, mm \o q, n, H)
<1> DEFINE a == Len(mm)
           b == Len(q)
           w == mm \o q
           H == [k \in 1 .. a + b |-> IF k <= a THEN G[k] ELSE n]
<1>1. a \in Nat /\ b \in Nat /\ DOMAIN q = 1 .. b
  BY ListFacts, Zenon
<1>2. /\ Len(w) = a + b /\ \A k \in 1 .. a : w[k] = mm[k]
      /\ \A k \in 1 .. a + b : k > a => k - a \in 1 .. b /\ w[k] = q[k - a]
  BY BothLists, Zenon
<1>3. /\ \A k \in 1 .. a : k \in 1 .. a + b /\ H[k] = G[k]
      /\ \A k \in 1 .. a + b : k > a => H[k] = n
      /\ \A k \in 1 .. a + b : k > a \/ k \in 1 .. a
      /\ \A k \in 1 .. b : k + a \in 1 .. a + b /\ k + a > a /\ (k + a) - a = k
  BY <1>1
<1>4. /\ \A k \in 1 .. a : G[k] \in 1 .. n - 1 /\ G[k] \in 1 .. n /\ G[k] < n
      /\ n \in 1 .. n /\ \A m \in 1 .. n : m = n \/ m \in 1 .. n - 1
  <2>1. G \in [1 .. a -> 1 .. n - 1]
    BY Zenon DEF Placed
  <2>2. \A k \in 1 .. a : G[k] \in 1 .. n - 1
    BY <2>1, Zenon
  <2>3. /\ \A g \in 1 .. n - 1 : g \in 1 .. n /\ g < n
        /\ n \in 1 .. n /\ \A m \in 1 .. n : m = n \/ m \in 1 .. n - 1
    OBVIOUS
  <2> QED BY <2>2, <2>3, Zenon
<1>5. H \in [1 .. a + b -> 1 .. n]
  <2>1. \A k \in 1 .. a + b : (IF k <= a THEN G[k] ELSE n) \in 1 .. n
    BY <1>1, <1>3, <1>4
  <2> QED BY <2>1
<1> HIDE DEF w, H, a, b
<1>6. ASSUME NEW k \in 1 .. a + b, NEW l \in 1 .. a + b, k <= l PROVE H[k] <= H[l]
  <2>1. CASE l \in 1 .. a
    <3>1. k \in 1 .. a
      BY <1>1, <1>6, <2>1
    <3>2. G[k] <= G[l]
      BY <1>6, <2>1, <3>1 DEF Placed, a
    <3> QED BY <1>3, <2>1, <3>1, <3>2
  <2>2. CASE l > a
    <3>1. H[l] = n
      BY <1>3, <2>2
    <3>2. H[k] \in 1 .. n
      BY <1>5
    <3> QED BY <3>1, <3>2
  <2> QED BY <1>3, <2>1, <2>2
<1>7. ASSUME NEW k \in 1 .. a + b PROVE \E C \in SUBSET OfGroup(F, H[k]) : Made(w[k], C)
  <2>1. CASE k \in 1 .. a
    <3>1. \E C \in SUBSET OfGroup(F, G[k]) : Made(mm[k], C)
      BY <2>1 DEF Placed, a
    <3> QED BY <1>2, <1>3, <2>1, <3>1
  <2>2. CASE k > a
    <3>1. w[k] \in ToSet(q) /\ H[k] = n
      BY <1>1, <1>2, <1>3, <2>2 DEF ToSet
    <3> QED BY <3>1 DEF Makes
  <2> QED BY <1>3, <2>1, <2>2
<1>8. ASSUME NEW m \in 1 .. n, NEW x \in OfGroup(F, m)
      PROVE  \E k \in 1 .. a + b : \E C : x \in C /\ Made(w[k], C)
  <2>1. CASE m \in 1 .. n - 1
    <3>1. PICK k \in 1 .. a : \E C : x \in C /\ Made(mm[k], C)
      BY <2>1 DEF Placed, a
    <3>2. k \in 1 .. a + b /\ w[k] = mm[k]
      BY <1>2, <1>3
    <3> QED BY <3>1, <3>2
  <2>2. CASE m = n
    <3>1. PICK y \in ToSet(q) : \E C : x \in C /\ Made(y, C)
      BY <2>2 DEF Makes
    <3>2. PICK k \in 1 .. b : y = q[k]
      BY <1>1, Zenon DEF ToSet
    <3>3. k + a \in 1 .. a + b /\ w[k + a] = y
      BY <1>2, <1>3, <3>2
    <3> QED BY <3>1, <3>3
  <2> QED BY <1>4, <2>1, <2>2
<1>9. ASSUME NEW k \in 1 .. a + b, NEW l \in 1 .. a + b, k # l, H[k] = H[l], w[k].addr = w[l].addr
      PROVE  Compatible(w[k], w[l])
  <2>1. CASE k \in 1 .. a /\ l \in 1 .. a
    <3>1. G[k] = G[l] /\ w[k] = mm[k] /\ w[l] = mm[l]
      BY <1>2, <1>3, <1>9, <2>1
    <3> QED BY <1>9, <2>1, <3>1 DEF Placed, a
  <2>2. CASE k > a /\ l > a
    <3>1. k - a \in 1 .. b /\ l - a \in 1 .. b /\ w[k] = q[k - a] /\ w[l] = q[l - a]
      BY <1>2, <2>2
    <3>2. k - a # l - a
      BY <1>1, <1>9
    <3> QED BY <1>9, <3>1, <3>2 DEF Once, b
  <2>3. (k \in 1 .. a /\ l > a) \/ (k > a /\ l \in 1 .. a) => H[k] # H[l]
    <3>1. \A j \in 1 .. a : H[j] # n
      BY <1>3, <1>4
    <3>2. \A j \in 1 .. a + b : j > a => H[j] = n
      BY <1>3
    <3> QED BY <3>1, <3>2
  <2> QED BY <1>3, <1>9, <2>1, <2>2, <2>3
<1>10. Placed(F, w, n, H)
  BY <1>2, <1>5, <1>6, <1>7, <1>8, <1>9, Zenon DEF Placed
<1> QED BY <1>10 DEF w

\* So all groups of a call are.
LEMMA GroupsPlaced ==
  ASSUME NEW call \in Seq(Arguments), args = Opened(call)
  PROVE  \E G : Placed(FlattenedActions(call), MergedOf(Steps(call)), NGroups, G)
<1> DEFINE F == FlattenedActions(call)
           Ends(o, m) == \E G : Placed(F, MergedOf(o), m, G)
           T == {p \in Seq(Seq(IndexedActions)) \X (0 .. NGroups) : Ends(p[1], p[2])}
<1>1. NGroups \in Nat
  <2>1. args \in Seq(Elements)
    BY ElementsAlike
  <2> QED BY <2>1, GroupCount
<1>2. <<<<>>, 0>> \in T
  <2>1. Placed(F, <<>>, 0, <<>>)
    BY DEF Placed
  <2>2. Ends(<<>>, 0)
    BY <2>1, NothingMerged
  <2>3. <<>> \in Seq(Seq(IndexedActions)) /\ 0 \in 0 .. NGroups
    BY <1>1
  <2> HIDE DEF Ends
  <2> QED BY <2>2, <2>3
<1>3. \A out \in Seq(Seq(IndexedActions)) : \A cur \in Seq(IndexedActions) : \A m \in 1 .. NGroups :
        <<out, m - 1>> \in T /\ ToSet(cur) = OfGroup(F, m) => <<EndGroup(out, cur), m>> \in T
  <2> SUFFICES ASSUME NEW out \in Seq(Seq(IndexedActions)), NEW cur \in Seq(IndexedActions), NEW m \in 1 .. NGroups,
                      <<out, m - 1>> \in T, ToSet(cur) = OfGroup(F, m)
               PROVE  <<EndGroup(out, cur), m>> \in T
    OBVIOUS
  <2>1. EndGroup(out, cur) \in Seq(Seq(IndexedActions)) /\ m \in 0 .. NGroups /\ m \in Nat \ {0}
    BY <1>1 DEF EndGroup
  <2>2. Ends(out, m - 1)
    OBVIOUS
  <2> HIDE DEF T
  <2>3. PICK G : Placed(F, MergedOf(out), m - 1, G)
    BY <2>2
  <2>4. MergedOf(out) \in Seq(MergedActions) /\ MergedOf(Append(out, cur)) = MergedOf(out) \o MergeRegisterActions(cur)
    BY MergedOfMore
  <2> DEFINE q == MergeRegisterActions(cur)
  <2>5. q \in Seq(MergedActions) /\ Once(q) /\ Makes(ToSet(q), OfGroup(F, m))
    BY GroupMerges
  <2> HIDE DEF F
  <2>6. Ends(EndGroup(out, cur), m)
    <3>1. CASE cur # <<>>
      <4>1. \E H : Placed(F, MergedOf(out) \o q, m, H)
        <5> HIDE DEF q
        <5> QED BY <2>1, <2>3, <2>4, <2>5, PlacedMore
      <4> QED BY <2>4, <3>1, <4>1 DEF EndGroup
    <3>2. CASE cur = <<>>
      <4>1. OfGroup(F, m) = {}
        BY <3>2, NothingIn
      <4>2. MergedOf(EndGroup(out, cur)) = MergedOf(out)
        BY <3>2 DEF EndGroup
      <4> DEFINE mm == MergedOf(out)
      <4>3. Placed(F, mm, m - 1, G)
        BY <2>3
      <4> HIDE DEF mm
      <4>4. 1 .. m - 1 \subseteq 1 .. m /\ \A j \in 1 .. m : j = m \/ j \in 1 .. m - 1
        BY <2>1
      <4>5. Placed(F, mm, m, G)
        BY <4>1, <4>3, <4>4 DEF Placed
      <4> QED BY <4>2, <4>5 DEF mm
    <3> QED BY <3>1, <3>2
  <2> HIDE DEF Ends
  <2> QED BY <2>1, <2>6 DEF T
<1>4. <<Steps(call), NGroups>> \in T
  <2> HIDE DEF T
  <2> QED BY <1>2, <1>3, GroupInduction
<1> QED BY <1>4

\* p accesses the registers group by group: to read or to write one if an argument of the
\* group does, all that any reads, and writes one twice only if a xor is among the writes
\* of the group and something else.
Ordered(p, G) ==
  /\ G \in [1 .. Len(p) -> 1 .. NGroups]
  /\ \A k, l \in 1 .. Len(p) : k <= l => G[k] <= G[l]
  /\ \A k \in 1 .. Len(p) :
       /\ p[k].kind = "read" => Readers(G[k], p[k].addr) # {}
       /\ p[k].kind # "read" => WritesTo(G[k], p[k].addr) # {}
  /\ \A k, l \in 1 .. Len(p) :
       k # l /\ G[k] = G[l] /\ p[k].addr = p[l].addr /\ p[k].kind # "read" /\ p[l].kind # "read"
         => \E a, c \in WritesTo(G[k], p[k].addr) : a.kind = "xor" /\ c.kind # "xor"
  /\ \A n \in 1 .. NGroups : \A r \in Regs :
       Readers(n, r) # {} => \E k \in 1 .. Len(p) : p[k].kind = "read" /\ p[k].addr = r

\* What a call compiles to.
LEMMA InOrderOfGroups ==
  ASSUME NEW call \in Seq(Arguments), args = Opened(call)
  PROVE  \E G : Ordered(Compile(call), G)
<1> DEFINE F  == FlattenedActions(call)
           mm == MergedOf(Steps(call))
           p  == Compile(call)
<1>1. PICK G : Placed(F, mm, NGroups, G)
  BY GroupsPlaced
<1>2. NGroups \in Nat
  <2>1. args \in Seq(Elements)
    BY ElementsAlike
  <2> QED BY <2>1, GroupCount
<1>3. mm \in Seq(MergedActions)
  <2>1. Steps(call) \in Seq(Seq(IndexedActions))
    BY GroupsOf
  <2>2. <<>> \in Seq(IndexedActions)
    OBVIOUS
  <2> QED BY <2>1, <2>2, MergedOfMore
<1>4. Len(mm) \in Nat /\ DOMAIN mm = 1 .. Len(mm) /\ \A k \in 1 .. Len(mm) : mm[k] \in MergedActions
  BY <1>3, ListFacts, Zenon
<1>5. Len(p) = Len(mm) /\ \A k \in 1 .. Len(mm) : p[k].kind = mm[k].kind /\ p[k].addr = mm[k].addr
  <2> DEFINE W(m) == WithInput(m, InputValues(call))
  <2>1. p = [k \in DOMAIN mm |-> W(mm[k])]
    BY CompiledAs, Zenon DEF Withs
  <2>2. \A m : W(m).kind = m.kind /\ W(m).addr = m.addr
    BY DEF WithInput
  <2> HIDE DEF W, mm, p
  <2>3. Len(p) = Len(mm) /\ \A k \in 1 .. Len(mm) : p[k] = W(mm[k])
    BY <1>4, <2>1
  <2> QED BY <2>2, <2>3
<1> HIDE DEF F, mm, p
<1>6. ASSUME NEW m \in 1 .. NGroups, NEW x \in OfGroup(F, m)
      PROVE  \E a \in Group(m) : a.kind = x.kind /\ a.addr = x.addr
  <2>1. m \in Nat
    BY <1>2
  <2>2. PICK a \in Group(m) : <<x, a>> \in Stands(call)
    BY <2>1, GroupStands DEF F
  <2>3. a # SequencePoint
    BY <2>1, GroupStands, ApplyAssumption
  <2> QED BY <2>2, <2>3 DEF Stands
<1>7. ASSUME NEW m \in 1 .. NGroups, NEW a \in Group(m)
      PROVE  \E x \in OfGroup(F, m) : a.kind = x.kind /\ a.addr = x.addr
  <2>1. m \in Nat
    BY <1>2
  <2>2. PICK x \in OfGroup(F, m) : <<x, a>> \in Stands(call)
    BY <2>1, GroupStands DEF F
  <2>3. a # SequencePoint
    BY <2>1, GroupStands, ApplyAssumption
  <2> QED BY <2>2, <2>3 DEF Stands
<1>8. G \in [1 .. Len(p) -> 1 .. NGroups] /\ \A k, l \in 1 .. Len(p) : k <= l => G[k] <= G[l]
  BY <1>1, <1>5 DEF Placed
<1>9. ASSUME NEW k \in 1 .. Len(p)
      PROVE  /\ p[k].kind = "read" => Readers(G[k], p[k].addr) # {}
             /\ p[k].kind # "read" => WritesTo(G[k], p[k].addr) # {}
             /\ p[k].kind = "xor" => \E a \in WritesTo(G[k], p[k].addr) : a.kind = "xor"
             /\ p[k].kind = "literal" => \E c \in WritesTo(G[k], p[k].addr) : c.kind # "xor"
  <2>1. G[k] \in 1 .. NGroups
    BY <1>8
  <2>2. PICK C \in SUBSET OfGroup(F, G[k]) : Made(mm[k], C)
    BY <1>1, <1>5 DEF Placed
  <2>3. PICK x \in C : TRUE
    BY <2>2 DEF Made
  <2>4. PICK a \in Group(G[k]) : a.kind = x.kind /\ a.addr = x.addr
    BY <1>6, <2>1, <2>3
  <2>5. /\ a.addr = p[k].addr /\ (a.kind = "read" <=> p[k].kind = "read")
        /\ p[k].kind = "xor" => a.kind = "xor"
        /\ p[k].kind = "literal" => a.kind = "literal"
    BY <1>5, <2>2, <2>3, <2>4 DEF Made
  <2>6. IF p[k].kind = "read" THEN a \in Readers(G[k], p[k].addr) ELSE a \in WritesTo(G[k], p[k].addr)
    BY <2>4, <2>5 DEF Readers, WritesTo
  <2> QED BY <2>5, <2>6
<1>10. ASSUME NEW k \in 1 .. Len(p), NEW l \in 1 .. Len(p), k # l, G[k] = G[l], p[k].addr = p[l].addr,
              p[k].kind # "read", p[l].kind # "read"
       PROVE  \E a, c \in WritesTo(G[k], p[k].addr) : a.kind = "xor" /\ c.kind # "xor"
  <2>1. Compatible(mm[k], mm[l])
    BY <1>1, <1>5, <1>10 DEF Placed
  <2>2. {p[k].kind, p[l].kind} = {"literal", "xor"}
    BY <1>5, <1>10, <2>1 DEF Compatible
  <2>3. (p[k].kind = "literal" /\ p[l].kind = "xor") \/ (p[k].kind = "xor" /\ p[l].kind = "literal")
    BY <2>2
  <2> QED BY <1>9, <1>10, <2>3
<1>11. ASSUME NEW n \in 1 .. NGroups, NEW r \in Regs, Readers(n, r) # {}
       PROVE  \E k \in 1 .. Len(p) : p[k].kind = "read" /\ p[k].addr = r
  <2>1. PICK a \in Group(n) : a.kind = "read" /\ a.addr = r
    BY <1>11 DEF Readers
  <2>2. PICK x \in OfGroup(F, n) : x.kind = "read" /\ x.addr = r
    BY <1>7, <2>1
  <2>3. PICK k \in 1 .. Len(mm) : \E C : x \in C /\ Made(mm[k], C)
    BY <1>1 DEF Placed
  <2>4. mm[k].kind = "read" /\ mm[k].addr = r
    BY <2>2, <2>3 DEF Made
  <2> QED BY <1>5, <2>4
<1>12. Ordered(p, G)
  BY <1>8, <1>9, <1>10, <1>11, Zenon DEF Ordered
<1> QED BY <1>12 DEF p
-----------------------------------------------------------------------------
\* What is left to execute is the end of what a call compiles to.
Underway(call, k) ==
  LET p == Compile(call)
  IN  /\ args = Opened(call) /\ k \in 0 .. Len(p) /\ Len(todo) = Len(p) - k
      /\ \A j \in 1 .. Len(todo) : todo[j] = p[k + j]

\* The registers are where the actions taken so far bring them, but for the flags.
Reached(call, k) ==
  \A V : Effects(V, before, Compile(call)) =>
    \A r \in Regs : \A b \in Settled(r) : b \in regs[r] <=> b \in V[k][r]

\* What apply returns of the bits that only it writes: what one of these accesses left there.
Returned(call, k) ==
  LET p == Compile(call)
  IN  /\ reads = {p[i].addr : i \in {j \in DOMAIN p : p[j].kind = "read"}}
      /\ \A V : Effects(V, before, p) =>
           \A r \in Regs : \A b \in Plain(r) :
             b \in ret[r] <=> r \in reads /\ \E j \in 1 .. k : p[j].addr = r /\ b \in V[j][r]

\* The inductive invariant: a call under way executes what it compiles to, has come to
\* some action of it and brought the registers to where the actions before that do.
Called ==
  /\ pc = "idle" => \A r \in Regs : ret[r] = {}
  /\ pc # "idle" => /\ before \in States
                    /\ \E call \in Calls, k \in Nat : Underway(call, k) /\ Reached(call, k) /\ Returned(call, k)

\* The next action to execute is the next one the call compiles to.
LEMMA Executed ==
  ASSUME TypeOK, todo # <<>>, NEW call \in Calls, NEW k \in Nat, Underway(call, k)
  PROVE  /\ k + 1 \in 1 .. Len(Compile(call)) /\ Compile(call)[k + 1] = Head(todo)
         /\ Head(todo) = todo[1] /\ Len(todo) \in Nat /\ Len(todo) # 0
         /\ todo' = Tail(todo) /\ args' = args => Underway(call, k + 1)'
<1> DEFINE p == Compile(call)
<1>1. p \in Seq(ActionType) /\ Len(p) \in Nat
  <2>1. p \in Programs
    BY ApplyAssumption
  <2> QED BY <2>1, ProgramsWellFormed DEF WellFormed
<1>2. /\ Len(todo) \in Nat /\ Len(todo) # 0 /\ Head(todo) = todo[1]
      /\ Len(Tail(todo)) = Len(todo) - 1 /\ \A j \in 1 .. Len(todo) - 1 : Tail(todo)[j] = todo[j + 1]
  BY DEF TypeOK
<1>3. k \in 0 .. Len(p) /\ Len(todo) = Len(p) - k /\ \A j \in 1 .. Len(todo) : todo[j] = p[k + j]
  BY DEF Underway
<1> HIDE DEF p
<1>4. k + 1 \in 1 .. Len(p) /\ p[k + 1] = todo[1]
  <2>1. 1 \in 1 .. Len(todo)
    BY <1>2
  <2> QED BY <1>1, <1>2, <1>3, <2>1
<1>5. Len(Tail(todo)) = Len(p) - (k + 1) /\ k + 1 \in 0 .. Len(p)
  BY <1>1, <1>2, <1>3
<1>6. \A j \in 1 .. Len(Tail(todo)) : Tail(todo)[j] = p[(k + 1) + j]
  <2> SUFFICES ASSUME NEW j \in 1 .. Len(Tail(todo)) PROVE Tail(todo)[j] = p[(k + 1) + j]
    OBVIOUS
  <2>1. j + 1 \in 1 .. Len(todo) /\ j \in 1 .. Len(todo) - 1 /\ k + (j + 1) = (k + 1) + j
    BY <1>2
  <2> QED BY <1>2, <1>3, <2>1
<1>7. ASSUME todo' = Tail(todo), args' = args PROVE Underway(call, k + 1)'
  BY <1>5, <1>6, <1>7, Zenon DEF Underway, p
<1> QED BY <1>2, <1>4, <1>7 DEF p

\* A xor clears one-to-toggle bits.
LEMMA TogglesOnly ==
  ASSUME NEW call \in Seq(Arguments), NEW i \in 1 .. Len(Compile(call)), Compile(call)[i].kind = "xor",
         NEW b \in Compile(call)[i].mask
  PROVE  Kind[Compile(call)[i].addr][b] = "oneToToggle"
<1> DEFINE a == Compile(call)[i]
<1>1. PICK g \in ToSet(Steps(call)) : \E m \in ToSet(MergeRegisterActions(g)) : a = WithInput(m, InputValues(call))
  BY CompiledFrom
<1>2. PICK m \in ToSet(MergeRegisterActions(g)) : a = WithInput(m, InputValues(call))
  BY <1>1
<1>3. a.kind = m.kind /\ a.addr = m.addr /\ a.mask = m.mask
  BY <1>2 DEF WithInput
<1>4. m.kind = "xor" /\ b \in m.mask
  BY <1>3
<1> HIDE DEF a
<1>5. g \in Seq(IndexedActions)
  BY GroupsOf
<1>6. PICK C \in SUBSET ToSet(g) : Made(m, C)
  BY <1>5, GroupMerges DEF Makes
<1>7. PICK x \in C : b \in x.mask
  BY <1>4, <1>6 DEF Made
<1>8. x \in ToSet(g) /\ x.addr = m.addr /\ x.kind = "xor"
  BY <1>4, <1>6, <1>7 DEF Made
<1>9. PICK k \in 1 .. Len(FlattenedActions(call)) : FlattenedActions(call)[k] = x /\ x # SequencePoint
  BY <1>8, InGroups
<1> DEFINE c == Opened(call)[k]
<1>10. <<x, c>> \in Stands(call)
  BY <1>9, ElementsAlike DEF Alike
<1> HIDE DEF c
<1>11. c \in Actions /\ c.kind = "xor" /\ c.addr = m.addr /\ b \in c.mask
  <2>1. c \in Elements /\ c # SequencePoint
    BY <1>9, <1>10 DEF Stands
  <2> QED BY <1>7, <1>8, <1>10, <2>1 DEF Stands, Elements
<1>12. Kind[c.addr][b] = "oneToToggle"
  BY <1>11 DEF Actions
<1> QED BY <1>3, <1>11, <1>12 DEF a

\* A store does what its action means, whether its register was loaded or not.
LEMMA StoreMeant ==
  ASSUME Inv, todo # <<>>, Store(Head(todo)), NEW r \in Regs, NEW b \in Settled(r),
         Head(todo).kind = "xor" => \A t \in Head(todo).mask : Kind[Head(todo).addr][t] = "oneToToggle"
  PROVE  b \in regs'[r] <=> BitDone(Head(todo), r, b, b \in regs[r])
<1> DEFINE a == Head(todo)
           v == a.lit \cup a.in
           w == Written(a, loaded)
<1>0. TypeOK /\ a \in ActionType /\ b \in Bits
  BY HeadAction DEF Inv, Settled, Plain, Toggles
<1>1. /\ a.addr \in Regs /\ a.mask \in SUBSET Bits /\ v \subseteq Bits /\ loaded \in SUBSET Bits
      /\ regs \in [Regs -> SUBSET Bits]
  BY <1>0 DEF ActionType, TypeOK
<1>2. regs' = [regs EXCEPT ![a.addr] = HwStore(a.addr, regs[a.addr], w)]
  BY DEF Store
<1>3. a.kind # "read"
  <2>1. pc = "next" => a.kind # "read"
    BY DEF Store, Loads
  <2> QED BY <1>0, <2>1 DEF Store, TypeOK
<1>4. CASE ~Does(a, r, b)
  <2>1. r = a.addr => b \notin a.mask
    BY <1>3, <1>4 DEF Does
  <2>2. b \in regs'[r] <=> b \in regs[r]
    BY <1>0, <2>1, StoreFrame
  <2> QED BY <1>4, <2>2, Zenon DEF BitDone
<1>5. CASE Does(a, r, b)
  <2>1. a.addr = r /\ b \in a.mask
    BY <1>5 DEF Does
  <2>2. b \in regs'[r] <=> BitAfter(Kind[r][b], b \in regs[r], b \in w)
    <3>1. regs'[r] = HwStore(r, regs[r], w)
      BY <1>1, <1>2, <2>1
    <3> HIDE DEF w
    <3> QED BY <1>0, <3>1 DEF HwStore
  <2>3. CASE a.kind # "xor"
    <3>1. w = OrWritten(r, a.mask, v, loaded)
      BY <2>1, <2>3 DEF Written
    <3> HIDE DEF w, v
    <3>2. (b \in w) = (b \in v)
      BY <2>1, <3>1 DEF OrWritten
    <3>3. BitDone(a, r, b, b \in regs[r]) <=> BitAfter(Kind[r][b], b \in regs[r], b \in v)
      BY <1>5, <2>1, <2>3, Zenon DEF BitDone, Meant, v
    <3>4. b \in regs'[r] <=> BitDone(a, r, b, b \in regs[r])
      <4> HIDE DEF a
      <4> QED BY <2>2, <3>2, <3>3, Zenon
    <3> QED BY <3>4
  <2>4. CASE a.kind = "xor"
    <3>1. w = XorWritten(r, a.mask, v, loaded)
      BY <2>1, <2>4 DEF Written
    <3>2. b \in loaded <=> b \in regs[r]
      <4>1. pc = "store"
        BY <2>4 DEF Store, Loads
      <4> QED BY <2>1, <4>1 DEF Inv, LoadedFresh
    <3>3. Kind[r][b] = "oneToToggle"
      BY <2>1, <2>4
    <3> HIDE DEF w, v
    <3>4. b \in w <=> ~((b \in loaded) <=> (b \in v))
      BY <2>1, <3>1 DEF XorWritten
    <3>5. b \in regs'[r] <=> ~((b \in regs[r]) <=> (b \in w))
      BY <2>2, <3>3 DEF BitAfter
    <3>6. BitDone(a, r, b, b \in regs[r]) <=> b \in v
      BY <1>5, <2>1, <2>4, Zenon DEF BitDone, Meant, v
    <3>7. b \in regs'[r] <=> b \in v
      BY <3>2, <3>4, <3>5
    <3>8. b \in regs'[r] <=> BitDone(a, r, b, b \in regs[r])
      <4> HIDE DEF a
      <4> QED BY <3>6, <3>7, Zenon
    <3> QED BY <3>8
  <2> QED BY <2>3, <2>4
<1> QED BY <1>4, <1>5

\* A store hands out the value it writes, if apply returns it: of the bits that only it
\* writes, the value they have then.
LEMMA StoreReturns ==
  ASSUME Inv, todo # <<>>, Store(Head(todo)), NEW r \in Regs, NEW b \in Plain(r)
  PROVE  b \in ret'[r] <=> b \in ret[r] \/ (r = Head(todo).addr /\ r \in reads /\ b \in regs'[r])
<1> DEFINE a == Head(todo)
           w == Written(a, loaded)
<1>1. /\ regs' = [regs EXCEPT ![a.addr] = HwStore(a.addr, regs[a.addr], w)]
      /\ ret' = IF a.addr \in reads THEN [ret EXCEPT ![a.addr] = ret[a.addr] \cup w] ELSE ret
  BY DEF Store, filterReturns
<1>2. regs \in [Regs -> SUBSET Bits] /\ ret \in [Regs -> SUBSET Bits]
  BY DEF Inv, TypeOK
<1>3. b \in Bits /\ Kind[r][b] = "normal"
  BY DEF Plain
<1> HIDE DEF a, w
<1>4. CASE r # a.addr
  BY <1>1, <1>2, <1>4 DEF a
<1>5. CASE r = a.addr
  <2>1. regs'[r] = HwStore(r, regs[r], w)
    BY <1>1, <1>2, <1>5
  <2>2. b \in regs'[r] <=> b \in w
    BY <1>3, <2>1 DEF HwStore, BitAfter
  <2>3. b \in ret'[r] <=> b \in ret[r] \/ (r \in reads /\ b \in w)
    BY <1>1, <1>2, <1>5
  <2> QED BY <1>5, <2>2, <2>3 DEF a
<1> QED BY <1>4, <1>5

\* A step takes the next action, or only loads its register.
LEMMA ReachedStep ==
  ASSUME Inv, Step, UNCHANGED <<args, before>>, NEW call \in Calls, NEW k \in Nat, Underway(call, k),
         Reached(call, k), Returned(call, k)
  PROVE  \E l \in Nat : (Underway(call, l) /\ Reached(call, l) /\ Returned(call, l))'
<1> DEFINE a == Head(todo)
           p == Compile(call)
<1>0. todo # <<>> /\ TypeOK
  BY DEF Step, Inv
<1>1. /\ k + 1 \in 1 .. Len(p) /\ p[k + 1] = a
      /\ todo' = Tail(todo) => Underway(call, k + 1)'
  BY <1>0, Executed
<1>2. call \in Seq(Arguments)
  BY ApplyAssumption
<1>3. a.kind = "xor" => \A b \in a.mask : Kind[a.addr][b] = "oneToToggle"
  <2> SUFFICES ASSUME a.kind = "xor", NEW b \in a.mask PROVE Kind[a.addr][b] = "oneToToggle"
    OBVIOUS
  <2>1. p[k + 1].kind = "xor" /\ b \in p[k + 1].mask
    BY <1>1
  <2>2. Kind[p[k + 1].addr][b] = "oneToToggle"
    BY <1>1, <1>2, <2>1, TogglesOnly
  <2> QED BY <1>1, <2>2
<1>4. \A V : \A r \in Regs, b \in Bits : Effects(V, before, p) =>
        (b \in V[k + 1][r] <=> BitDone(a, r, b, b \in V[k][r]))
  <2> SUFFICES ASSUME NEW V, NEW r \in Regs, NEW b \in Bits, Effects(V, before, p)
               PROVE  b \in V[k + 1][r] <=> BitDone(a, r, b, b \in V[k][r])
    OBVIOUS
  <2>1. b \in V[k + 1][r] <=> BitDone(p[k + 1], r, b, b \in V[(k + 1) - 1][r])
    BY <1>1, Zenon DEF Effects
  <2>2. (k + 1) - 1 = k
    OBVIOUS
  <2>3. p[k + 1] = a
    BY <1>1
  <2> HIDE DEF a, p
  <2>4. b \in V[k + 1][r] <=> BitDone(p[k + 1], r, b, b \in V[k][r])
    BY <2>1, <2>2
  <2> QED BY <2>3, <2>4
<1>5. \A r : Settled(r) \subseteq Bits
  BY DEF Settled, Plain, Toggles
<1> HIDE DEF p
<1>6. ASSUME todo' = Tail(todo),
             \A r \in Regs : \A b \in Settled(r) : b \in regs'[r] <=> BitDone(a, r, b, b \in regs[r]),
             reads' = reads,
             \A r \in Regs : \A b \in Plain(r) :
               b \in ret'[r] <=> b \in ret[r] \/ (r = a.addr /\ r \in reads /\ b \in regs'[r])
      PROVE  (Underway(call, k + 1) /\ Reached(call, k + 1) /\ Returned(call, k + 1))'
  <2>1. ASSUME NEW V, Effects(V, before, p), NEW r \in Regs, NEW b \in Settled(r)
        PROVE  b \in regs'[r] <=> b \in V[k + 1][r]
    <3>1. b \in V[k + 1][r] <=> BitDone(a, r, b, b \in V[k][r])
      <4>1. b \in Bits
        BY <1>5
      <4> QED BY <1>4, <2>1, <4>1, Zenon
    <3>2. b \in regs[r] <=> b \in V[k][r]
      BY <2>1, Zenon DEF Reached, p
    <3>3. (b \in regs[r]) = (b \in V[k][r])
      BY <3>2
    <3>4. b \in regs'[r] <=> BitDone(a, r, b, b \in regs[r])
      BY <1>6
    <3> HIDE DEF a
    <3> QED BY <3>1, <3>3, <3>4, Zenon
  <2>2. Reached(call, k + 1)'
    <3>1. before' = before
      OBVIOUS
    <3> QED BY <2>1, <3>1, Zenon DEF Reached, p
  <2>3. Underway(call, k + 1)'
    BY <1>1, <1>6
  <2>4. ASSUME NEW V, Effects(V, before, p), NEW r \in Regs, NEW b \in Plain(r)
        PROVE  b \in ret'[r] <=> r \in reads /\ \E j \in 1 .. k + 1 : p[j].addr = r /\ b \in V[j][r]
    <3>1. b \in ret[r] <=> r \in reads /\ \E j \in 1 .. k : p[j].addr = r /\ b \in V[j][r]
      BY <2>4, Zenon DEF Returned, p
    <3>2. b \in ret'[r] <=> b \in ret[r] \/ (r = a.addr /\ r \in reads /\ b \in regs'[r])
      BY <1>6
    <3>3. b \in regs'[r] <=> b \in V[k + 1][r]
      <4>1. b \in Settled(r)
        BY DEF Settled
      <4> QED BY <2>1, <2>4, <4>1, Zenon
    <3>4. p[k + 1].addr = a.addr
      BY <1>1
    <3>5. \A j : j \in 1 .. k + 1 <=> j \in 1 .. k \/ j = k + 1
      OBVIOUS
    <3> HIDE DEF a
    <3> QED BY <3>1, <3>2, <3>3, <3>4, <3>5, Zenon
  <2>5. Returned(call, k + 1)'
    <3>1. before' = before /\ reads' = reads
      BY <1>6
    <3>2. reads = {p[i].addr : i \in {j \in DOMAIN p : p[j].kind = "read"}}
      BY Zenon DEF Returned, p
    <3>3. \A V : Effects(V, before', p) => \A r \in Regs : \A b \in Plain(r) :
            b \in ret'[r] <=> r \in reads' /\ \E j \in 1 .. k + 1 : p[j].addr = r /\ b \in V[j][r]
      BY <2>4, <3>1, Zenon
    <3>4. reads' = {p[i].addr : i \in {j \in DOMAIN p : p[j].kind = "read"}}
      BY <3>1, <3>2, Zenon
    <3> QED BY <3>3, <3>4, Zenon DEF Returned, p
  <2> QED BY <2>2, <2>3, <2>5
<1>7. CASE Read(a)
  <2>1. todo' = Tail(todo) /\ regs' = regs /\ a.kind = "read"
    BY <1>7 DEF Read
  <2>2. \A r \in Regs : \A b \in Settled(r) : b \in regs'[r] <=> BitDone(a, r, b, b \in regs[r])
    BY <2>1 DEF BitDone, Does
  <2>3. /\ reads' = reads /\ ret \in [Regs -> SUBSET Bits] /\ regs \in [Regs -> SUBSET Bits]
        /\ ret' = IF a.addr \in reads THEN [ret EXCEPT ![a.addr] = ret[a.addr] \cup regs[a.addr]] ELSE ret
    BY <1>0, <1>7 DEF Read, filterReturns, TypeOK
  <2>4. \A r \in Regs : \A b \in Plain(r) :
          b \in ret'[r] <=> b \in ret[r] \/ (r = a.addr /\ r \in reads /\ b \in regs'[r])
    <3> HIDE DEF a
    <3> QED BY <2>1, <2>3
  <2> QED BY <1>6, <2>1, <2>2, <2>3, <2>4
<1>8. CASE Load(a)
  <2>1. UNCHANGED <<todo, regs, reads, ret>>
    BY <1>8 DEF Load
  <2>2. Underway(call, k)' /\ Reached(call, k)'
    BY <2>1 DEF Underway, Reached
  <2>3. Returned(call, k)'
    BY <2>1 DEF Returned
  <2> QED BY <2>2, <2>3
<1>9. CASE Store(a)
  <2>1. todo' = Tail(todo) /\ reads' = reads
    BY <1>9 DEF Store
  <2>2. \A r \in Regs : \A b \in Settled(r) : b \in regs'[r] <=> BitDone(a, r, b, b \in regs[r])
    BY <1>0, <1>3, <1>9, StoreMeant
  <2>3. \A r \in Regs : \A b \in Plain(r) :
          b \in ret'[r] <=> b \in ret[r] \/ (r = a.addr /\ r \in reads /\ b \in regs'[r])
    BY <1>0, <1>9, StoreReturns
  <2> QED BY <1>6, <2>1, <2>2, <2>3
<1> QED BY <1>7, <1>8, <1>9 DEF Step

\* A call stays the call it was.
LEMMA CalledStep == Inv /\ Called /\ [Next]_vars => Called'
<1> SUFFICES ASSUME Inv, Called, [Next]_vars PROVE Called'
  OBVIOUS
<1>1. ASSUME NEW call \in Calls, apply(call) PROVE Called'
  <2> DEFINE p == Compile(call)
  <2>1. p \in Seq(ActionType) /\ Len(p) \in Nat
    <3>1. p \in Programs
      BY ApplyAssumption
    <3> QED BY <3>1, ProgramsWellFormed DEF WellFormed
  <2>2. /\ todo' = p /\ args' = Opened(call) /\ before' = regs /\ regs' = regs /\ ret' = ret
        /\ reads' = {p[i].addr : i \in {j \in DOMAIN p : p[j].kind = "read"}} /\ pc = "idle" /\ pc' # "idle"
    BY <1>1 DEF apply, Start, After
  <2> HIDE DEF p
  <2>3. Len(p) = Len(p) - 0 /\ 0 \in 0 .. Len(p) /\ 0 \in Nat /\ \A j \in 1 .. Len(p) : 0 + j = j
    BY <2>1
  <2>4. Underway(call, 0)'
    BY <2>2, <2>3 DEF Underway, p
  <2>5. Reached(call, 0)'
    BY <2>2 DEF Reached, Effects
  <2>6. (before \in States)'
    BY <2>2 DEF Inv, TypeOK, States
  <2>7. Returned(call, 0)'
    <3>1. \A r \in Regs : ret'[r] = {}
      BY <2>2 DEF Called
    <3>2. \A j : j \notin 1 .. 0
      OBVIOUS
    <3> QED BY <2>2, <3>1, <3>2, Zenon DEF Returned, p
  <2> QED BY <2>2, <2>3, <2>4, <2>5, <2>6, <2>7 DEF Called
<1>2. CASE UNCHANGED vars
  <2>1. UNCHANGED <<pc, todo, regs, reads, ret, args, before>>
    BY <1>2 DEF vars, execVars
  <2>2. CASE pc = "idle"
    BY <2>1, <2>2 DEF Called
  <2>3. CASE pc # "idle"
    <3>1. PICK call \in Calls, k \in Nat : Underway(call, k) /\ Reached(call, k) /\ Returned(call, k)
      BY <2>3 DEF Called
    <3>2. Underway(call, k)' /\ Reached(call, k)'
      BY <2>1, <3>1 DEF Underway, Reached
    <3>3. Returned(call, k)'
      BY <2>1, <3>1 DEF Returned
    <3> QED BY <2>1, <2>3, <3>2, <3>3 DEF Called
  <2> QED BY <2>2, <2>3
<1>3. CASE Execute
  <2>1. Step /\ UNCHANGED <<args, before>>
    BY <1>3 DEF Execute
  <2>2. pc # "idle"
    BY <2>1 DEF Step, Inv, TypeOK
  <2>3. before \in States
    BY <2>2 DEF Called
  <2>4. PICK call \in Calls : \E k \in Nat : Underway(call, k) /\ Reached(call, k) /\ Returned(call, k)
    BY <2>2 DEF Called
  <2>5. PICK k \in Nat : Underway(call, k) /\ Reached(call, k) /\ Returned(call, k)
    BY <2>4
  <2>6. PICK l \in Nat : (Underway(call, l) /\ Reached(call, l) /\ Returned(call, l))'
    BY <2>1, <2>5, ReachedStep
  <2>7. pc' # "idle"
    BY <2>1 DEF Step, Read, Load, Store, After
  <2> QED BY <2>1, <2>3, <2>6, <2>7 DEF Called
<1>4. CASE Interfere
  <2>1. UNCHANGED <<pc, todo, args, before, reads, ret>> /\ Hardware /\ pc # "idle"
    BY <1>4 DEF Interfere, Hardware
  <2>2. \A r \in Regs : \A b \in Settled(r) : b \in regs'[r] <=> b \in regs[r]
    <3>1. PICK s \in Regs : \E b \in Events(s) : regs' = [regs EXCEPT ![s] = (@ \ {b}) \cup ({b} \ @)]
      BY <2>1 DEF Hardware
    <3>2. PICK e \in Events(s) : regs' = [regs EXCEPT ![s] = (@ \ {e}) \cup ({e} \ @)]
      BY <3>1
    <3>3. e \notin Settled(s) /\ regs \in [Regs -> SUBSET Bits]
      BY <3>2 DEF Events, Settled, Inv, TypeOK
    <3> QED BY <3>2, <3>3
  <2>3. before \in States
    BY <2>1 DEF Called
  <2>4. PICK call \in Calls : \E k \in Nat : Underway(call, k) /\ Reached(call, k) /\ Returned(call, k)
    BY <2>1 DEF Called
  <2>5. PICK k \in Nat : Underway(call, k) /\ Reached(call, k) /\ Returned(call, k)
    BY <2>4
  <2>6. Underway(call, k)'
    BY <2>1, <2>5 DEF Underway
  <2>7. Reached(call, k)'
    <3>1. \A V : Effects(V, before, Compile(call)) => \A r \in Regs : \A b \in Settled(r) : b \in regs[r] <=> b \in V[k][r]
      BY <2>5, Zenon DEF Reached
    <3>2. \A V : Effects(V, before, Compile(call)) => \A r \in Regs : \A b \in Settled(r) : b \in regs'[r] <=> b \in V[k][r]
      BY <2>2, <3>1, Zenon
    <3> QED BY <2>1, <3>2, Zenon DEF Reached
  <2>8. Returned(call, k)'
    BY <2>1, <2>5 DEF Returned
  <2> QED BY <2>1, <2>3, <2>6, <2>7, <2>8 DEF Called
<1> QED BY <1>1, <1>2, <1>3, <1>4 DEF Next

\* So it stays from the first call on.
LEMMA CalledInvariance == Spec => []Called
<1>1. Init => Called
  BY DEF Init, ExecInit, Called
<1> QED BY <1>1, CalledStep, Invariance, PTL DEF Spec

\* Whatever is passed in whatever order, a group accesses a register by one read and one
\* write at most, unless a toggle bit is cleared beside values known at compile time.
THEOREM MergedToOne == Spec => []MergedOnce
<1>1. Called => MergedOnce
  <2> SUFFICES ASSUME Called, pc # "idle", NEW g \in ToSet(Steps(args)), NEW p, p = MergeRegisterActions(g),
                      NEW i \in DOMAIN p, NEW j \in DOMAIN p, i # j, p[i].addr = p[j].addr
               PROVE  Compatible(p[i], p[j])
    BY DEF MergedOnce, Compatible
  <2>1. PICK call \in Calls : args = Opened(call)
    BY DEF Called, Underway
  <2>2. call \in Seq(Arguments)
    BY ApplyAssumption
  <2>3. args \in Seq(Elements)
    BY <2>1, <2>2, ElementsAlike
  <2>4. args \in Seq(Arguments)
    <3>1. Elements \subseteq Arguments
      BY DEF Elements, Arguments
    <3>2. Len(args) \in Nat /\ DOMAIN args = 1 .. Len(args) /\ \A k \in 1 .. Len(args) : args[k] \in Elements
      BY <2>3, ListFacts, Zenon
    <3> QED BY <2>3, <3>1, <3>2
  <2>5. g \in Seq(IndexedActions)
    BY <2>4, GroupsOf
  <2>6. p \in Seq(MergedActions) /\ Once(p)
    BY <2>5, GroupMerges
  <2>7. DOMAIN p = 1 .. Len(p)
    BY <2>6
  <2> QED BY <2>6, <2>7 DEF Once
<1> QED BY <1>1, CalledInvariance, PTL

\* A status flag or a toggle bit that a store of the call changes is one of the fields
\* that an argument of the call writes: none is cleared on the side.
THEOREM OnPurpose == Spec => FlagsOnlyOnPurpose
<1>1. ASSUME Inv, Called, Execute, NEW r \in Regs, NEW b \in Bits \ Plain(r), ~((b \in regs'[r]) <=> (b \in regs[r]))
      PROVE  \E n \in 1 .. NGroups : Writers(n, r, b) # {}
  <2> DEFINE a == Head(todo)
  <2>0. todo # <<>> /\ TypeOK /\ pc # "idle"
    BY <1>1 DEF Execute, Step, Inv, TypeOK
  <2>1. Store(a)
    <3>1. Read(a) \/ Load(a) => regs' = regs
      BY DEF Read, Load
    <3> QED BY <1>1, <3>1 DEF Execute, Step
  <2>2. r = a.addr /\ b \in a.mask
    BY <1>1, <2>0, <2>1, StoreFrame
  <2>3. a.kind # "read"
    <3>1. pc = "next" => a.kind # "read"
      BY <2>1 DEF Store, Loads
    <3> QED BY <2>0, <2>1, <3>1 DEF Store, TypeOK
  <2>4. PICK call \in Calls : \E k \in Nat : Underway(call, k)
    BY <1>1, <2>0 DEF Called
  <2>5. PICK k \in Nat : Underway(call, k)
    BY <2>4
  <2>6. call \in Seq(Arguments) /\ args = Opened(call) /\ k + 1 \in 1 .. Len(Compile(call)) /\ Compile(call)[k + 1] = a
    BY <2>0, <2>5, Executed, ApplyAssumption DEF Underway
  <2> HIDE DEF a
  <2>7. PICK g \in ToSet(Steps(call)) : \E m \in ToSet(MergeRegisterActions(g)) : a = WithInput(m, InputValues(call))
    BY <2>6, CompiledFrom
  <2>8. PICK m \in ToSet(MergeRegisterActions(g)) : a = WithInput(m, InputValues(call))
    BY <2>7
  <2>9. a.kind = m.kind /\ a.addr = m.addr /\ a.mask = m.mask
    BY <2>8 DEF WithInput
  <2>10. g \in Seq(IndexedActions)
    BY <2>6, GroupsOf
  <2>11. PICK C \in SUBSET ToSet(g) : Made(m, C)
    BY <2>10, GroupMerges DEF Makes
  <2>12. PICK x \in C : b \in x.mask
    BY <2>2, <2>9, <2>11 DEF Made
  <2>13. x \in ToSet(g) /\ x.addr = r /\ x.kind # "read"
    BY <2>2, <2>3, <2>9, <2>11, <2>12 DEF Made
  <2>14. PICK i \in 1 .. Len(FlattenedActions(call)) : FlattenedActions(call)[i] = x /\ x # SequencePoint
    BY <2>6, <2>13, InGroups
  <2>15. args \in Seq(Elements) /\ i \in 1 .. Len(args) /\ <<x, args[i]>> \in Stands(call)
    BY <2>6, <2>14, ElementsAlike DEF Alike
  <2>16. args[i] # SequencePoint /\ args[i].addr = r /\ args[i].kind # "read" /\ b \in args[i].mask
    BY <2>12, <2>13, <2>14, <2>15 DEF Stands
  <2>17. PointsBefore(i) + 1 \in 1 .. NGroups /\ args[i] \in Group(PointsBefore(i) + 1)
    BY <2>15, <2>16, InOneGroup
  <2>18. args[i] \in Writers(PointsBefore(i) + 1, r, b)
    BY <2>16, <2>17 DEF Writers
  <2> QED BY <2>17, <2>18
<1>2. Inv /\ Called => [Execute => \A r \in Regs : \A b \in Bits \ Plain(r) :
        (b \in regs'[r]) # (b \in regs[r]) => \E n \in 1 .. NGroups : Writers(n, r, b) # {}]_vars
  <2> SUFFICES ASSUME Inv, Called, Execute, NEW r \in Regs, NEW b \in Bits \ Plain(r),
                      (b \in regs'[r]) # (b \in regs[r])
               PROVE  \E n \in 1 .. NGroups : Writers(n, r, b) # {}
    OBVIOUS
  <2>1. ~((b \in regs'[r]) <=> (b \in regs[r]))
    OBVIOUS
  <2> QED BY <1>1, <2>1, Zenon
<1> QED BY <1>2, Invariance, CalledInvariance, PTL DEF FlagsOnlyOnPurpose

\* Once apply returns, the registers are where the arguments, group by group, bring them,
\* for every call in which no two arguments of a group write the same bit and no toggle
\* bit is cleared beside a runtime write.
THEOREM Applied ==
  ASSUME \A call \in Calls : Sensible(call) /\ ~MixesToggle(call)
  PROVE  Spec => []AppliedCorrectly
<1>1. Inv /\ Called => AppliedCorrectly
  <2> SUFFICES ASSUME Inv, Called, pc = "done", NEW r \in Regs
               PROVE  regs[r] \ Events(r) = AfterGroups(NGroups)[r] \ Events(r)
    BY DEF AppliedCorrectly
  <2>1. before \in States
    BY DEF Called
  <2>2. PICK call \in Calls : \E k \in Nat : Underway(call, k) /\ Reached(call, k) /\ Returned(call, k)
    BY DEF Called
  <2>3. PICK k \in Nat : Underway(call, k) /\ Reached(call, k) /\ Returned(call, k)
    BY <2>2
  <2>4. call \in Seq(Arguments) /\ args = Opened(call)
    BY <2>3, ApplyAssumption DEF Underway
  <2>5. \A g \in ToSet(Steps(call)) : Good(g)
    <3>1. Sensible(call) /\ ~MixesToggle(call)
      OBVIOUS
    <3> QED BY <3>1, Zenon DEF Sensible, MixesToggle, Good
  <2>6. Brings(before, Compile(call), AfterGroups(NGroups))
    BY <2>1, <2>4, <2>5, CompileBrings
  <2>7. PICK V : Effects(V, before, Compile(call)) /\ V[Len(Compile(call))] = AfterGroups(NGroups)
    BY <2>6, Zenon DEF Brings
  <2>8. k = Len(Compile(call))
    <3>1. todo = <<>>
      BY DEF Inv, TypeOK
    <3>2. Len(todo) = 0 /\ k \in 0 .. Len(Compile(call)) /\ Len(todo) = Len(Compile(call)) - k
      BY <2>3, <3>1 DEF Underway
    <3>3. Len(Compile(call)) \in Nat
      BY <2>4, Compiled
    <3> QED BY <3>2, <3>3
  <2>9. \A b \in Settled(r) : b \in regs[r] <=> b \in AfterGroups(NGroups)[r]
    BY <2>3, <2>7, <2>8, Zenon DEF Reached
  <2>10. AfterGroups(NGroups)[r] \subseteq Bits /\ regs[r] \subseteq Bits
    <3>1. V \in [0 .. Len(Compile(call)) -> States] /\ Len(Compile(call)) \in 0 .. Len(Compile(call))
      <4>1. Len(Compile(call)) \in Nat
        BY <2>4, Compiled
      <4> QED BY <2>7, <4>1 DEF Effects
    <3>2. AfterGroups(NGroups) \in States
      BY <2>7, <3>1
    <3> QED BY <3>2 DEF States, Inv, TypeOK
  <2>11. Bits \ Events(r) = Settled(r)
    BY DEF Events, Settled, Plain, Toggles
  <2> QED BY <2>9, <2>10, <2>11
<1> QED BY <1>1, CalledInvariance, Invariance, PTL

\* What the fields of a register are read after: one group at most that writes it before
\* the one that reads it, with writes that merge.
ReadAfter(n, r) ==
  /\ ReadOnlyIn(n, r)
  /\ \A k \in n .. NGroups : WritesTo(k, r) = {}
  /\ \A j, k \in 1 .. n - 1 : \A a \in WritesTo(j, r), c \in WritesTo(k, r) :
       j = k /\ (a.kind = "xor" <=> c.kind = "xor")

\* Then nothing is written to the register after an access to it.
LEMMA NotWrittenAfter ==
  ASSUME NGroups \in Nat, NEW n \in 1 .. NGroups, NEW r \in Regs, ReadAfter(n, r), NEW p, Len(p) \in Nat,
         NEW G, Ordered(p, G), NEW i \in 1 .. Len(p), NEW j \in 1 .. Len(p),
         p[i].addr = r, p[j].addr = r, p[i].kind # "read"
  PROVE  i <= j
<1>1. G[i] \in 1 .. NGroups /\ G[j] \in 1 .. NGroups /\ WritesTo(G[i], r) # {}
  BY DEF Ordered
<1>2. \A m \in 1 .. NGroups : m \in n .. NGroups \/ m \in 1 .. n - 1
  OBVIOUS
<1>3. G[i] \in 1 .. n - 1
  BY <1>1, <1>2 DEF ReadAfter
<1>4. CASE p[j].kind = "read"
  <2>1. Readers(G[j], r) # {}
    BY <1>4 DEF Ordered
  <2>2. G[j] = n
    BY <1>1, <2>1 DEF ReadAfter, ReadOnlyIn
  <2>3. ~(j <= i)
    <3>1. j <= i => G[j] <= G[i]
      BY DEF Ordered
    <3> QED BY <1>3, <2>2, <3>1
  <2> QED BY <2>3
<1>5. CASE p[j].kind # "read"
  <2>1. WritesTo(G[j], r) # {}
    BY <1>5 DEF Ordered
  <2>2. G[j] \in 1 .. n - 1
    BY <1>1, <1>2, <2>1 DEF ReadAfter
  <2>3. G[i] = G[j]
    <3>1. PICK a \in WritesTo(G[i], r), c \in WritesTo(G[j], r) : TRUE
      BY <1>1, <2>1
    <3> QED BY <1>3, <2>2, <3>1 DEF ReadAfter
  <2>4. i = j
    <3> SUFFICES ASSUME i # j PROVE FALSE
      OBVIOUS
    <3>1. PICK a \in WritesTo(G[i], r), c \in WritesTo(G[i], r) : a.kind = "xor" /\ c.kind # "xor"
      BY <1>5, <2>3 DEF Ordered
    <3> QED BY <1>3, <3>1 DEF ReadAfter
  <2> QED BY <2>4
<1> QED BY <1>4, <1>5

\* A register that no action after the j-th writes keeps what it had after that.
LEMMA StaysAfter ==
  ASSUME NEW p, Len(p) \in Nat, NEW v, NEW V, Effects(V, v, p), NEW r \in Regs, NEW j \in 1 .. Len(p),
         \A i \in 1 .. Len(p) : p[i].addr = r /\ p[i].kind # "read" => i <= j
  PROVE  V[j][r] = V[Len(p)][r]
<1> DEFINE S == {i \in 0 .. Len(p) : i >= j => V[i][r] = V[j][r]}
<1>1. 0 \in S
  OBVIOUS
<1>2. ASSUME NEW i \in 1 .. Len(p), i - 1 \in S PROVE i \in S
  <2> SUFFICES ASSUME i >= j PROVE V[i][r] = V[j][r]
    OBVIOUS
  <2>1. CASE i = j
    BY <2>1
  <2>2. CASE i > j
    <3>1. V[i - 1][r] = V[j][r]
      BY <1>2, <2>2
    <3>2. \A b : ~Does(p[i], r, b)
      BY <2>2 DEF Does
    <3>3. \A b \in Bits : b \in V[i][r] <=> b \in V[i - 1][r]
      <4> SUFFICES ASSUME NEW b \in Bits PROVE b \in V[i][r] <=> b \in V[i - 1][r]
        OBVIOUS
      <4>1. b \in V[i][r] <=> BitDone(p[i], r, b, b \in V[i - 1][r])
        BY Zenon DEF Effects
      <4> QED BY <3>2, <4>1, Zenon DEF BitDone
    <3>4. V[i][r] \subseteq Bits /\ V[i - 1][r] \subseteq Bits
      <4>1. i \in 0 .. Len(p) /\ i - 1 \in 0 .. Len(p)
        OBVIOUS
      <4> QED BY <4>1 DEF Effects, States
    <3> QED BY <3>1, <3>3, <3>4
  <2> QED BY <2>1, <2>2
<1>3. Len(p) \in S
  <2>1. Len(p) \in 0 .. Len(p)
    OBVIOUS
  <2> HIDE DEF S
  <2> QED BY <1>1, <1>2, <2>1, InductionTo
<1> QED BY <1>3

\* So do groups that do not write it.
LEMMA StaysAfterGroup ==
  ASSUME NGroups \in Nat, NEW W, Stages(W), NEW n \in 1 .. NGroups, NEW r \in Regs,
         \A k \in n .. NGroups : WritesTo(k, r) = {}
  PROVE  W[n - 1][r] = W[NGroups][r]
<1> DEFINE S == {i \in 0 .. NGroups : i >= n - 1 => W[i][r] = W[n - 1][r]}
<1>1. 0 \in S
  OBVIOUS
<1>2. ASSUME NEW i \in 1 .. NGroups, i - 1 \in S PROVE i \in S
  <2> SUFFICES ASSUME i >= n - 1 PROVE W[i][r] = W[n - 1][r]
    OBVIOUS
  <2>1. CASE i = n - 1
    BY <2>1
  <2>2. CASE i > n - 1
    <3>1. W[i - 1][r] = W[n - 1][r]
      BY <1>2, <2>2
    <3>2. \A b : WritersIn(Group(i), r, b) = {}
      <4>1. i \in n .. NGroups
        BY <2>2
      <4>2. WritesTo(i, r) = {}
        BY <4>1
      <4> QED BY <4>2 DEF WritesTo, WritersIn
    <3>3. W[i] = Together(W[i - 1], Group(i)) /\ W[i - 1] \in States
      BY DEF Stages, StagesTo
    <3>4. W[i][r] = {b \in Bits : b \in W[i - 1][r]}
      BY <3>2, <3>3 DEF Together
    <3>5. W[i - 1][r] \subseteq Bits
      BY <3>3 DEF States
    <3> QED BY <3>1, <3>4, <3>5
  <2> QED BY <2>1, <2>2
<1>3. NGroups \in S
  <2>1. NGroups \in 0 .. NGroups
    OBVIOUS
  <2> HIDE DEF S
  <2> QED BY <1>1, <1>2, <2>1, InductionTo
<1> QED BY <1>3

\* Under the same condition, the bits that only apply writes are returned as they were
\* after the groups before the one that reads them, if one group at most wrote their
\* register before, with writes that merge.
THEOREM ReadsSee ==
  ASSUME \A call \in Calls : Sensible(call) /\ ~MixesToggle(call)
  PROVE  Spec => []ReadsSeeEarlierGroups
<1>1. Inv /\ Called => ReadsSeeEarlierGroups
  <2> SUFFICES ASSUME Inv, Called, pc = "done", NEW n \in 1 .. NGroups, NEW r \in Regs, Readers(n, r) # {},
                      ReadAfter(n, r)
               PROVE  ReadsAsOf(n, r)
    BY Zenon DEF ReadsSeeEarlierGroups, ReadAfter
  <2>1. before \in States
    BY DEF Called
  <2>2. PICK call \in Calls : \E k \in Nat : Underway(call, k) /\ Reached(call, k) /\ Returned(call, k)
    BY DEF Called
  <2>3. PICK k \in Nat : Underway(call, k) /\ Reached(call, k) /\ Returned(call, k)
    BY <2>2
  <2> DEFINE p == Compile(call)
             l == Len(p)
  <2>4. call \in Seq(Arguments) /\ args = Opened(call) /\ l \in Nat /\ DOMAIN p = 1 .. l
    <3>1. call \in Seq(Arguments) /\ p \in Programs
      BY ApplyAssumption
    <3>2. p \in Seq(ActionType)
      BY <3>1, ProgramsWellFormed DEF WellFormed
    <3>3. l \in Nat /\ DOMAIN p = 1 .. l
      BY <3>2, ListFacts, Zenon
    <3> QED BY <2>3, <3>1, <3>3 DEF Underway
  <2>5. NGroups \in Nat
    <3>1. args \in Seq(Elements)
      BY <2>4, ElementsAlike
    <3> QED BY <3>1, GroupCount
  <2>6. Brings(before, p, AfterGroups(NGroups))
    <3>1. \A g \in ToSet(Steps(call)) : Good(g)
      <4>1. Sensible(call) /\ ~MixesToggle(call)
        OBVIOUS
      <4> QED BY <4>1, Zenon DEF Sensible, MixesToggle, Good
    <3> QED BY <2>1, <2>4, <3>1, CompileBrings
  <2>7. PICK V : Effects(V, before, p) /\ V[l] = AfterGroups(NGroups)
    BY <2>6, Zenon DEF Brings
  <2>8. k = l
    <3>1. todo = <<>>
      BY DEF Inv, TypeOK
    <3>2. Len(todo) = 0 /\ k \in 0 .. l /\ Len(todo) = l - k
      BY <2>3, <3>1 DEF Underway
    <3>3. l \in Nat
      BY <2>4
    <3> HIDE DEF p, l
    <3> QED BY <3>2, <3>3
  <2>9. PICK G : Ordered(p, G)
    BY <2>4, InOrderOfGroups
  <2>10. /\ reads = {p[i].addr : i \in {j \in DOMAIN p : p[j].kind = "read"}}
         /\ \A b \in Plain(r) : b \in ret[r] <=> r \in reads /\ \E j \in 1 .. l : p[j].addr = r /\ b \in V[j][r]
    BY <2>3, <2>7, <2>8, Zenon DEF Returned
  <2> HIDE DEF p
  <2>11. \A j \in 1 .. l : p[j].addr = r => V[j][r] = V[l][r]
    <3> SUFFICES ASSUME NEW j \in 1 .. l, p[j].addr = r PROVE V[j][r] = V[l][r]
      OBVIOUS
    <3>1. \A i \in 1 .. l : p[i].addr = r /\ p[i].kind # "read" => i <= j
      BY <2>4, <2>5, <2>9, NotWrittenAfter
    <3> QED BY <2>4, <2>7, <3>1, StaysAfter
  <2>12. V[l][r] = AfterGroups(n - 1)[r]
    <3>1. PICK W : Stages(W) /\ \A m \in 0 .. NGroups : AfterGroups(m) = W[m]
      BY <2>1, <2>5, GroupStages
    <3>2. W[n - 1][r] = W[NGroups][r]
      BY <2>5, <3>1, StaysAfterGroup DEF ReadAfter
    <3>3. n - 1 \in 0 .. NGroups /\ NGroups \in 0 .. NGroups
      BY <2>5
    <3> QED BY <2>7, <3>1, <3>2, <3>3
  <2>13. PICK j \in 1 .. l : p[j].kind = "read" /\ p[j].addr = r
    BY <2>9 DEF Ordered
  <2>14. r \in reads
    BY <2>4, <2>10, <2>13
  <2>15. \A b \in Plain(r) : b \in ret[r] <=> b \in AfterGroups(n - 1)[r]
    BY <2>10, <2>11, <2>12, <2>13, <2>14
  <2> QED BY <2>15 DEF ReadsAsOf
<1> QED BY <1>1, CalledInvariance, Invariance, PTL
=============================================================================
