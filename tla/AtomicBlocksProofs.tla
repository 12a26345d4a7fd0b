------------------------- MODULE AtomicBlocksProofs -------------------------
(***************************************************************************)
(* Proofs about AtomicBlocks for any number of interrupt levels, any depth *)
(* of guards and any words.                                                *)
(***************************************************************************)
EXTENDS AtomicBlocks, TLAPS

\* A context that has not begun is in no operation; one that is in none has
\* read nothing; one about to take a guard has room for it.
Places ==
  \A c \in Contexts :
    /\ c \notin active => pc[c] = "idle" /\ depth[c] = 0
    /\ pc[c] = "idle" => call[c] = None
    /\ pc[c] \in {"idle", "save", "disable"} => glo[c] = Zero /\ ghi[c] = Zero
    /\ pc[c] \in {"save", "disable"} => depth[c] < MaxDepth

\* What a guard found: the first of a context PRIMASK as it was at the start,
\* the ones inside it the interrupts off.
OldStates ==
  \A c \in Contexts :
    /\ pc[c] = "disable" => (old[c] <=> depth[c] = 0 /\ ~boot)
    /\ \A k \in 1 .. MaxDepth : k <= depth[c] => (saved[<<c, k>>] <=> k = 1 /\ ~boot)

\* What a context in an operation read is what the object holds.
Reads ==
  \A c \in Contexts :
    /\ pc[c] \in {"read_low", "read_high", "again_low", "again_high"} => call[c].op # "store"
    /\ pc[c] = "read_high" => glo[c] = lo
    /\ pc[c] \in {"again_low", "again_high"} =>
         glo[c] = lo /\ ghi[c] = hi /\ ~Writes(call[c], <<lo, hi>>)
    /\ pc[c] = "write_low" =>
         /\ call[c].op = "store" => glo[c] = Zero /\ ghi[c] = Zero
         /\ call[c].op # "store" =>
              glo[c] = lo /\ ghi[c] = hi /\ Writes(call[c], <<lo, hi>>)
    /\ pc[c] = "write_high" => lo = New(call[c], <<glo[c], ghi[c]>>)[1]

IInv == TypeOK /\ Guarded /\ MaskKept /\ Places /\ OldStates /\ Reads

\* A request has the parts of one and is not None.
LEMMA RequestTypes ==
  ASSUME NEW r \in Requests
  PROVE  r.op \in Operations /\ r.expected \in Values /\ r.value \in Values /\ r # None
BY AtomicOpsAssumption DEF None, Operations

\* What an operation leaves in an object is an object.
LEMMA NewTypes ==
  ASSUME NEW r \in Requests, NEW v \in Values
  PROVE  New(r, v) \in Values
BY RequestTypes, AtomicOpsAssumption DEF New

\* The program starts in IInv.
LEMMA InitIInv == Init => IInv
<1> SUFFICES ASSUME Init PROVE IInv
  OBVIOUS
<1> USE AtomicBlocksAssumption, AtomicOpsAssumption DEF Init
<1>1. 0 \in Contexts /\ 0 \in 0 .. MaxDepth
  BY DEF Contexts
<1>2. TypeOK
  BY <1>1 DEF TypeOK
<1>3. Guarded /\ MaskKept /\ Places /\ OldStates /\ Reads
  BY <1>1 DEF Guarded, MaskKept, Places, OldStates, Reads
<1> QED
  BY <1>2, <1>3 DEF IInv

\* An interrupt is taken when nobody has a guard, and returns when its own are
\* gone.
LEMMA CoreIInv ==
  ASSUME IInv, NEW c \in Contexts, Preempt(c) \/ Return(c)
  PROVE  IInv'
<1>1. TypeOK /\ Guarded /\ MaskKept /\ Places /\ OldStates /\ Reads
  BY DEF IInv
<1>2. UNCHANGED <<guards, boot, pc, call, object, got>>
  BY DEF Preempt, Return
<1>3. CASE Preempt(c)
  <2>1. TypeOK'
    BY <1>1, <1>2, <1>3, AtomicBlocksAssumption
    DEF TypeOK, Preempt, Contexts, guards, object, got
  <2>2. Guarded' /\ MaskKept' /\ Places' /\ OldStates' /\ Reads'
    BY <1>1, <1>2, <1>3
    DEF Guarded, MaskKept, Places, OldStates, Reads, Preempt, guards, object, got
  <2> QED
    BY <2>1, <2>2 DEF IInv
<1>4. CASE Return(c)
  <2>1. /\ c = running /\ pc[c] = "idle" /\ depth[c] = 0 /\ c # 0
        /\ active' = active \ {c} /\ running' \in active'
        /\ \A d \in active' : d <= running'
    BY <1>4 DEF Return, At
  <2>2. TypeOK'
    BY <1>1, <1>2, <2>1 DEF TypeOK, guards, object, got
  <2>3. \A d \in Contexts : depth[d] = 0
    BY <1>1, <2>1, AtomicBlocksAssumption DEF Guarded, TypeOK
  <2>4. Guarded' /\ MaskKept'
    BY <1>1, <1>2, <2>3, AtomicBlocksAssumption DEF Guarded, MaskKept, guards
  <2>5. Places' /\ OldStates' /\ Reads'
    BY <1>1, <1>2, <2>1 DEF Places, OldStates, Reads, guards, object, got
  <2> QED
    BY <2>2, <2>4, <2>5 DEF IInv
<1> QED
  BY <1>3, <1>4

\* A context about to take a guard, or beginning an operation, changes nothing
\* the others see.
LEMMA EnterIInv ==
  ASSUME IInv, NEW c \in Contexts,
         Lock(c) \/ Save(c) \/ \E r \in Requests : Begin(c, r)
  PROVE  IInv'
<1>1. TypeOK /\ Guarded /\ MaskKept /\ Places /\ OldStates /\ Reads
  BY DEF IInv
<1>2. /\ c = running /\ c \in active
      /\ UNCHANGED <<primask, depth, saved, cores, object, got>>
  BY <1>1 DEF Lock, Save, Begin, At, TypeOK, guards
<1>3. Guarded' /\ MaskKept'
  BY <1>1, <1>2 DEF Guarded, MaskKept, cores
<1>4. CASE Lock(c)
  <2>1. pc' = [pc EXCEPT ![c] = "save"] /\ pc[c] = "idle" /\ depth[c] < MaxDepth
        /\ UNCHANGED <<old, call>>
    BY <1>4 DEF Lock, At, Goto, guards
  <2>2. TypeOK'
    BY <1>1, <1>2, <2>1 DEF TypeOK, cores, object, got
  <2>3. Places'
    BY <1>1, <1>2, <2>1 DEF TypeOK, Places, cores, got
  <2>4. OldStates'
    BY <1>1, <1>2, <2>1 DEF TypeOK, OldStates, cores
  <2>5. Reads'
    BY <1>1, <1>2, <2>1 DEF TypeOK, Reads, object, got
  <2> QED
    BY <1>3, <2>2, <2>3, <2>4, <2>5 DEF IInv
<1>5. ASSUME NEW r \in Requests, Begin(c, r)
      PROVE  IInv'
  <2>1. /\ pc' = [pc EXCEPT ![c] = "save"] /\ pc[c] = "idle" /\ depth[c] < MaxDepth
        /\ call' = [call EXCEPT ![c] = r] /\ UNCHANGED old
    BY <1>5 DEF Begin, At, Goto, guards
  <2>2. TypeOK'
    BY <1>1, <1>2, <2>1 DEF TypeOK, cores, object, got
  <2>3. Places'
    BY <1>1, <1>2, <2>1 DEF TypeOK, Places, cores, got
  <2>4. OldStates'
    BY <1>1, <1>2, <2>1 DEF TypeOK, OldStates, cores
  <2>5. Reads'
    BY <1>1, <1>2, <2>1 DEF TypeOK, Reads, object, got
  <2> QED
    BY <1>3, <2>2, <2>3, <2>4, <2>5 DEF IInv
<1>6. CASE Save(c)
  <2>1. /\ pc' = [pc EXCEPT ![c] = "disable"] /\ pc[c] = "save"
        /\ old' = [old EXCEPT ![c] = ~primask] /\ UNCHANGED call
    BY <1>6 DEF Save, At, Goto
  <2>2. ~primask <=> depth[c] = 0 /\ ~boot
    <3>1. depth[c] = 0 => \A d \in Contexts : depth[d] = 0
      BY <1>1, <1>2, AtomicBlocksAssumption DEF Guarded, TypeOK
    <3> QED
      BY <1>1, <1>2, <3>1 DEF Guarded, MaskKept, TypeOK
  <2>3. TypeOK'
    BY <1>1, <1>2, <2>1 DEF TypeOK, cores, object, got
  <2>4. OldStates'
    BY <1>1, <1>2, <2>1, <2>2 DEF TypeOK, OldStates, cores
  <2>5. Places' /\ Reads'
    BY <1>1, <1>2, <2>1 DEF TypeOK, Places, Reads, cores, object, got
  <2> QED
    BY <1>3, <2>3, <2>4, <2>5 DEF IInv
<1> QED
  BY <1>4, <1>5, <1>6

\* The interrupts are off, and one guard more is there.
LEMMA DisableIInv ==
  ASSUME IInv, NEW c \in Contexts, Disable(c)
  PROVE  IInv'
<1>1. TypeOK /\ Guarded /\ MaskKept /\ Places /\ OldStates /\ Reads
  BY DEF IInv
<1>2. /\ c = running /\ c \in active /\ pc[c] = "disable" /\ primask' = TRUE
      /\ depth' = [depth EXCEPT ![c] = depth[c] + 1]
      /\ saved' = [saved EXCEPT ![<<c, depth[c] + 1>>] = old[c]]
      /\ pc' = [pc EXCEPT ![c] = Body(c)]
      /\ UNCHANGED <<old, cores, call, object, got>>
  BY <1>1 DEF Disable, At, Goto, TypeOK
<1>3. /\ depth[c] \in Nat /\ depth[c] < MaxDepth
      /\ depth[c] + 1 \in 1 .. MaxDepth /\ depth[c] + 1 > 0
  BY <1>1, <1>2, AtomicBlocksAssumption DEF TypeOK, Places
<1>4. /\ Body(c) \in {"idle", "write_low", "read_low"}
      /\ Body(c) = "idle" <=> call[c] = None
      /\ Body(c) = "write_low" => call[c].op = "store"
      /\ Body(c) = "read_low" => call[c].op # "store"
  BY DEF Body, None
<1>5. TypeOK'
  <2>1. saved' \in [Contexts \X (1 .. MaxDepth) -> BOOLEAN]
    BY <1>1, <1>2, <1>3 DEF TypeOK
  <2>2. depth' \in [Contexts -> 0 .. MaxDepth]
    BY <1>1, <1>2, <1>3 DEF TypeOK
  <2>3. \A d \in Contexts :
          pc'[d] \notin {"idle", "save", "disable"} => call'[d] # None /\ depth'[d] > 0
    BY <1>1, <1>2, <1>3, <1>4 DEF TypeOK
  <2>4. pc' \in [Contexts -> {"idle", "save", "disable", "read_low", "read_high",
                          "again_low", "again_high", "write_low", "write_high",
                          "restore"}]
    BY <1>1, <1>2, <1>4 DEF TypeOK
  <2> QED
    BY <1>1, <1>2, <2>1, <2>2, <2>3, <2>4 DEF TypeOK, cores, object, got
<1>6. Guarded' /\ MaskKept'
  <2>1. depth'[c] > 0 /\ \A d \in Contexts : d # c => depth'[d] = depth[d]
    BY <1>1, <1>2, <1>3 DEF TypeOK
  <2>2. depth'[c] # 0
    BY <2>1
  <2> QED
    BY <1>1, <1>2, <2>1, <2>2 DEF Guarded, MaskKept, cores
<1>7. Places'
  BY <1>1, <1>2, <1>4 DEF TypeOK, Places, cores, got
<1>8. OldStates'
  <2>1. ASSUME NEW d \in Contexts, pc'[d] = "disable"
        PROVE  old'[d] <=> depth'[d] = 0 /\ ~boot'
    BY <1>1, <1>2, <1>4, <2>1 DEF TypeOK, OldStates, cores
  <2>2. ASSUME NEW d \in Contexts, NEW k \in 1 .. MaxDepth, k <= depth'[d]
        PROVE  saved'[<<d, k>>] <=> k = 1 /\ ~boot'
    <3>1. CASE d = c /\ k = depth[c] + 1
      <4>1. saved'[<<d, k>>] = old[c]
        BY <1>1, <1>2, <3>1 DEF TypeOK
      <4>2. old[c] <=> depth[c] = 0 /\ ~boot
        BY <1>1, <1>2 DEF OldStates
      <4>3. k = 1 <=> depth[c] = 0
        BY <1>3, <3>1
      <4> QED
        BY <1>2, <4>1, <4>2, <4>3 DEF cores
    <3>2. CASE ~(d = c /\ k = depth[c] + 1)
      <4>1. saved'[<<d, k>>] = saved[<<d, k>>]
        BY <1>1, <1>2, <3>2 DEF TypeOK
      <4>2. k <= depth[d]
        BY <1>1, <1>2, <1>3, <2>2, <3>2 DEF TypeOK
      <4> QED
        BY <1>1, <1>2, <4>1, <4>2 DEF OldStates, cores
    <3> QED
      BY <3>1, <3>2
  <2> QED
    BY <2>1, <2>2 DEF OldStates
<1>9. Reads'
  BY <1>1, <1>2, <1>4 DEF TypeOK, Places, Reads, object, got
<1> QED
  BY <1>5, <1>6, <1>7, <1>8, <1>9 DEF IInv

\* A guard that goes restores what it found: PRIMASK stays set for the guards
\* around it, and is what it was at the start after the last.
LEMMA DestroyMask ==
  ASSUME TypeOK, Guarded, OldStates, NEW c \in Contexts,
         c = running, depth[c] > 0, Destroy(c)
  PROVE  /\ primask' \in BOOLEAN
         /\ depth' = [depth EXCEPT ![c] = depth[c] - 1]
         /\ depth' \in [Contexts -> 0 .. MaxDepth]
         /\ \A d \in Contexts : depth'[d] <= depth[d]
         /\ \A d \in Contexts : depth'[d] > 0 => primask' /\ d = running
         /\ (\A d \in Contexts : depth'[d] = 0) => primask' = boot
<1>1. /\ depth[c] \in 1 .. MaxDepth /\ depth[c] - 1 \in 0 .. MaxDepth
      /\ depth[c] <= depth[c] /\ depth[c] - 1 <= depth[c]
  BY AtomicBlocksAssumption DEF TypeOK
<1>2. primask /\ (saved[<<c, depth[c]>>] <=> depth[c] = 1 /\ ~boot)
  BY <1>1 DEF Guarded, OldStates
<1>3. /\ depth' = [depth EXCEPT ![c] = depth[c] - 1]
      /\ primask' <=> ~(depth[c] = 1 /\ ~boot)
  BY <1>2 DEF Destroy
<1>4. primask' \in BOOLEAN
  BY DEF Destroy
<1>5. depth' \in [Contexts -> 0 .. MaxDepth]
  BY <1>1, <1>3 DEF TypeOK
<1>6. \A d \in Contexts : depth'[d] <= depth[d]
  BY <1>1, <1>3 DEF TypeOK
<1>7. ASSUME NEW d \in Contexts, depth'[d] > 0
      PROVE  primask' /\ d = running
  BY <1>1, <1>3, <1>7 DEF TypeOK, Guarded
<1>8. ASSUME \A d \in Contexts : depth'[d] = 0
      PROVE  primask' = boot
  BY <1>1, <1>3, <1>4, <1>8 DEF TypeOK
<1> QED
  BY <1>3, <1>4, <1>5, <1>6, <1>7, <1>8

\* The code lets a guard of its own go, or an operation returns.
LEMMA LeaveIInv ==
  ASSUME IInv, NEW c \in Contexts, Unlock(c) \/ End(c)
  PROVE  IInv'
<1>1. TypeOK /\ Guarded /\ MaskKept /\ Places /\ OldStates /\ Reads
  BY DEF IInv
<1>2. /\ c = running /\ c \in active /\ depth[c] > 0 /\ Destroy(c)
      /\ pc[c] \in {"idle", "restore"} /\ pc' = [pc EXCEPT ![c] = "idle"]
      /\ call' = [call EXCEPT ![c] = None]
      /\ glo' = [glo EXCEPT ![c] = Zero] /\ ghi' = [ghi EXCEPT ![c] = Zero]
      /\ UNCHANGED <<old, saved, cores, object>>
  <2>1. CASE Unlock(c)
    <3>1. pc[c] = "idle" /\ call[c] = None /\ glo[c] = Zero /\ ghi[c] = Zero
      BY <1>1, <2>1 DEF Unlock, At, Places
    <3> QED
      BY <1>1, <2>1, <3>1 DEF TypeOK, Unlock, Destroy, At, got
  <2>2. CASE End(c)
    BY <1>1, <2>2 DEF TypeOK, End, Destroy, At, Goto
  <2> QED
    BY <2>1, <2>2
<1>3. /\ primask' \in BOOLEAN
      /\ depth' = [depth EXCEPT ![c] = depth[c] - 1]
      /\ depth' \in [Contexts -> 0 .. MaxDepth]
      /\ \A d \in Contexts : depth'[d] <= depth[d]
      /\ \A d \in Contexts : depth'[d] > 0 => primask' /\ d = running
      /\ (\A d \in Contexts : depth'[d] = 0) => primask' = boot
  BY <1>1, <1>2, DestroyMask
<1>4. TypeOK'
  <2>1. /\ glo' \in [Contexts -> Words] /\ ghi' \in [Contexts -> Words]
        /\ call' \in [Contexts -> Requests \cup {None}]
    BY <1>1, <1>2, AtomicOpsAssumption DEF TypeOK
  <2>2. \A d \in Contexts :
          pc'[d] \notin {"idle", "save", "disable"} => call'[d] # None /\ depth'[d] > 0
    BY <1>1, <1>2, <1>3 DEF TypeOK
  <2>3. pc' \in [Contexts -> {"idle", "save", "disable", "read_low", "read_high",
                          "again_low", "again_high", "write_low", "write_high",
                          "restore"}]
    BY <1>1, <1>2 DEF TypeOK
  <2> QED
    BY <1>1, <1>2, <1>3, <2>1, <2>2, <2>3 DEF TypeOK, cores, object
<1>5. Guarded' /\ MaskKept'
  BY <1>2, <1>3 DEF Guarded, MaskKept, cores
<1>6. Places'
  <2>1. ASSUME NEW d \in Contexts, d # c
        PROVE  /\ pc'[d] = pc[d] /\ call'[d] = call[d] /\ depth'[d] = depth[d]
               /\ glo'[d] = glo[d] /\ ghi'[d] = ghi[d]
    BY <1>1, <1>2, <1>3, <2>1 DEF TypeOK
  <2>2. /\ pc'[c] = "idle" /\ call'[c] = None /\ glo'[c] = Zero /\ ghi'[c] = Zero
    BY <1>1, <1>2 DEF TypeOK
  <2> QED
    BY <1>1, <1>2, <2>1, <2>2 DEF Places, cores
<1>7. OldStates'
  <2>1. ASSUME NEW d \in Contexts, pc'[d] = "disable"
        PROVE  old'[d] <=> depth'[d] = 0 /\ ~boot'
    <3>1. d # c /\ pc[d] = "disable" /\ depth'[d] = depth[d]
      BY <1>1, <1>2, <1>3, <2>1 DEF TypeOK
    <3> QED
      BY <1>1, <1>2, <3>1 DEF OldStates, cores
  <2>2. ASSUME NEW d \in Contexts, NEW k \in 1 .. MaxDepth, k <= depth'[d]
        PROVE  saved'[<<d, k>>] <=> k = 1 /\ ~boot'
    <3>1. k <= depth[d]
      BY <1>1, <1>3, <2>2, AtomicBlocksAssumption DEF TypeOK
    <3> QED
      BY <1>1, <1>2, <3>1 DEF OldStates, cores
  <2> QED
    BY <2>1, <2>2 DEF OldStates
<1>8. Reads'
  <2> SUFFICES ASSUME NEW d \in Contexts
               PROVE  d # c => /\ pc'[d] = pc[d] /\ call'[d] = call[d]
                               /\ glo'[d] = glo[d] /\ ghi'[d] = ghi[d]
    BY <1>1, <1>2 DEF TypeOK, Reads, object
  <2> QED
    BY <1>1, <1>2 DEF TypeOK
<1> QED
  BY <1>4, <1>5, <1>6, <1>7, <1>8 DEF IInv

\* The operation that runs reads a word.
LEMMA ReadIInv ==
  ASSUME IInv, NEW c \in Contexts, ReadLow(c) \/ ReadHigh(c)
  PROVE  IInv'
<1>1. TypeOK /\ Guarded /\ MaskKept /\ Places /\ OldStates /\ Reads
  BY DEF IInv
<1>2. /\ c = running /\ c \in active
      /\ UNCHANGED <<guards, cores, call, object>>
  BY <1>1 DEF ReadLow, ReadHigh, At, TypeOK
<1>3. Guarded' /\ MaskKept'
  BY <1>1, <1>2 DEF Guarded, MaskKept, guards, cores
<1>4. ASSUME NEW from \in {"read_low", "read_high", "again_low", "again_high"},
             NEW to \in {"read_high", "again_low", "again_high", "write_low", "restore"},
             pc[c] = from, pc' = [pc EXCEPT ![c] = to],
             glo' \in [Contexts -> Words], ghi' \in [Contexts -> Words],
             \A d \in Contexts : d # c => glo'[d] = glo[d] /\ ghi'[d] = ghi[d],
             \/ to = "read_high" /\ glo'[c] = lo
             \/ to = "again_high" /\ from = "again_low" /\ glo'[c] = lo /\ ghi'[c] = ghi[c]
             \/ to = "restore"
             \/ to = "again_low" /\ glo'[c] = lo /\ ghi'[c] = hi
                  /\ ~Writes(call[c], <<lo, hi>>)
             \/ to = "write_low" /\ glo'[c] = lo /\ ghi'[c] = hi
                  /\ Writes(call[c], <<lo, hi>>)
      PROVE  IInv'
  <2>1. call[c] # None /\ depth[c] > 0 /\ call[c].op # "store"
    BY <1>1, <1>4 DEF TypeOK, Reads
  <2>2. TypeOK'
    <3>1. pc' \in [Contexts -> {"idle", "save", "disable", "read_low", "read_high",
                            "again_low", "again_high", "write_low", "write_high",
                            "restore"}]
      BY <1>1, <1>4 DEF TypeOK
    <3>2. \A d \in Contexts :
            pc'[d] \notin {"idle", "save", "disable"} => call[d] # None /\ depth[d] > 0
      BY <1>1, <1>4, <2>1 DEF TypeOK
    <3> QED
      BY <1>1, <1>2, <1>4, <3>1, <3>2 DEF TypeOK, guards, cores, object
  <2>3. \A d \in Contexts : d # c => pc'[d] = pc[d]
    BY <1>1, <1>4 DEF TypeOK
  <2>4. pc'[c] = to
    BY <1>1, <1>4 DEF TypeOK
  <2>5. Places'
    BY <1>1, <1>2, <1>4, <2>3, <2>4 DEF Places, guards, cores
  <2>6. OldStates'
    BY <1>1, <1>2, <1>4, <2>3, <2>4 DEF OldStates, guards, cores
  <2>7. Reads'
    <3> SUFFICES ASSUME NEW d \in Contexts
                 PROVE  /\ pc'[d] \in {"read_low", "read_high", "again_low", "again_high"}
                             => call[d].op # "store"
                        /\ pc'[d] = "read_high" => glo'[d] = lo
                        /\ pc'[d] \in {"again_low", "again_high"} =>
                             glo'[d] = lo /\ ghi'[d] = hi /\ ~Writes(call[d], <<lo, hi>>)
                        /\ pc'[d] = "write_low" =>
                             /\ call[d].op = "store" => glo'[d] = Zero /\ ghi'[d] = Zero
                             /\ call[d].op # "store" =>
                                  glo'[d] = lo /\ ghi'[d] = hi /\ Writes(call[d], <<lo, hi>>)
                        /\ pc'[d] = "write_high" =>
                             lo = New(call[d], <<glo'[d], ghi'[d]>>)[1]
      BY <1>2 DEF Reads, object, Writes, New
    <3>1. CASE d = c
      BY <1>1, <1>4, <2>1, <2>4, <3>1 DEF Reads
    <3>2. CASE d # c
      BY <1>1, <1>4, <2>3, <3>2 DEF Reads
    <3> QED
      BY <3>1, <3>2
  <2> QED
    BY <1>3, <2>2, <2>5, <2>6, <2>7 DEF IInv
<1>5. CASE ReadLow(c)
  <2>1. /\ \A d \in Contexts : d # c => glo'[d] = glo[d] /\ ghi'[d] = ghi[d]
        /\ glo'[c] = lo /\ ghi' = ghi
        /\ glo' \in [Contexts -> Words] /\ ghi' \in [Contexts -> Words]
    BY <1>1, <1>5 DEF TypeOK, ReadLow
  <2>2. \/ pc[c] = "read_low" /\ pc' = [pc EXCEPT ![c] = "read_high"]
        \/ pc[c] = "again_low" /\ pc' = [pc EXCEPT ![c] = "again_high"]
    BY <1>5 DEF ReadLow, At, Goto
  <2> QED
    BY <1>4, <2>1, <2>2
<1>6. CASE ReadHigh(c)
  <2>1. /\ \A d \in Contexts : d # c => glo'[d] = glo[d] /\ ghi'[d] = ghi[d]
        /\ ghi'[c] = hi /\ glo' = glo
        /\ glo' \in [Contexts -> Words] /\ ghi' \in [Contexts -> Words]
    BY <1>1, <1>6 DEF TypeOK, ReadHigh
  <2>2. CASE pc[c] = "again_high" /\ pc' = [pc EXCEPT ![c] = "restore"]
    BY <1>4, <2>1, <2>2
  <2>3. CASE pc[c] = "read_high" /\ pc' = [pc EXCEPT ![c] = AfterRead(c)]
    <3>1. glo[c] = lo
      BY <1>1, <2>3 DEF Reads
    <3>2. \/ AfterRead(c) = "restore"
          \/ AfterRead(c) = "again_low" /\ ~Writes(call[c], <<lo, hi>>)
          \/ AfterRead(c) = "write_low" /\ Writes(call[c], <<lo, hi>>)
      BY <3>1 DEF AfterRead
    <3> QED
      BY <1>4, <2>1, <2>3, <3>1, <3>2
  <2> QED
    BY <1>6, <2>2, <2>3 DEF ReadHigh, At, Goto
<1> QED
  BY <1>5, <1>6

\* The operation that runs writes a word.
LEMMA WriteIInv ==
  ASSUME IInv, NEW c \in Contexts, WriteLow(c) \/ WriteHigh(c)
  PROVE  IInv'
<1>1. TypeOK /\ Guarded /\ MaskKept /\ Places /\ OldStates /\ Reads
  BY DEF IInv
<1> DEFINE w == New(call[c], <<glo[c], ghi[c]>>)
<1>2. /\ c = running /\ c \in active /\ pc[c] \in {"write_low", "write_high"}
      /\ UNCHANGED <<guards, cores, call, got>>
  BY <1>1 DEF WriteLow, WriteHigh, At, TypeOK
<1>3. call[c] \in Requests /\ depth[c] > 0
  BY <1>1, <1>2 DEF TypeOK
<1>4. w \in Values
  BY <1>1, <1>3, NewTypes DEF TypeOK, Values
<1>5. w[1] \in Words /\ w[2] \in Words
  BY <1>4 DEF Values
<1>6. /\ lo' \in Words /\ hi' \in Words
      /\ \/ pc' = [pc EXCEPT ![c] = "write_high"] /\ lo' = w[1]
         \/ pc' = [pc EXCEPT ![c] = "restore"]
  BY <1>1, <1>5 DEF WriteLow, WriteHigh, Goto, TypeOK
<1>7. Guarded' /\ MaskKept'
  BY <1>1, <1>2 DEF Guarded, MaskKept, guards, cores
<1>8. /\ \A d \in Contexts : d # c => pc'[d] = pc[d]
      /\ pc'[c] \in {"write_high", "restore"}
      /\ pc'[c] = "write_high" => lo' = w[1]
  BY <1>1, <1>6 DEF TypeOK
<1>9. TypeOK'
  <2>1. pc' \in [Contexts -> {"idle", "save", "disable", "read_low", "read_high",
                          "again_low", "again_high", "write_low", "write_high",
                          "restore"}]
    BY <1>1, <1>6 DEF TypeOK
  <2>2. \A d \in Contexts :
          pc'[d] \notin {"idle", "save", "disable"} => call[d] # None /\ depth[d] > 0
    BY <1>1, <1>2, <1>8 DEF TypeOK
  <2> QED
    BY <1>1, <1>2, <1>6, <2>1, <2>2 DEF TypeOK, guards, cores, got
<1>10. Places' /\ OldStates'
  BY <1>1, <1>2, <1>8 DEF Places, OldStates, guards, cores, got
<1>11. Reads'
  <2>1. \A d \in Contexts : d # c => pc[d] \in {"idle", "save", "disable"}
    BY <1>1, <1>2 DEF TypeOK, Guarded
  <2> QED
    BY <1>2, <1>8, <2>1 DEF Reads, got
<1> QED
  BY <1>7, <1>9, <1>10, <1>11 DEF IInv

\* Every step keeps IInv.
LEMMA NextIInv == IInv /\ [Next]_vars => IInv'
<1> SUFFICES ASSUME IInv, [Next]_vars PROVE IInv'
  OBVIOUS
<1>1. ASSUME NEW c \in Contexts, Step(c)
      PROVE  IInv'
  BY <1>1, EnterIInv, DisableIInv, ReadIInv, WriteIInv, LeaveIInv DEF Step
<1>2. CASE UNCHANGED vars
  BY <1>2 DEF vars, IInv, TypeOK, Guarded, MaskKept, Places, OldStates, Reads,
              guards, cores, object, got
<1> QED
  BY <1>1, <1>2, CoreIInv, EnterIInv, LeaveIInv DEF Next

\* IInv is an inductive invariant of the specification.
LEMMA Invariance == Spec => []IInv
BY InitIInv, NextIInv, PTL DEF Spec

\* The state has its types, and an operation touches its object under a guard
\* only (arm_Common_atomic.hpp, the blocks of CommonAtomic).
THEOREM TypeCorrect == Spec => []TypeOK
BY Invariance, PTL DEF IInv

\* A context with a guard is not interrupted, however its guards nest
\* (InterruptGuard).
THEOREM GuardExcludes == Spec => []Guarded
BY Invariance, PTL DEF IInv

\* Guards leave PRIMASK as they found it (~InterruptGuard).
THEOREM GuardRestores == Spec => []MaskKept
BY Invariance, PTL DEF IInv
-----------------------------------------------------------------------------
(* The blocks implement AtomicCell.                                         *)

\* Only the context that runs is within an operation's guard.
LEMMA OnlyRunning ==
  ASSUME IInv, NEW c \in Contexts, pc[c] \notin {"idle", "save", "disable"}
  PROVE  c = running
BY DEF IInv, TypeOK, Guarded

\* A step that leaves operations, what took effect and what was read alone,
\* and the object whole, is no step of the cell.
LEMMA Stutter ==
  ASSUME call' = call, Whole' = Whole,
         \A c \in Contexts : Done(c)' = Done(c),
         \A c \in Contexts : Done(c) => glo'[c] = glo[c] /\ ghi'[c] = ghi[c]
  PROVE  UNCHANGED Cell!vars
<1>1. Dones' = Dones
  BY DEF Dones
<1>2. Answers' = Answers
  BY DEF Answers
<1> QED
  BY <1>1, <1>2 DEF Cell!vars

\* The core, the guards and all of an operation but its effect.
LEMMA QuietSteps ==
  ASSUME IInv, IInv', NEW c \in Contexts,
         \/ Preempt(c) \/ Return(c) \/ Lock(c) \/ Unlock(c)
         \/ Save(c) \/ Disable(c) \/ ReadLow(c) \/ WriteHigh(c)
  PROVE  UNCHANGED Cell!vars
<1>1. TypeOK /\ Guarded /\ Places /\ Reads
  BY DEF IInv
<1>2. CASE Preempt(c) \/ Return(c)
  <2>1. UNCHANGED <<pc, call, object, got>>
    BY <1>2 DEF Preempt, Return
  <2>2. pc[running] # "write_high"
    BY <1>1, <1>2 DEF Preempt, Return, At, Guarded, TypeOK
  <2>3. pc'[running'] # "write_high"
    <3>1. CASE Preempt(c)
      BY <1>1, <2>1, <3>1, AtomicBlocksAssumption DEF Preempt, Places, TypeOK, Contexts
    <3>2. CASE Return(c)
      BY <1>1, <2>1, <3>2 DEF Return, At, Guarded, TypeOK
    <3> QED
      BY <1>2, <3>1, <3>2
  <2>4. Whole' = Whole
    BY <2>1, <2>2, <2>3 DEF Whole, object
  <2> QED
    BY <2>1, <2>4, Stutter DEF Done, got
<1>3. CASE Lock(c) \/ Unlock(c) \/ Save(c) \/ Disable(c)
  <2>1. /\ c = running /\ UNCHANGED <<running, call, object, got>>
        /\ pc[c] \in {"idle", "save", "disable"}
    BY <1>3 DEF Lock, Unlock, Save, Disable, At, cores
  <2>2. /\ pc'[c] \in {"idle", "save", "disable", "write_low", "read_low"}
        /\ \A d \in Contexts : d # c => pc'[d] = pc[d]
    BY <1>1, <1>3 DEF TypeOK, Lock, Unlock, Save, Disable, Body, At, Goto
  <2>3. Whole' = Whole
    BY <2>1, <2>2 DEF Whole, object
  <2>4. \A d \in Contexts : Done(d)' = Done(d)
    BY <2>1, <2>2 DEF Done
  <2> QED
    BY <2>1, <2>3, <2>4, Stutter DEF got
<1>4. CASE ReadLow(c)
  <2>1. /\ c = running /\ UNCHANGED <<running, call, object, ghi>>
        /\ pc[c] \in {"read_low", "again_low"} /\ pc'[c] \in {"read_high", "again_high"}
        /\ \A d \in Contexts : d # c => pc'[d] = pc[d]
        /\ glo' = [glo EXCEPT ![c] = lo]
    BY <1>1, <1>4 DEF TypeOK, ReadLow, At, Goto, cores
  <2>2. Whole' = Whole
    BY <2>1 DEF Whole, object
  <2>3. \A d \in Contexts : Done(d)' = Done(d)
    BY <2>1 DEF Done
  <2>4. \A d \in Contexts : Done(d) => glo'[d] = glo[d] /\ ghi'[d] = ghi[d]
    BY <1>1, <2>1 DEF Done, TypeOK
  <2> QED
    BY <2>1, <2>2, <2>3, <2>4, Stutter
<1>5. CASE WriteHigh(c)
  <2> DEFINE w == New(call[c], <<glo[c], ghi[c]>>)
  <2>1. /\ c = running /\ UNCHANGED <<running, call, lo, glo, ghi>>
        /\ pc[c] = "write_high" /\ pc'[c] = "restore"
        /\ \A d \in Contexts : d # c => pc'[d] = pc[d]
        /\ hi' = w[2]
    BY <1>1, <1>5 DEF TypeOK, WriteHigh, At, Goto, cores, got
  <2>2. call[c] \in Requests /\ <<glo[c], ghi[c]>> \in Values
    BY <1>1, <2>1 DEF TypeOK, Values
  <2>3. w \in Values
    BY <2>2, NewTypes
  <2>4. w = <<w[1], w[2]>>
    BY <2>3 DEF Values
  <2>5. lo = w[1]
    BY <1>1, <2>1 DEF Reads
  <2>6. Whole = w /\ Whole' = <<lo, w[2]>>
    BY <2>1 DEF Whole
  <2> HIDE DEF w
  <2>7. Whole' = Whole
    BY <2>4, <2>5, <2>6
  <2>8. \A d \in Contexts : Done(d)' = Done(d)
    BY <2>1 DEF Done
  <2> QED
    BY <2>1, <2>7, <2>8, Stutter
<1> QED
  BY <1>2, <1>3, <1>4, <1>5

\* A call begins.
LEMMA BeginStep ==
  ASSUME IInv, NEW c \in Contexts, NEW r \in Requests, Begin(c, r)
  PROVE  Cell!Begin(c, r)
<1>1. /\ c = running /\ UNCHANGED <<running, object, got>>
      /\ pc[c] = "idle" /\ pc'[c] = "save" /\ call[c] = None
      /\ call' = [call EXCEPT ![c] = r]
      /\ \A d \in Contexts : d # c => pc'[d] = pc[d] /\ call'[d] = call[d]
  BY DEF IInv, TypeOK, Places, Begin, At, Goto, cores
<1>2. Whole' = Whole
  BY <1>1 DEF Whole, object
<1>3. \A d \in Contexts : Done(d)' = Done(d)
  BY <1>1 DEF Done
<1>4. Dones' = Dones
  BY <1>3 DEF Dones
<1>5. Answers' = Answers
  BY <1>1, <1>3 DEF Answers, got
<1> QED
  BY <1>1, <1>2, <1>4, <1>5 DEF Cell!Begin, Cell!None, None

\* What it takes for a step to be the effect of an operation.
LEMMA EffectStep ==
  ASSUME NEW c \in Contexts, call[c] # None, call' = call,
         pc[c] \notin {"write_high", "restore"}, pc'[c] \in {"write_high", "restore"},
         \A d \in Contexts : d # c =>
           pc'[d] = pc[d] /\ glo'[d] = glo[d] /\ ghi'[d] = ghi[d],
         <<glo'[c], ghi'[c]>> = Answer(call[c], Whole),
         Whole' = IF Writes(call[c], Whole) THEN New(call[c], Whole) ELSE Whole
  PROVE  Cell!Effect(c)
<1>1. ~Done(c) /\ Done(c)' /\ \A d \in Contexts : d # c => Done(d)' = Done(d)
  BY DEF Done
<1>2. ~Dones[c] /\ Dones' = [Dones EXCEPT ![c] = TRUE]
  BY <1>1 DEF Dones
<1>3. Answers' = [Answers EXCEPT ![c] = Answer(call[c], Whole)]
  BY <1>1 DEF Answers
<1> QED
  BY <1>2, <1>3 DEF Cell!Effect, Cell!None, None, Cell!Writes, Writes,
                    Cell!New, New, Cell!Answer, Answer

\* The last word is read, or the first written.
LEMMA EffectSteps ==
  ASSUME IInv, NEW c \in Contexts, ReadHigh(c) \/ WriteLow(c)
  PROVE  Cell!Effect(c) \/ UNCHANGED Cell!vars
<1>1. TypeOK /\ Guarded /\ Places /\ Reads
  BY DEF IInv
<1>2. /\ c = running /\ UNCHANGED <<running, call>>
      /\ pc[c] \in {"read_high", "again_high", "write_low"} /\ call[c] # None
  BY <1>1 DEF TypeOK, ReadHigh, WriteLow, At, cores
<1>3. Whole = <<lo, hi>>
  BY <1>2 DEF Whole
<1>4. CASE ReadHigh(c)
  <2>1. /\ UNCHANGED <<lo, hi, glo>> /\ ghi'[c] = hi /\ call[c].op # "store"
        /\ \A d \in Contexts : d # c =>
             pc'[d] = pc[d] /\ glo'[d] = glo[d] /\ ghi'[d] = ghi[d]
        /\ glo[c] = lo
    BY <1>1, <1>4 DEF TypeOK, Reads, ReadHigh, At, Goto, object
  <2>2. <<glo'[c], ghi'[c]>> = Answer(call[c], Whole)
    BY <1>3, <2>1 DEF Answer
  <2>3. pc'[c] # "write_high" => Whole' = Whole
    BY <1>2, <1>3, <2>1 DEF Whole
  <2>4. \/ pc'[c] = "restore" /\ ~Writes(call[c], <<lo, hi>>)
        \/ pc'[c] \in {"again_low", "write_low"}
    <3>1. CASE pc[c] = "again_high" /\ pc' = [pc EXCEPT ![c] = "restore"]
      BY <1>1, <3>1 DEF TypeOK, Reads
    <3>2. CASE pc[c] = "read_high" /\ pc' = [pc EXCEPT ![c] = AfterRead(c)]
      <4>1. pc'[c] = AfterRead(c)
        BY <1>1, <3>2 DEF TypeOK
      <4>2. AfterRead(c) = "restore" => ~Writes(call[c], <<lo, hi>>)
        BY <2>1 DEF AfterRead, Writes
      <4>3. AfterRead(c) \in {"write_low", "restore", "again_low"}
        BY DEF AfterRead
      <4> QED
        BY <4>1, <4>2, <4>3
    <3> QED
      BY <1>4, <3>1, <3>2 DEF ReadHigh, At, Goto
  <2>5. CASE pc'[c] = "restore" /\ ~Writes(call[c], <<lo, hi>>)
    <3>1. Whole' = IF Writes(call[c], Whole) THEN New(call[c], Whole) ELSE Whole
      BY <1>3, <2>3, <2>5
    <3> QED
      BY <1>2, <2>1, <2>2, <2>5, <3>1, EffectStep
  <2>6. CASE pc'[c] \in {"again_low", "write_low"}
    <3>1. \A d \in Contexts : Done(d)' = Done(d)
      BY <1>2, <2>1, <2>6 DEF Done
    <3>2. \A d \in Contexts : Done(d) => glo'[d] = glo[d] /\ ghi'[d] = ghi[d]
      BY <1>2, <2>1 DEF Done
    <3> QED
      BY <1>2, <2>3, <2>6, <3>1, <3>2, Stutter
  <2> QED
    BY <2>4, <2>5, <2>6
<1>5. CASE WriteLow(c)
  <2>1. /\ UNCHANGED <<hi, glo, ghi>> /\ pc[c] = "write_low" /\ pc'[c] = "write_high"
        /\ \A d \in Contexts : d # c => pc'[d] = pc[d]
    BY <1>1, <1>5 DEF TypeOK, WriteLow, At, Goto, got
  <2>2. Whole' = New(call[c], <<glo[c], ghi[c]>>)
    BY <1>2, <2>1 DEF Whole
  <2>3. /\ Writes(call[c], Whole)
        /\ New(call[c], <<glo[c], ghi[c]>>) = New(call[c], Whole)
        /\ <<glo[c], ghi[c]>> = Answer(call[c], Whole)
    <3>1. CASE call[c].op = "store"
      BY <1>1, <1>3, <2>1, <3>1 DEF Reads, Writes, New, Answer
    <3>2. CASE call[c].op # "store"
      BY <1>1, <1>3, <2>1, <3>2 DEF Reads, Writes, New, Answer
    <3> QED
      BY <3>1, <3>2
  <2> QED
    BY <1>2, <2>1, <2>2, <2>3, EffectStep
<1> QED
  BY <1>4, <1>5

\* An operation returns.
LEMMA EndStep ==
  ASSUME IInv, NEW c \in Contexts, End(c)
  PROVE  Cell!End(c)
<1>1. TypeOK
  BY DEF IInv
<1>2. /\ c = running /\ UNCHANGED <<running, lo, hi>>
      /\ pc[c] = "restore" /\ pc'[c] = "idle" /\ call[c] # None
      /\ call' = [call EXCEPT ![c] = None]
      /\ \A d \in Contexts : d # c =>
           /\ pc'[d] = pc[d] /\ call'[d] = call[d]
           /\ glo'[d] = glo[d] /\ ghi'[d] = ghi[d]
  BY <1>1 DEF TypeOK, End, At, Goto, cores, object
<1>3. Whole' = Whole
  BY <1>2 DEF Whole
<1>4. Done(c) /\ Done(c)' = FALSE /\ \A d \in Contexts : d # c => Done(d)' = Done(d)
  BY <1>2 DEF Done
<1>5. Dones[c] /\ Dones' = [Dones EXCEPT ![c] = FALSE]
  BY <1>4 DEF Dones
<1>6. Answers' = [Answers EXCEPT ![c] = <<Zero, Zero>>]
  BY <1>2, <1>4 DEF Answers
<1> QED
  BY <1>2, <1>3, <1>5, <1>6 DEF Cell!End, Cell!None, None

\* Every load, store, exchange, compare_exchange and fetch_add of the blocks
\* takes effect on the whole object at one moment between its call and its
\* return, whatever interrupts it and whatever guards are around it.
THEOREM BlocksAreAtomic == Spec => Atomic
<1>1. Init => Cell!Init
  <2> SUFFICES ASSUME Init PROVE Cell!Init
    OBVIOUS
  <2>1. Whole = <<Zero, Zero>>
    BY AtomicBlocksAssumption DEF Init, Whole, Contexts
  <2>2. \A c \in Contexts : Done(c) = FALSE
    BY DEF Init, Done
  <2>3. Dones = [c \in Contexts |-> FALSE] /\ Answers = [c \in Contexts |-> <<Zero, Zero>>]
    BY <2>2 DEF Dones, Answers
  <2> QED
    BY <2>1, <2>3 DEF Init, Cell!Init, Cell!None, None
<1>2. IInv /\ IInv' /\ [Next]_vars => [Cell!Next]_(Cell!vars)
  <2> SUFFICES ASSUME IInv, IInv', [Next]_vars PROVE [Cell!Next]_(Cell!vars)
    OBVIOUS
  <2>1. CASE UNCHANGED vars
    <3>1. UNCHANGED <<pc, running, call, lo, hi, glo, ghi>>
      BY <2>1 DEF vars, cores, object, got
    <3>2. Whole' = Whole /\ \A c \in Contexts : Done(c)' = Done(c)
      BY <3>1 DEF Whole, Done
    <3> QED
      BY <3>1, <3>2, Stutter
  <2>2. ASSUME NEW c \in Contexts, NEW r \in Requests, Begin(c, r)
        PROVE  Cell!Next
    BY <2>2, BeginStep DEF Cell!Next
  <2>3. ASSUME NEW c \in Contexts, Step(c)
        PROVE  [Cell!Next]_(Cell!vars)
    BY <2>3, QuietSteps, EffectSteps, EndStep DEF Step, Cell!Next
  <2> QED
    BY <2>1, <2>2, <2>3, QuietSteps DEF Next
<1> QED
  BY <1>1, <1>2, Invariance, PTL DEF Spec, Atomic, Cell!Spec
=============================================================================
