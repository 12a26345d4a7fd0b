----------------------------- MODULE Registers ------------------------------
(***************************************************************************)
(* Peripheral registers as Register/Types.hpp describes them and the       *)
(* values Register/Exec.hpp writes to them.  A value or a mask is the set  *)
(* of its bits that are one, so | is \cup and & ~ is set difference.       *)
(***************************************************************************)

CONSTANTS
  Bits,   \* the bits of a register; Bits itself is allBitsSetMask
  Regs,   \* the addresses
  WIIZ,   \* writeIgnoredIfZeroMask of each address
  WIIO,   \* writeIgnoredIfOneMask of each address
  Kind    \* ModifiedWriteValueType of each bit of each address

OneKinds  == {"oneToClear", "oneToSet", "oneToToggle"}
ZeroKinds == {"zeroToClear", "zeroToSet", "zeroToToggle"}
Kinds     == {"normal"} \cup OneKinds \cup ZeroKinds

\* The masks of an Address say what its bits do.
ASSUME RegistersAssumption ==
  /\ WIIZ \in [Regs -> SUBSET Bits]
  /\ WIIO \in [Regs -> SUBSET Bits]
  /\ Kind \in [Regs -> [Bits -> Kinds]]
  /\ \A r \in Regs, b \in Bits :
       /\ b \in WIIZ[r] <=> Kind[r][b] \in OneKinds
       /\ b \in WIIO[r] <=> Kind[r][b] \in ZeroKinds

Plain(r)   == {b \in Bits : Kind[r][b] = "normal"}
Toggles(r) == {b \in Bits : Kind[r][b] \in {"oneToToggle", "zeroToToggle"}}

\* The bits hardware and interrupt handlers change on their own: status flags.
Events(r) == Bits \ (Plain(r) \cup Toggles(r))
-----------------------------------------------------------------------------
\* Mutant: the bits to be written are taken for bits with a fixed value only
\* where zero leaves them alone, so a needed read is skipped.
NeedsReadNever(r, mask) == FALSE

\* GenericReadMaskOrWrite reads unless every bit it writes is fixed.
NeedsRead(r, mask) == (WIIO[r] \ mask) \cup mask \cup WIIZ[r] # Bits

\* Mutant: bits that ignore ones are written back as zeros.
OrWrittenNoOnes(r, mask, value, i) == (i \ (mask \cup WIIZ[r])) \cup value

\* What GenericReadMaskOrWrite writes after it loaded i; value holds the
\* literal and the runtime bits.
OrWritten(r, mask, value, i) ==
  (i \ (mask \cup WIIZ[r])) \cup value \cup (WIIO[r] \ mask)

\* Mutant: everything that was read is written back.
XorWrittenAll(r, mask, value, i) == (i \ value) \cup (value \ i)

\* What GenericReadMaskXorWrite writes after it loaded i.
XorWritten(r, mask, value, i) ==
  LET kept == (i \ (WIIZ[r] \ mask)) \cup (WIIO[r] \ mask)
  IN  (kept \ value) \cup (value \ kept)

\* The peripheral: the bit's new value when it holds old and is written new.
BitAfter(kind, old, new) ==
  CASE kind = "normal"       -> new
    [] kind = "oneToClear"   -> old /\ ~new
    [] kind = "oneToSet"     -> old \/ new
    [] kind = "oneToToggle"  -> ~(old <=> new)
    [] kind = "zeroToClear"  -> old /\ new
    [] kind = "zeroToSet"    -> old \/ ~new
    [] kind = "zeroToToggle" -> old <=> new

HwStore(r, old, w) == {b \in Bits : BitAfter(Kind[r][b], b \in old, b \in w)}
=============================================================================
