------------------------------ MODULE BitField ------------------------------
(***************************************************************************)
(* Kvasir::BitField (Util/BitField.hpp): the bits low .. high of a message *)
(* of N bytes, read and written byte by byte with masks and shifts.  Bytes *)
(* and values are the sets of their bits that are one.                     *)
(***************************************************************************)
EXTENDS Integers

CONSTANTS
  N,          \* bytes of a message
  Fields,     \* records [high, low, min, max]
  Messages,   \* what a device sends
  Assigned    \* the values a program gives to fields

Byte == 0 .. 7
Word == 0 .. 31

Start(f) == f.low \div 8
End(f)   == f.high \div 8

\* Three bytes and more are excluded: combineInto shifts nothing for those between
\* the first and the last.
ASSUME BitFieldAssumption ==
  /\ N \in Nat \ {0}
  /\ Messages \subseteq [0 .. N - 1 -> SUBSET Byte]
  /\ Assigned \subseteq SUBSET Word
  /\ \A f \in Fields :
       /\ f.low \in 0 .. 8 * N - 1 /\ f.high \in f.low .. 8 * N - 1
       /\ f.min \subseteq 0 .. f.high - f.low /\ f.max \subseteq 0 .. f.high - f.low
       /\ End(f) <= Start(f) + 1

VARIABLES
  bytes,      \* the message
  flat        \* its bits one after the other, as the fields' documentation numbers them

fieldVars == <<bytes, flat>>

\* value_Type
Width(f) ==
  IF f.high - f.low <= 7 THEN 8 ELSE IF f.high - f.low <= 15 THEN 16 ELSE 32

maskFromRange(high, low) == {b \in Word : low <= b /\ b <= high}

maskStartsAt(m) == CHOOSE b \in m : \A c \in m : b <= c

\* The bits of the field in byte n, from Start to End.
mask(f, n) == maskFromRange(f.high - 8 * n, IF 8 * n > f.low THEN 0 ELSE f.low - 8 * n) \intersect Byte

FrontMaskOffset(f) == maskStartsAt(mask(f, Start(f)))
BackMaskOffset(f)  == maskStartsAt(mask(f, End(f)))

\* Shifts of an unsigned.
Shl(v, k) == {b \in Word : b - k \in v}
Shr(v, k) == {b \in Word : b + k \in v}

doTheExtract(f, lshift, rshift, m, vv) == Shl(Shr(vv \intersect m, lshift), rshift) \intersect 0 .. Width(f) - 1

\* calcRshift
Rshift(f, i) == IF i = 0 THEN 0 ELSE i * 8 - FrontMaskOffset(f)

extract(f, a) ==
  UNION {doTheExtract(f, IF n = Start(f) THEN FrontMaskOffset(f) ELSE 0, Rshift(f, n - Start(f)),
                      mask(f, n), a[n]) : n \in Start(f) .. End(f)}

\* Mutant: the offset in the first byte is forgotten.
EndShiftWhole(f) == (End(f) - Start(f)) * 8

EndShift(f) ==
  IF End(f) = Start(f) THEN 0 ELSE (End(f) - Start(f)) * 8 - (FrontMaskOffset(f) + BackMaskOffset(f))

doTheCombine(v, lshift, rshift, m, vv) == (vv \ m) \union (Shr(Shl(v, lshift), rshift) \intersect m)

combineInto(f, v, a) ==
  [n \in 0 .. N - 1 |->
     IF n \in Start(f) .. End(f)
     THEN doTheCombine(v, IF n = Start(f) THEN FrontMaskOffset(f) ELSE 0,
                       IF n = End(f) THEN EndShift(f) ELSE 0, mask(f, n), a[n])
     ELSE a[n]]

\* The order of the numbers the sets stand for: the highest bit they differ in decides.
Below(v, w) == \E b \in w \ v : \A c \in (v \union w) : c > b => (c \in v <=> c \in w)

\* std::clamp
sanitize(f, v) == IF Below(v, f.min) THEN f.min ELSE IF Below(f.max, v) THEN f.max ELSE v

isValid(f, a) == extract(f, a) = sanitize(f, extract(f, a))
-----------------------------------------------------------------------------
\* The reference: a field is the bits low .. high of a row of bits.
FlatBits(a)     == {p \in 0 .. 8 * N - 1 : p % 8 \in a[p \div 8]}
FlatField(f, s) == {b \in 0 .. f.high - f.low : f.low + b \in s}
FlatWith(f, v, s) ==
  {p \in 0 .. 8 * N - 1 : IF p \in f.low .. f.high THEN p - f.low \in v ELSE p \in s}

FieldInit == bytes \in Messages /\ flat = FlatBits(bytes)

\* A message comes.
Receive ==
  /\ bytes' \in Messages
  /\ flat' = FlatBits(bytes')

\* A BitField of the value v is put into the message.
Combine(f, v) ==
  /\ v \subseteq 0 .. Width(f) - 1
  /\ bytes' = combineInto(f, sanitize(f, v), bytes)
  /\ flat' = FlatWith(f, sanitize(f, v), flat)

\* A BitField made from the message is put back, which corrects a value out of range.
Correct(f) ==
  /\ ~isValid(f, bytes)
  /\ bytes' = combineInto(f, sanitize(f, extract(f, bytes)), bytes)
  /\ flat' = FlatWith(f, sanitize(f, FlatField(f, flat)), flat)

FieldNext ==
  \/ Receive
  \/ \E f \in Fields : Correct(f) \/ \E v \in Assigned : Combine(f, v)

FieldSpec == FieldInit /\ [][FieldNext]_fieldVars
-----------------------------------------------------------------------------
\* Masks and shifts put each field where its bit numbers say, give back what was
\* put there, and leave every other bit alone.
AsLaidOut ==
  /\ bytes \in [0 .. N - 1 -> SUBSET Byte]
  /\ flat = FlatBits(bytes)
  /\ \A f \in Fields : extract(f, bytes) = FlatField(f, flat)
=============================================================================
