--------------------------- MODULE UtilityProofs ----------------------------
(***************************************************************************)
(* A SaturatingValue is the exact sum in its range; the bits of a BitField *)
(* are where its numbers say; a StaticFunction calls what it was given     *)
(* last; an IsrProfiler's figures are those of the intervals it timed; the *)
(* containers hold what a sequence would, map and set are dictionaries;    *)
(* the list algorithms sort, split and find what they are meant to; a      *)
(* literal has the value that is written.                                  *)
(***************************************************************************)
EXTENDS Utilities, IsrProfiler, ListProofs, SequenceTheorems, FiniteSetTheorems

\* operator+= and -= give the exact sum and difference, clamped: an overflow is known
\* by the sign of the operand.
LEMMA SumIsExact ==
  ASSUME value \in min .. max, NEW x \in Int
  PROVE  Added(x) = clamped(value + x) /\ Subtracted(x) = clamped(value - x)
  BY SaturatingAssumption DEF Added, Subtracted, Overflows, clamped

LEMMA ClampedInRange == ASSUME NEW x \in Int PROVE clamped(x) \in min .. max
  BY SaturatingAssumption DEF clamped

\* The value never leaves min .. max and is the exact sum, for every range of the
\* built-in type and every operand, also of a wider type.
THEOREM SaturatesAlways == ValueSpec => []Saturates
<1>1. ValueInit => Saturates
  BY SaturatingAssumption, ClampedInRange DEF ValueInit, Saturates
<1>2. Saturates /\ [ValueNext]_valueVars => Saturates'
  <2> SUFFICES ASSUME Saturates, [ValueNext]_valueVars PROVE Saturates'
    OBVIOUS
  <2>1. value = sum /\ value \in min .. max /\ value \in Int
    BY SaturatingAssumption DEF Saturates
  <2>2. CASE Increment
    BY <2>1, <2>2, SaturatingAssumption DEF Increment, Saturates, clamped
  <2>3. CASE Decrement
    BY <2>1, <2>3, SaturatingAssumption DEF Decrement, Saturates, clamped
  <2>4. ASSUME NEW x \in Operands, Add(x) PROVE Saturates'
    <3>1. x \in Int
      BY SaturatingAssumption
    <3> QED BY <2>1, <2>4, <3>1, SumIsExact, ClampedInRange DEF Add, Saturates
  <2>5. ASSUME NEW x \in Operands, Subtract(x) PROVE Saturates'
    <3>1. x \in Int
      BY SaturatingAssumption
    <3> QED BY <2>1, <2>5, <3>1, SumIsExact, ClampedInRange DEF Subtract, Saturates
  <2>6. CASE UNCHANGED valueVars
    BY <2>6 DEF valueVars, Saturates
  <2> QED BY <2>2, <2>3, <2>4, <2>5, <2>6 DEF ValueNext
<1> QED BY <1>1, <1>2, PTL DEF ValueSpec
-----------------------------------------------------------------------------
\* The highest element of v is among the n + 1 numbers from some element of v on.
Top(v, n) == \E l \in Int : (\E c \in v : l <= c) /\ (\A c \in v : c <= l + n)

LEMMA Halve ==
  ASSUME NEW v \in SUBSET Int, NEW k \in Nat, NEW n \in Nat, n = 2 * k + 1, Top(v, n)
  PROVE  Top(v, k)
<1>1. PICK lo \in Int : (\E c \in v : lo <= c) /\ (\A c \in v : c <= lo + n)
  BY DEF Top
<1>2. CASE \E c \in v : lo + k + 1 <= c
  <2>1. ASSUME NEW c \in v PROVE c <= (lo + k + 1) + k
    BY <1>1
  <2> QED BY <1>2, <2>1, lo + k + 1 \in Int DEF Top
<1>3. CASE ~ \E c \in v : lo + k + 1 <= c
  <2>1. ASSUME NEW c \in v PROVE c <= lo + k
    <3>1. c \in Int /\ ~(lo + k + 1 <= c)
      BY <1>3
    <3> QED BY <3>1
  <2> QED BY <1>1, <2>1 DEF Top
<1> QED BY <1>2, <1>3

\* A set of bits of a word that is not empty has a highest one.
LEMMA HighestBit ==
  ASSUME NEW v \in SUBSET Word, v # {}
  PROVE  \E h \in v : \A c \in v : c <= h
<1>1. v \in SUBSET Int /\ \A c \in v : 0 <= c /\ c <= 0 + 31
  BY DEF Word
<1>2. Top(v, 31)
  <2>1. (\E c \in v : 0 <= c) /\ (\A c \in v : c <= 0 + 31)
    BY <1>1
  <2> QED BY <2>1, 0 \in Int DEF Top
<1>3. Top(v, 15)
  BY <1>1, <1>2, Halve
<1>4. Top(v, 7) /\ Top(v, 3)
  BY <1>1, <1>3, Halve
<1>5. Top(v, 1) /\ Top(v, 0)
  BY <1>1, <1>4, Halve
<1>6. PICK h \in Int : (\E c \in v : h <= c) /\ \A c \in v : c <= h + 0
  BY <1>5 DEF Top
<1>7. PICK g \in v : h <= g
  BY <1>6
<1>8. ASSUME NEW c \in v PROVE c <= g
  <2>1. c \in Int /\ g \in Int /\ c <= h + 0
    BY <1>1, <1>6
  <2> QED BY <1>6, <1>7, <2>1
<1> QED BY <1>8

\* The clamp keeps a value in the bits of its field.
LEMMA SanitizeFits ==
  ASSUME NEW f \in Fields, NEW v \in SUBSET Word
  PROVE  sanitize(f, v) \subseteq 0 .. f.high - f.low
<1>1. /\ f.low \in Int /\ f.high \in Int /\ f.low <= f.high
      /\ f.min \subseteq 0 .. f.high - f.low /\ f.max \subseteq 0 .. f.high - f.low
  BY BitFieldAssumption
<1>2. CASE v \subseteq 0 .. f.high - f.low
  BY <1>1, <1>2 DEF sanitize
<1>3. CASE ~(v \subseteq 0 .. f.high - f.low)
  <2>1. PICK b \in v : b > f.high - f.low
    BY <1>1, <1>3 DEF Word
  <2>2. PICK h \in v : \A c \in v : c <= h
    BY HighestBit
  <2>3. h \in Int /\ h > f.high - f.low
    <3>1. h \in Int /\ b \in Int /\ b <= h
      BY <2>1, <2>2 DEF Word
    <3> QED BY <1>1, <2>1, <3>1
  <2>4. h \notin f.max /\ \A c \in v \union f.max : ~(c > h)
    BY <1>1, <2>2, <2>3 DEF Word
  <2>5. Below(f.max, v)
    BY <2>2, <2>4 DEF Below
  <2> QED BY <1>1, <2>5 DEF sanitize
<1> QED BY <1>2, <1>3
-----------------------------------------------------------------------------
\* The bytes a field spans.
LEMMA Span ==
  ASSUME NEW f \in Fields
  PROVE  /\ N \in Nat /\ f.low \in Nat /\ f.high \in Nat /\ f.low <= f.high
         /\ Start(f) \in 0 .. N - 1 /\ 8 * Start(f) <= f.low /\ f.low <= 8 * Start(f) + 7
         /\ End(f) \in 0 .. N - 1 /\ 8 * End(f) <= f.high /\ f.high <= 8 * End(f) + 7
         /\ End(f) = Start(f) \/ End(f) = Start(f) + 1
<1>1. /\ N \in Nat /\ N > 0 /\ f.low \in Int /\ f.high \in Int
      /\ 0 <= f.low /\ f.low <= f.high /\ f.high <= 8 * N - 1
      /\ f.low \div 8 \in Int /\ f.high \div 8 \in Int /\ f.high \div 8 <= f.low \div 8 + 1
  BY BitFieldAssumption DEF Start, End
<1>2. \A p \in Int : 8 * (p \div 8) <= p /\ p <= 8 * (p \div 8) + 7
  OBVIOUS
<1>3. /\ 8 * Start(f) <= f.low /\ f.low <= 8 * Start(f) + 7 /\ Start(f) \in Int
      /\ 8 * End(f) <= f.high /\ f.high <= 8 * End(f) + 7 /\ End(f) \in Int
      /\ End(f) <= Start(f) + 1
  BY <1>1, <1>2 DEF Start, End
<1> QED BY <1>1, <1>3

\* The mask of a byte has the bits the field has there.
LEMMA MaskBits ==
  ASSUME NEW f \in Fields, NEW n \in Start(f) .. End(f), NEW b
  PROVE  b \in mask(f, n) <=> b \in Byte /\ f.low <= 8 * n + b /\ 8 * n + b <= f.high
  BY Span DEF mask, maskFromRange, Word, Byte

\* The field begins at bit low % 8 of its first byte and at bit 0 of a second one.
LEMMA Offsets ==
  ASSUME NEW f \in Fields
  PROVE  /\ FrontMaskOffset(f) = f.low - 8 * Start(f)
         /\ End(f) # Start(f) => BackMaskOffset(f) = 0
<1> DEFINE o == f.low - 8 * Start(f)
<1>1. o \in mask(f, Start(f)) /\ \A c \in mask(f, Start(f)) : c \in Int /\ o <= c
  BY Span, MaskBits DEF Byte
<1>2. maskStartsAt(mask(f, Start(f))) = o
  <2>1. \A c \in mask(f, Start(f)) : (\A d \in mask(f, Start(f)) : c <= d) => c = o
    BY <1>1, Span
  <2> QED BY <1>1, <2>1 DEF maskStartsAt
<1>3. CASE End(f) # Start(f)
  <2>1. 0 \in mask(f, End(f)) /\ \A c \in mask(f, End(f)) : c \in Int /\ 0 <= c
    BY <1>3, Span, MaskBits DEF Byte
  <2>2. \A c \in mask(f, End(f)) : (\A d \in mask(f, End(f)) : c <= d) => c = 0
    BY <2>1
  <2>3. maskStartsAt(mask(f, End(f))) = 0
    BY <2>1, <2>2 DEF maskStartsAt
  <2> QED BY <1>2, <2>3 DEF FrontMaskOffset, BackMaskOffset
<1> QED BY <1>2, <1>3 DEF FrontMaskOffset

\* Which bits of the row a byte holds.
LEMMA Row ==
  ASSUME NEW a \in [0 .. N - 1 -> SUBSET Byte], NEW n \in 0 .. N - 1, NEW b \in Byte
  PROVE  8 * n + b \in FlatBits(a) <=> b \in a[n]
<1>1. n \in Int /\ b \in Int /\ 0 <= b /\ b <= 7 /\ N \in Int /\ 0 <= n /\ n <= N - 1
  BY BitFieldAssumption DEF Byte
<1>2. (8 * n + b) \div 8 = n /\ (8 * n + b) % 8 = b /\ 8 * n + b \in 0 .. 8 * N - 1
  BY <1>1
<1> QED BY <1>2 DEF FlatBits

\* A bit of a field that is not in the first byte is in the last.
LEMMA InLast ==
  ASSUME NEW s \in Int, NEW e \in Int, NEW low \in Int, NEW high \in Int, NEW b \in Int,
         e = s \/ e = s + 1, high <= 8 * e + 7, b <= high - low, ~(low + b - 8 * s <= 7)
  PROVE  0 <= low + b - 8 * e /\ low + b - 8 * e <= 7
<1>1. CASE e = s
  BY <1>1
<1>2. CASE e = s + 1
  BY <1>2
<1> QED BY <1>1, <1>2

\* The shifts of a byte cancel to its distance from the beginning of the field.
LEMMA Distance ==
  ASSUME NEW s \in Int, NEW n \in Int, NEW low \in Int,
         8 * s <= low, low <= 8 * s + 7, n = s \/ n = s + 1
  PROVE  \/ n = s /\ low - 8 * n \in 0 .. 7 /\ (low - 8 * n) - 0 = low - 8 * n
         \/ n # s /\ 8 * n - low \in 0 .. 8 /\ 0 - (8 * n - low) = low - 8 * n
<1>1. CASE n = s
  BY <1>1
<1>2. CASE n = s + 1
  <2>1. n # s /\ 8 * n = 8 * s + 8
    BY <1>2
  <2> QED BY <2>1
<1> QED BY <1>1, <1>2

\* One byte gives the bits of the field it holds, at their places in the value.
LEMMA ExtractsByte ==
  ASSUME NEW f \in Fields, NEW vv \in SUBSET Byte, NEW n \in Start(f) .. End(f), NEW b
  PROVE  b \in doTheExtract(f, IF n = Start(f) THEN FrontMaskOffset(f) ELSE 0,
                            Rshift(f, n - Start(f)), mask(f, n), vv)
           <=> b \in 0 .. f.high - f.low /\ f.low + b - 8 * n \in vv
<1>0. /\ N \in Int /\ f.low \in Int /\ f.high \in Int /\ 0 <= f.low /\ f.low <= f.high
      /\ Start(f) \in Int /\ 0 <= Start(f) /\ Start(f) <= N - 1
      /\ End(f) \in Int /\ 0 <= End(f) /\ End(f) <= N - 1
      /\ 8 * Start(f) <= f.low /\ f.low <= 8 * Start(f) + 7
      /\ 8 * End(f) <= f.high /\ f.high <= 8 * End(f) + 7
      /\ End(f) = Start(f) \/ End(f) = Start(f) + 1
  BY Span
<1> DEFINE l == IF n = Start(f) THEN f.low - 8 * n ELSE 0
           r == IF n = Start(f) THEN 0 ELSE 8 * n - f.low
<1>1. FrontMaskOffset(f) = f.low - 8 * Start(f) /\ n \in Int
  BY Offsets, <1>0
<1>2. (IF n = Start(f) THEN FrontMaskOffset(f) ELSE 0) = l /\ Rshift(f, n - Start(f)) = r
  BY <1>1, <1>0 DEF Rshift
<1>3. /\ n = Start(f) \/ n = Start(f) + 1
      /\ l \in 0 .. 7 /\ r \in 0 .. 8 /\ l - r = f.low - 8 * n
  <2>1. n = Start(f) \/ n = Start(f) + 1
    BY <1>1, <1>0
  <2>2. \/ n = Start(f) /\ f.low - 8 * n \in 0 .. 7 /\ (f.low - 8 * n) - 0 = f.low - 8 * n
        \/ n # Start(f) /\ 8 * n - f.low \in 0 .. 8 /\ 0 - (8 * n - f.low) = f.low - 8 * n
    BY <2>1, <1>1, <1>0, Distance
  <2>3. CASE n = Start(f)
    <3>1. l = f.low - 8 * n /\ r = 0
      BY <2>3
    <3> QED BY <2>1, <2>2, <2>3, <3>1
  <2>4. CASE n # Start(f)
    <3>1. l = 0 /\ r = 8 * n - f.low
      BY <2>4
    <3> QED BY <2>1, <2>2, <2>4, <3>1
  <2> QED BY <2>3, <2>4
<1>4. f.high - f.low < Width(f) /\ Width(f) \in {8, 16, 32} /\ f.high - f.low <= 15
  BY <1>0 DEF Width
<1>5. b \in doTheExtract(f, l, r, mask(f, n), vv) <=>
        /\ b \in 0 .. 31 /\ b \in 0 .. Width(f) - 1 /\ b - r \in 0 .. 31
        /\ (b - r) + l \in vv /\ (b - r) + l \in mask(f, n)
  BY DEF doTheExtract, Shl, Shr, Word
<1>6. CASE b \in Int
  <2>1. (b - r) + l = f.low + b - 8 * n
    BY <1>1, <1>3, <1>6, <1>0
  <2>2. f.low + b - 8 * n \in mask(f, n) <=>
          f.low + b - 8 * n \in Byte /\ 0 <= b /\ b <= f.high - f.low
    BY <1>1, <1>6, <1>0, MaskBits
  <2>3. 0 <= b /\ f.low + b - 8 * n \in Byte => b - r \in 0 .. 31
    <3>1. CASE n = Start(f)
      BY <1>6, <3>1, <1>0 DEF Byte
    <3>2. CASE n = Start(f) + 1
      BY <1>6, <3>2, <1>0 DEF Byte
    <3> QED BY <1>3, <3>1, <3>2
  <2> QED BY <1>2, <1>4, <1>5, <1>6, <2>1, <2>2, <2>3, <1>0 DEF Byte
<1>7. CASE b \notin Int
  BY <1>2, <1>5, <1>7, <1>0
<1> QED BY <1>6, <1>7

\* extract reads the bits low .. high of the row.
LEMMA ExtractIsField ==
  ASSUME NEW f \in Fields, NEW a \in [0 .. N - 1 -> SUBSET Byte]
  PROVE  extract(f, a) = FlatField(f, FlatBits(a))
<1>0. /\ N \in Int /\ f.low \in Int /\ f.high \in Int /\ 0 <= f.low /\ f.low <= f.high
      /\ Start(f) \in Int /\ 0 <= Start(f) /\ Start(f) <= N - 1
      /\ End(f) \in Int /\ 0 <= End(f) /\ End(f) <= N - 1
      /\ 8 * Start(f) <= f.low /\ f.low <= 8 * Start(f) + 7
      /\ 8 * End(f) <= f.high /\ f.high <= 8 * End(f) + 7
      /\ End(f) = Start(f) \/ End(f) = Start(f) + 1
  BY Span
<1> SUFFICES ASSUME NEW b PROVE b \in extract(f, a) <=> b \in FlatField(f, FlatBits(a))
  OBVIOUS
<1>1. Start(f) .. End(f) \subseteq 0 .. N - 1
  BY <1>0
<1> DEFINE piece(n) == doTheExtract(f, IF n = Start(f) THEN FrontMaskOffset(f) ELSE 0,
                                      Rshift(f, n - Start(f)), mask(f, n), a[n])
<1>a. \A n \in Start(f) .. End(f) :
        b \in piece(n) <=> b \in 0 .. f.high - f.low /\ f.low + b - 8 * n \in a[n]
  BY <1>1, ExtractsByte
<1>b. extract(f, a) = UNION {piece(n) : n \in Start(f) .. End(f)}
  BY DEF extract
<1>2. b \in extract(f, a) <=>
        \E n \in Start(f) .. End(f) : b \in 0 .. f.high - f.low /\ f.low + b - 8 * n \in a[n]
  <2> HIDE DEF piece
  <2> QED BY <1>a, <1>b
<1>3. CASE b \in 0 .. f.high - f.low
  <2>0. \A i \in Start(f) .. End(f) : i \in Int /\ (i = Start(f) \/ i = End(f))
    BY <1>0
  <2>1. PICK n \in Start(f) .. End(f) : f.low + b - 8 * n \in Byte
    <3>1. Start(f) \in Start(f) .. End(f) /\ End(f) \in Start(f) .. End(f)
      BY <1>0
    <3>2. f.low + b - 8 * Start(f) \in Byte \/ f.low + b - 8 * End(f) \in Byte
      <4>1. b \in Int /\ 0 <= b /\ b <= f.high - f.low
        BY <1>3, <1>0
      <4> SUFFICES ASSUME f.low + b - 8 * Start(f) \notin Byte
                   PROVE  f.low + b - 8 * End(f) \in Byte
        OBVIOUS
      <4>2. f.low + b - 8 * Start(f) \in Int /\ 0 <= f.low + b - 8 * Start(f)
        BY <4>1, <1>0
      <4>3. ~(f.low + b - 8 * Start(f) <= 7)
        BY <4>2 DEF Byte
      <4>4. 0 <= f.low + b - 8 * End(f) /\ f.low + b - 8 * End(f) <= 7
        BY <4>1, <4>3, <1>0, InLast
      <4>5. f.low + b - 8 * End(f) \in Int
        BY <4>1, <1>0
      <4> QED BY <4>4, <4>5 DEF Byte
    <3> QED BY <3>1, <3>2
  <2>2. ASSUME NEW i \in Start(f) .. End(f), f.low + b - 8 * i \in Byte PROVE i = n
    <3>1. i \in Int /\ n \in Int /\ b \in Int /\ f.low \in Int
      BY <1>3, <2>0, <1>0
    <3>2. /\ 0 <= f.low + b - 8 * i /\ f.low + b - 8 * i <= 7
          /\ 0 <= f.low + b - 8 * n /\ f.low + b - 8 * n <= 7
      <4>1. \A x \in Byte : 0 <= x /\ x <= 7
        BY DEF Byte
      <4> QED BY <2>1, <2>2, <4>1, Zenon
    <3> HIDE DEF piece
    <3> QED BY <3>1, <3>2
  <2>3. \A i \in Start(f) .. End(f) : f.low + b - 8 * i \in a[i] => i = n
    BY <1>1, <2>2
  <2>4. f.low + b = 8 * n + (f.low + b - 8 * n)
    BY <1>3, <2>1, <1>0
  <2>5. f.low + b \in FlatBits(a) <=> f.low + b - 8 * n \in a[n]
    BY <1>1, <2>1, <2>4, Row
  <2> QED BY <1>2, <1>3, <2>1, <2>3, <2>5 DEF FlatField
<1>4. CASE b \notin 0 .. f.high - f.low
  BY <1>2, <1>4 DEF FlatField
<1> QED BY <1>3, <1>4

\* One byte of the message gets the bits of the value that belong to it, and keeps the rest.
LEMMA CombinesByte ==
  ASSUME NEW f \in Fields, NEW v \in SUBSET (0 .. f.high - f.low), NEW n \in Start(f) .. End(f),
         NEW vv \in SUBSET Byte, NEW c \in Byte, NEW p \in Int, p = 8 * n + c
  PROVE  c \in doTheCombine(v, IF n = Start(f) THEN FrontMaskOffset(f) ELSE 0,
                            IF n = End(f) THEN EndShift(f) ELSE 0, mask(f, n), vv)
           <=> IF f.low <= p /\ p <= f.high THEN p - f.low \in v ELSE c \in vv
<1>0. /\ f.low \in Int /\ f.high \in Int /\ Start(f) \in Int /\ End(f) \in Int /\ n \in Int
      /\ 8 * Start(f) <= f.low /\ f.low <= 8 * Start(f) + 7
      /\ End(f) = Start(f) \/ End(f) = Start(f) + 1
      /\ c \in Int /\ 0 <= c /\ c <= 7
  BY Span DEF Byte
<1> DEFINE l == IF n = Start(f) THEN FrontMaskOffset(f) ELSE 0
           r == IF n = End(f) THEN EndShift(f) ELSE 0
<1>1. l \in 0 .. 7 /\ r \in 0 .. 8 /\ r - l = 8 * n - f.low
  <2>1. n = Start(f) \/ (n = End(f) /\ n = Start(f) + 1)
    BY <1>0
  <2>2. CASE n = Start(f)
    <3>1. r = 0
      BY <2>2, <1>0 DEF EndShift
    <3>2. l = f.low - 8 * n
      BY <2>2, Offsets
    <3> HIDE DEF l, r
    <3> QED BY <2>2, <3>1, <3>2, <1>0
  <2>3. CASE n = End(f) /\ n = Start(f) + 1
    <3>1. n # Start(f) /\ End(f) # Start(f) /\ (End(f) - Start(f)) * 8 = 8
      BY <2>3, <1>0
    <3>2. l = 0
      BY <3>1
    <3>3. FrontMaskOffset(f) = f.low - 8 * Start(f) /\ BackMaskOffset(f) = 0
      BY <3>1, Offsets
    <3>4. r = 8 - (f.low - 8 * Start(f))
      <4>1. r = 8 - ((f.low - 8 * Start(f)) + 0)
        BY <2>3, <3>1, <3>3 DEF EndShift
      <4> HIDE DEF r
      <4> QED BY <4>1, <1>0
    <3> HIDE DEF l, r
    <3> QED BY <2>3, <3>2, <3>4, <1>0
  <2> QED BY <2>1, <2>2, <2>3
<1>2. c \in doTheCombine(v, l, r, mask(f, n), vv) <=>
        IF c \in mask(f, n)
        THEN c \in 0 .. 31 /\ c + r \in 0 .. 31 /\ (c + r) - l \in v
        ELSE c \in vv
  <2> HIDE DEF l, r
  <2> QED BY DEF doTheCombine, Shl, Shr, Word
<1>3. c \in mask(f, n) <=> f.low <= p /\ p <= f.high
  BY MaskBits
<1>4. c \in 0 .. 31 /\ c + r \in 0 .. 31 /\ (c + r) - l = p - f.low
  <2> HIDE DEF l, r
  <2> QED BY <1>0, <1>1
<1> HIDE DEF l, r
<1>5. c \in doTheCombine(v, l, r, mask(f, n), vv) <=>
        IF f.low <= p /\ p <= f.high THEN p - f.low \in v ELSE c \in vv
  BY <1>2, <1>3, <1>4
<1> QED BY <1>5 DEF l, r

\* combineInto writes the bits low .. high of the row and no others.
LEMMA CombineIsFlat ==
  ASSUME NEW f \in Fields, NEW v \in SUBSET (0 .. f.high - f.low),
         NEW a \in [0 .. N - 1 -> SUBSET Byte]
  PROVE  /\ combineInto(f, v, a) \in [0 .. N - 1 -> SUBSET Byte]
         /\ FlatBits(combineInto(f, v, a)) = FlatWith(f, v, FlatBits(a))
<1>0. /\ N \in Int /\ f.low \in Int /\ f.high \in Int
      /\ Start(f) \in Int /\ End(f) \in Int
      /\ 8 * Start(f) <= f.low /\ f.high <= 8 * End(f) + 7
  BY Span
<1> DEFINE new == combineInto(f, v, a)
           put(n) == doTheCombine(v, IF n = Start(f) THEN FrontMaskOffset(f) ELSE 0,
                                  IF n = End(f) THEN EndShift(f) ELSE 0, mask(f, n), a[n])
<1>1. new = [n \in 0 .. N - 1 |-> IF n \in Start(f) .. End(f) THEN put(n) ELSE a[n]]
  BY DEF combineInto
<1>2. \A n \in 0 .. N - 1 : put(n) \subseteq Byte
  BY DEF doTheCombine, mask
<1>3. new \in [0 .. N - 1 -> SUBSET Byte]
  <2> HIDE DEF put, new
  <2> QED BY <1>1, <1>2
<1>4. ASSUME NEW p PROVE p \in FlatBits(new) <=> p \in FlatWith(f, v, FlatBits(a))
  <2>1. CASE p \notin 0 .. 8 * N - 1
    BY <2>1 DEF FlatBits, FlatWith
  <2>2. CASE p \in 0 .. 8 * N - 1
    <3> DEFINE n == p \div 8
               c == p % 8
    <3>1. n \in 0 .. N - 1 /\ c \in Byte /\ n \in Int /\ c \in Int /\ 0 <= c /\ c <= 7 /\ p = 8 * n + c
      BY <2>2, <1>0 DEF Byte
    <3> HIDE DEF n, c
    <3>2. /\ p \in FlatBits(new) <=> c \in new[n]
          /\ p \in FlatBits(a) <=> c \in a[n]
      BY <1>3, <3>1, Row
    <3>3. p \in FlatWith(f, v, FlatBits(a)) <=>
            IF f.low <= p /\ p <= f.high THEN p - f.low \in v ELSE c \in a[n]
      BY <2>2, <3>2, <1>0 DEF FlatWith
    <3>4. CASE n \in Start(f) .. End(f)
      <4>1. c \in put(n) <=> IF f.low <= p /\ p <= f.high THEN p - f.low \in v ELSE c \in a[n]
        <5>1. a[n] \in SUBSET Byte /\ p \in Int /\ p = 8 * n + c
          BY <3>1
        <5> QED BY <3>1, <3>4, <5>1, CombinesByte
      <4>2. new[n] = put(n)
        BY <1>1, <3>1, <3>4
      <4> HIDE DEF put, new
      <4> QED BY <3>2, <3>3, <4>1, <4>2
    <3>5. CASE n \notin Start(f) .. End(f)
      <4>1. new[n] = a[n]
        BY <1>1, <3>1, <3>5
      <4>2. ~(f.low <= p /\ p <= f.high)
        <5>1. n < Start(f) \/ n > End(f)
          BY <3>1, <3>5, <1>0
        <5> QED BY <5>1, <3>1, <1>0
      <4> HIDE DEF new
      <4> QED BY <3>2, <3>3, <4>1, <4>2
    <3> QED BY <3>4, <3>5
  <2> QED BY <2>1, <2>2
<1> QED BY <1>3, <1>4 DEF FlatBits, FlatWith

\* The masks and shifts of every field of one or two bytes, of every message, agree
\* with the numbers of its bits, whatever was received and put there before.
THEOREM AlwaysAsLaidOut == FieldSpec => []AsLaidOut
<1>1. \A f \in Fields, a \in [0 .. N - 1 -> SUBSET Byte] : extract(f, a) = FlatField(f, FlatBits(a))
  BY ExtractIsField
<1>2. FieldInit => AsLaidOut
  BY <1>1, BitFieldAssumption DEF FieldInit, AsLaidOut
<1>3. AsLaidOut /\ [FieldNext]_fieldVars => AsLaidOut'
  <2> SUFFICES ASSUME AsLaidOut, [FieldNext]_fieldVars PROVE AsLaidOut'
    OBVIOUS
  <2>1. SUFFICES bytes' \in [0 .. N - 1 -> SUBSET Byte] /\ flat' = FlatBits(bytes')
    BY <1>1 DEF AsLaidOut
  <2>2. bytes \in [0 .. N - 1 -> SUBSET Byte] /\ flat = FlatBits(bytes)
    BY DEF AsLaidOut
  <2>3. CASE Receive
    BY <2>3, BitFieldAssumption DEF Receive
  <2>4. ASSUME NEW f \in Fields, NEW v \in SUBSET Word,
               bytes' = combineInto(f, sanitize(f, v), bytes),
               flat' = FlatWith(f, sanitize(f, v), flat)
        PROVE  bytes' \in [0 .. N - 1 -> SUBSET Byte] /\ flat' = FlatBits(bytes')
    BY <2>2, <2>4, SanitizeFits, CombineIsFlat
  <2>5. ASSUME NEW f \in Fields, Correct(f)
        PROVE  bytes' \in [0 .. N - 1 -> SUBSET Byte] /\ flat' = FlatBits(bytes')
    <3>1. extract(f, bytes) = FlatField(f, flat)
      BY <1>1, <2>2
    <3>2. extract(f, bytes) \in SUBSET Word
      BY DEF extract, doTheExtract, Shl
    <3> QED BY <2>4, <2>5, <3>1, <3>2 DEF Correct
  <2>6. ASSUME NEW f \in Fields, NEW v \in Assigned, Combine(f, v)
        PROVE  bytes' \in [0 .. N - 1 -> SUBSET Byte] /\ flat' = FlatBits(bytes')
    BY <2>4, <2>6, BitFieldAssumption DEF Combine
  <2>7. CASE UNCHANGED fieldVars
    BY <2>2, <2>7 DEF fieldVars
  <2> QED BY <2>3, <2>5, <2>6, <2>7 DEF FieldNext
<1> QED BY <1>2, <1>3, PTL DEF FieldSpec
-----------------------------------------------------------------------------
\* What the buffers hold: a function in a function has a callable or was empty itself.
FunctionInv ==
  /\ DOMAIN storage = Functions /\ DOMAIN given = Functions
  /\ invoke_ptr \in [Functions -> {"null", "callable", "function"}]
  /\ invoke_ptr["small"] # "function"
  /\ \A f \in Functions :
       /\ invoke_ptr[f] = "null" => given[f] = {}
       /\ invoke_ptr[f] = "callable" => given[f] = {storage[f]}
       /\ invoke_ptr[f] = "function" =>
            given[f] = {IF storage[f].invoke_ptr = "null" THEN Nothing ELSE storage[f].storage}

\* A function says it is set exactly when it was given something, and a call runs what was
\* given last, through a function in a function too, for all callables.
THEOREM AlwaysCallsWhatIsMeant == FunctionSpec => []CallsWhatIsMeant
<1>1. FunctionInit => FunctionInv
  BY DEF FunctionInit, FunctionInv, Functions
<1>2. FunctionInv /\ [FunctionNext]_functionVars => FunctionInv'
  <2> SUFFICES ASSUME FunctionInv, [FunctionNext]_functionVars PROVE FunctionInv'
    OBVIOUS
  <2>1. ASSUME NEW f \in Functions, reset(f) PROVE FunctionInv'
    BY <2>1 DEF reset, Holds, FunctionInv
  <2>2. ASSUME NEW f \in Functions, NEW c \in Callables, Store(f, c) PROVE FunctionInv'
    BY <2>2 DEF Store, Holds, FunctionInv
  <2>3. ASSUME NEW f \in Functions, NEW s \in Callables, NEW p \in {"null", "callable"},
               Copy(f, s, p)
        PROVE  FunctionInv'
    BY <2>3 DEF Copy, Holds, FunctionInv
  <2>4. CASE WrapCallable
    <3>1. Runs("small") = IF invoke_ptr["small"] = "null" THEN Nothing ELSE storage["small"]
      BY DEF Runs, FunctionInv, Functions
    <3> QED BY <2>4, <3>1 DEF WrapCallable, Holds, FunctionInv, Functions
  <2>5. CASE UNCHANGED functionVars
    BY <2>5 DEF functionVars, FunctionInv
  <2> QED BY <2>1, <2>2, <2>3, <2>4, <2>5 DEF FunctionNext
<1>3. FunctionInv => CallsWhatIsMeant
  BY DEF FunctionInv, CallsWhatIsMeant, Runs, IsSet, Functions
<1> QED BY <1>1, <1>2, <1>3, PTL DEF FunctionSpec
-----------------------------------------------------------------------------
\* f has the sums of the first elements of s.
SumsUp(s, f) ==
  f \in [0 .. Len(s) -> Nat] /\ f[0] = 0 /\ \A i \in 1 .. Len(s) : f[i] = f[i - 1] + s[i]

LEMMA SumsUpUnique ==
  ASSUME NEW s \in Seq(Nat), NEW q \in Seq(Nat), Len(s) <= Len(q),
         \A i \in 1 .. Len(s) : s[i] = q[i], NEW f, NEW g, SumsUp(s, f), SumsUp(q, g)
  PROVE  \A i \in 0 .. Len(s) : f[i] = g[i]
<1> DEFINE S == {i \in Nat : f[i] = g[i]}
<1>0. Len(s) \in Nat /\ Len(q) \in Nat
  OBVIOUS
<1>1. 0 \in S
  BY DEF SumsUp
<1>2. ASSUME NEW i \in 1 .. Len(s), i - 1 \in S PROVE i \in S
  <2>1. i \in 1 .. Len(q) /\ i \in Nat
    BY <1>0
  <2>2. f[i] = f[i - 1] + s[i] /\ g[i] = g[i - 1] + q[i]
    BY <2>1 DEF SumsUp
  <2> QED BY <1>2, <2>1, <2>2
<1>3. \A i \in 0 .. Len(s) : i \in S
  <2> HIDE DEF S
  <2> QED BY <1>0, <1>1, <1>2, InductionTo
<1> QED BY <1>3

LEMMA TotalSumsUp ==
  ASSUME NEW s \in Seq(Nat)
  PROVE  \E f : SumsUp(s, f) /\ Total(s) = f[Len(s)]
<1> DEFINE Fcn(g) == g = [n \in 0 .. Len(s) |-> IF n = 0 THEN 0 ELSE g[n - 1] + s[n]]
           f == CHOOSE g : Fcn(g)
           step == [p \in Nat \X (1 .. Len(s)) |-> p[1] + s[p[2]]]
<1>0. Len(s) \in Nat /\ \A i \in 1 .. Len(s) : s[i] \in Nat
  OBVIOUS
<1>1. step \in [Nat \X (1 .. Len(s)) -> Nat]
  BY <1>0
<1>2. PICK g \in [0 .. Len(s) -> Nat] : RecursTo(Len(s), g, 0, step)
  <2> HIDE DEF step
  <2> QED BY <1>0, <1>1, RecursionTo
<1>3. \A i \in 1 .. Len(s) : g[i] = g[i - 1] + s[i]
  <2> SUFFICES ASSUME NEW i \in 1 .. Len(s) PROVE g[i] = g[i - 1] + s[i]
    OBVIOUS
  <2>1. i - 1 \in 0 .. Len(s)
    BY <1>0
  <2>2. g[i] = step[<<g[i - 1], i>>] /\ g[i - 1] \in Nat
    <3> HIDE DEF step
    <3> QED BY <1>2, <2>1 DEF RecursTo
  <2>3. step[<<g[i - 1], i>>] = g[i - 1] + s[i]
    BY <2>2
  <2> HIDE DEF step
  <2> QED BY <2>2, <2>3
<1> HIDE DEF step
<1>4. Fcn(g)
  <2>1. \A i \in 0 .. Len(s) : g[i] = IF i = 0 THEN 0 ELSE g[i - 1] + s[i]
    <3> HIDE DEF Fcn
    <3>1. g[0] = 0
      BY <1>2 DEF RecursTo
    <3> QED BY <1>0, <1>3, <3>1
  <2> QED BY <1>2, <2>1
<1>5. Fcn(f)
  <2> HIDE DEF Fcn
  <2> QED BY <1>4, Zenon
<1>6. Total(s) = f[Len(s)]
  BY DEF Total
<1> HIDE DEF f
<1>7. f[0] = 0 /\ \A i \in 1 .. Len(s) : f[i] = f[i - 1] + s[i]
  <2>1. \A i \in 0 .. Len(s) : f[i] = IF i = 0 THEN 0 ELSE f[i - 1] + s[i]
    BY <1>5
  <2>2. 0 \in 0 .. Len(s) /\ \A i \in 1 .. Len(s) : i \in 0 .. Len(s) /\ i # 0
    BY <1>0
  <2> QED BY <2>1, <2>2
<1>8. \A i \in 0 .. Len(s) : i \in {j \in Nat : f[j] \in Nat}
  <2> DEFINE S == {j \in Nat : f[j] \in Nat}
  <2>1. 0 \in S
    BY <1>7
  <2>2. ASSUME NEW i \in 1 .. Len(s), i - 1 \in S PROVE i \in S
    BY <1>0, <1>7, <2>2
  <2> HIDE DEF S
  <2>3. \A i \in 0 .. Len(s) : i \in S
    BY <1>0, <2>1, <2>2, InductionTo
  <2> QED BY <2>3 DEF S
<1>9. f \in [0 .. Len(s) -> Nat]
  BY <1>5, <1>8
<1> QED BY <1>6, <1>7, <1>9 DEF SumsUp

\* The sum of a sequence: of none, and with one more.
LEMMA TotalStep ==
  ASSUME NEW s \in Seq(Nat)
  PROVE  /\ Total(s) \in Nat
         /\ s = <<>> => Total(s) = 0
         /\ \A x \in Nat : Total(Append(s, x)) = Total(s) + x
<1>1. PICK f : SumsUp(s, f) /\ Total(s) = f[Len(s)]
  BY TotalSumsUp
<1>2. Total(s) \in Nat /\ (s = <<>> => Total(s) = 0)
  BY <1>1 DEF SumsUp
<1>3. ASSUME NEW x \in Nat PROVE Total(Append(s, x)) = Total(s) + x
  <2> DEFINE q == Append(s, x)
  <2>0. q \in Seq(Nat) /\ Len(q) = Len(s) + 1 /\ q[Len(s) + 1] = x
        /\ \A n \in 1 .. Len(s) : q[n] = s[n]
    OBVIOUS
  <2> HIDE DEF q
  <2>1. PICK g : SumsUp(q, g) /\ Total(q) = g[Len(q)]
    BY <2>0, TotalSumsUp
  <2>2. f[Len(s)] = g[Len(s)]
    <3>1. Len(s) <= Len(q) /\ Len(s) \in 0 .. Len(s)
      BY <2>0
    <3> QED BY <1>1, <2>0, <2>1, <3>1, SumsUpUnique
  <2>3. g[Len(q)] = g[Len(s)] + x
    <3>1. Len(q) \in 1 .. Len(q) /\ Len(q) - 1 = Len(s) /\ q[Len(q)] = x
      BY <2>0
    <3> QED BY <2>1, <3>1 DEF SumsUp
  <2> QED BY <1>1, <2>1, <2>2, <2>3 DEF q
<1> QED BY <1>2, <1>3
-----------------------------------------------------------------------------
\* x \in -w .. 3w - 1 brought into the range of a counter.
LEMMA Wraps ==
  ASSUME NEW w \in Nat, w > 0, NEW x \in Int
  PROVE  /\ x \in 0 .. w - 1 => x % w = x
         /\ x \in w .. 2 * w - 1 => x % w = x - w
         /\ x \in 2 * w .. 3 * w - 1 => x % w = x - 2 * w
         /\ x \in -w .. -1 => x % w = x + w
OBVIOUS

\* What a counter shows n cycles on, and how many cycles that was, if it wrapped or not.
LEMMA Elapsed ==
  ASSUME NEW w \in Nat, w > 0, NEW c \in 0 .. w - 1, NEW n \in 0 .. w - 1,
         NEW d, d = (c + n) % w
  PROVE  d \in 0 .. w - 1 /\ (d - c) % w = n
<1>1. CASE c + n <= w - 1
  <2>1. d = c + n
    BY <1>1, Wraps
  <2> QED BY <2>1, Wraps
<1>2. CASE c + n > w - 1
  <2>1. d = c + n - w /\ c + n \in w .. 2 * w - 1
    BY <1>2, Wraps
  <2>2. d \in 0 .. w - 1
    BY <2>1
  <2>3. d - c = n - w
    BY <2>1
  <2>4. (n - w) % w = n
    <3>1. CASE n = 0
      <4>1. -w \in -w .. -1 /\ -w \in Int
        OBVIOUS
      <4>2. (-w) % w = 0
        BY <4>1, Wraps
      <4> QED BY <3>1, <4>2
    <3>2. CASE n # 0
      <4>1. n - w \in -w .. -1 /\ n - w \in Int
        BY <3>2
      <4> QED BY <4>1, Wraps
    <3> QED BY <3>1, <3>2
  <2> QED BY <2>2, <2>3, <2>4
<1> QED BY <1>1, <1>2

LEMMA OneWrapMore ==
  ASSUME NEW w \in Nat, w > 0, NEW y \in 0 .. 2 * w - 2, NEW z, z = y + w
  PROVE  z % w = y % w
<1>1. CASE y <= w - 1
  <2>1. z \in w .. 2 * w - 1 /\ y \in 0 .. w - 1 /\ y \in Int /\ z \in Int /\ z - w = y
    BY <1>1
  <2>2. y % w = y
    BY <2>1, Wraps
  <2>3. z % w = z - w
    BY <2>1, Wraps
  <2> QED BY <2>1, <2>2, <2>3
<1>2. CASE y > w - 1
  <2>1. z \in 2 * w .. 3 * w - 1 /\ y \in w .. 2 * w - 1 /\ y \in Int /\ z \in Int
        /\ z - 2 * w = y - w
    BY <1>2
  <2>2. y % w = y - w
    BY <2>1, Wraps
  <2>3. z % w = z - 2 * w
    BY <2>1, Wraps
  <2> QED BY <2>1, <2>2, <2>3
<1> QED BY <1>1, <1>2

\* Two spans one after the other.
LEMMA ElapsedTwice ==
  ASSUME NEW w \in Nat, w > 0, NEW c \in 0 .. w - 1, NEW n \in 0 .. w - 1, NEW m \in 0 .. w - 1
  PROVE  (c + n + m) % w = (((c + n) % w) + m) % w
<1>1. CASE c + n <= w - 1
  <2>1. (c + n) % w = c + n
    BY <1>1, Wraps
  <2> QED BY <2>1
<1>2. CASE c + n > w - 1
  <2>1. PICK d \in 0 .. w - 1 : d = c + n - w /\ (c + n) % w = d
    <3>1. c + n \in w .. 2 * w - 1
      BY <1>2
    <3> QED BY <3>1, Wraps
  <2>2. PICK y \in 0 .. 2 * w - 2 : y = d + m
    OBVIOUS
  <2>3. c + n + m = y + w
    BY <2>1, <2>2
  <2>4. (c + n + m) % w = y % w
    BY <2>3, OneWrapMore
  <2> QED BY <2>1, <2>2, <2>4
<1> QED BY <1>1, <1>2

\* v is the sum, the least or the greatest of the first n of s; of none a field has the
\* value it begins with.
IsTotal(v, s, n)    == v = Total(SubSeq(s, 1, n))
IsLeast(v, s, n)    == /\ v \in 0 .. CounterWrap - 1 /\ \A i \in 1 .. n : v <= s[i]
                       /\ v = CounterWrap - 1 \/ \E i \in 1 .. n : v = s[i]
IsGreatest(v, s, n) == /\ v \in 0 .. CounterWrap - 1 /\ \A i \in 1 .. n : v >= s[i]
                       /\ v = 0 \/ \E i \in 1 .. n : v = s[i]

Spans == 0 .. CounterWrap - 1

LEMMA TotalMore ==
  ASSUME NEW s \in Seq(Nat), NEW n \in 0 .. Len(s) - 1, NEW v, IsTotal(v, s, n)
  PROVE  v \in Nat /\ IsTotal(v + s[n + 1], s, n + 1)
<1>1. SubSeq(s, 1, n) \in Seq(Nat) /\ s[n + 1] \in Nat
  OBVIOUS
<1>2. SubSeq(s, 1, n + 1) = Append(SubSeq(s, 1, n), s[n + 1])
  OBVIOUS
<1> QED BY <1>1, <1>2, TotalStep DEF IsTotal

LEMMA LeastMore ==
  ASSUME NEW s \in Seq(Spans), NEW n \in 0 .. Len(s) - 1, NEW v, IsLeast(v, s, n)
  PROVE  IsLeast(IF s[n + 1] < v THEN s[n + 1] ELSE v, s, n + 1)
<1>1. s[n + 1] \in Spans /\ \A i \in 1 .. n + 1 : i \in 1 .. n \/ i = n + 1
  OBVIOUS
<1>2. \A i \in 1 .. n + 1 : s[i] \in Spans
  OBVIOUS
<1> QED BY <1>1, <1>2 DEF IsLeast, Spans

LEMMA GreatestMore ==
  ASSUME NEW s \in Seq(Spans), NEW n \in 0 .. Len(s) - 1, NEW v, IsGreatest(v, s, n)
  PROVE  IsGreatest(IF s[n + 1] > v THEN s[n + 1] ELSE v, s, n + 1)
<1>1. s[n + 1] \in Spans /\ \A i \in 1 .. n + 1 : i \in 1 .. n \/ i = n + 1
  OBVIOUS
<1>2. \A i \in 1 .. n + 1 : s[i] \in Spans
  OBVIOUS
<1> QED BY <1>1, <1>2 DEF IsGreatest, Spans

\* What comes behind does not matter.
LEMMA FirstOnes ==
  ASSUME NEW s \in Seq(Spans), NEW x \in Spans, NEW n \in 0 .. Len(s), NEW q, q = Append(s, x), NEW v
  PROVE  /\ SubSeq(q, 1, n) = SubSeq(s, 1, n)
         /\ IsTotal(v, q, n) <=> IsTotal(v, s, n)
         /\ IsLeast(v, q, n) <=> IsLeast(v, s, n)
         /\ IsGreatest(v, q, n) <=> IsGreatest(v, s, n)
<1>1. SubSeq(q, 1, n) = SubSeq(s, 1, n) /\ \A i \in 1 .. n : q[i] = s[i]
  OBVIOUS
<1> QED BY <1>1 DEF IsTotal, IsLeast, IsGreatest
-----------------------------------------------------------------------------
\* The runs and intervals that step k of record() is done with.
Done(k)     == IF rpc \in 1 .. k THEN Len(took) - 1 ELSE Len(took)
DoneGaps(k) == IF rpc \in 1 .. k /\ hasFirst THEN Len(gaps) - 1 ELSE Len(gaps)

Figure == {"callCount", "totalInterval", "totalDuration", "minInterval", "maxInterval",
           "lastCallTime", "minDuration", "maxDuration"}

ProfileTypes ==
  /\ rpc \in 0 .. 8 /\ spc \in -1 .. 8 /\ before \in Nat /\ hasFirst \in BOOLEAN
  /\ enter \in Spans /\ exit \in Spans /\ last \in Spans
  /\ took \in Seq(Spans) /\ gaps \in Seq(Spans)
  /\ stats \in [Figure -> Nat] /\ stats["lastCallTime"] \in Spans /\ DOMAIN snap = Figure

\* There is an interval but before the first run; hasFirst is set on the way.
Places ==
  /\ Len(gaps) = IF took = <<>> THEN 0 ELSE Len(took) - 1
  /\ rpc # 0 => took # <<>>
  /\ rpc = 0 => (hasFirst <=> took # <<>>)
  /\ rpc \in 1 .. 3 => (hasFirst <=> gaps # <<>>)
  /\ rpc \in 4 .. 8 => hasFirst
  /\ rpc \in 4 .. 5 => gaps # <<>>

\* The counter readings record() has are those of its run.
Times ==
  /\ rpc # 1 => stats["lastCallTime"] = enter
  /\ rpc = 1 /\ gaps # <<>> => Cycles(stats["lastCallTime"], enter) = gaps[Len(gaps)]
  /\ rpc \in 2 .. 8 /\ gaps # <<>> => Cycles(last, enter) = gaps[Len(gaps)]
  /\ rpc # 0 => Cycles(enter, exit) = took[Len(took)]

\* Every figure is that of the runs record() has added to it.
Figures ==
  /\ stats["callCount"] = Done(2)
  /\ IsLeast(stats["minInterval"], gaps, DoneGaps(3))
  /\ IsGreatest(stats["maxInterval"], gaps, DoneGaps(4))
  /\ IsTotal(stats["totalInterval"], gaps, DoneGaps(5))
  /\ IsLeast(stats["minDuration"], took, Done(6))
  /\ IsGreatest(stats["maxDuration"], took, Done(7))
  /\ IsTotal(stats["totalDuration"], took, Done(8))

\* The loads of snapshot() so far are of the first n intervals.
ReadOf(n) ==
  /\ snap["totalInterval"] = Total(SubSeq(gaps, 1, n)) /\ snap["callCount"] <= n + 2
  /\ spc \in 4 .. 8 => \A i \in 1 .. n : snap["minInterval"] <= gaps[i]
  /\ spc \in 5 .. 8 => \A i \in 1 .. n : gaps[i] <= snap["maxInterval"]

\* What the loads of snapshot() so far cover.
ReadSoFar ==
  /\ before <= Len(gaps) /\ (spc # Idle => before <= DoneGaps(5))
  /\ spc \in 1 .. 8 => snap["callCount"] \in before .. DoneGaps(5) + 2
  /\ spc \in 2 .. 8 => \E n \in before .. DoneGaps(5) : ReadOf(n)

ProfileInv == ProfileTypes /\ Places /\ Times /\ Figures /\ ReadSoFar

LEMMA FigureLoads ==
  /\ ToSet(Loads) = Figure /\ Len(Loads) = 8
  /\ Loads[1] = "callCount" /\ Loads[2] = "totalInterval" /\ Loads[3] = "totalDuration"
  /\ Loads[4] = "minInterval" /\ Loads[5] = "maxInterval"
  /\ \A i \in 1 .. 8 : Loads[i] \in Figure
  BY DEF Loads, Figure, ToSet

LEMMA SpansAssumption ==
  /\ CounterWrap \in Nat /\ CounterWrap > 0 /\ CounterWrap - 1 \in Spans /\ 0 \in Spans
  /\ Gaps \subseteq Spans /\ Durations \subseteq Spans /\ Spans \subseteq Nat
  BY IsrProfilerAssumption DEF Spans

LEMMA SpansAreNumbers == ASSUME NEW s \in Seq(Spans) PROVE s \in Seq(Nat)
<1>1. Len(s) \in Nat /\ s = [i \in 1 .. Len(s) |-> s[i]] /\ \A i \in 1 .. Len(s) : s[i] \in Nat
  BY SpansAssumption
<1> QED BY <1>1

LEMMA CyclesAreSpans == ASSUME NEW a \in Spans, NEW b \in Spans PROVE Cycles(a, b) \in Spans
  BY SpansAssumption DEF Cycles, Spans

\* What a step of record() does to the statistics.
LEMMA RecordMoves ==
  ASSUME ProfileTypes, Record
  PROVE  /\ rpc \in 1 .. 8 /\ stats' \in [Figure -> Nat]
         /\ stats'["lastCallTime"] = IF rpc = 1 THEN enter ELSE stats["lastCallTime"]
         /\ stats'["callCount"] = IF rpc = 2 THEN stats["callCount"] + 1 ELSE stats["callCount"]
         /\ stats'["minInterval"] = IF rpc = 3 /\ hasFirst
                                      THEN Least("minInterval", Cycles(last, enter))
                                      ELSE stats["minInterval"]
         /\ stats'["maxInterval"] = IF rpc = 4 THEN Greatest("maxInterval", Cycles(last, enter))
                                      ELSE stats["maxInterval"]
         /\ stats'["totalInterval"] = IF rpc = 5 THEN stats["totalInterval"] + Cycles(last, enter)
                                        ELSE stats["totalInterval"]
         /\ stats'["minDuration"] = IF rpc = 6 THEN Least("minDuration", Cycles(enter, exit))
                                      ELSE stats["minDuration"]
         /\ stats'["maxDuration"] = IF rpc = 7 THEN Greatest("maxDuration", Cycles(enter, exit))
                                      ELSE stats["maxDuration"]
         /\ stats'["totalDuration"] = IF rpc = 8 THEN stats["totalDuration"] + Cycles(enter, exit)
                                        ELSE stats["totalDuration"]
<1>0. /\ Cycles(last, enter) \in Nat /\ Cycles(enter, exit) \in Nat /\ enter \in Nat
      /\ \A f \in Figure : stats[f] \in Nat
  BY CyclesAreSpans, SpansAssumption DEF ProfileTypes
<1>1. rpc \in 1 .. 8
  BY DEF Record, ProfileTypes
<1>2. ASSUME NEW f \in Figure, NEW v \in Nat, Put(f, v)
      PROVE  stats' \in [Figure -> Nat] /\ stats'[f] = v /\ \A g \in Figure \ {f} : stats'[g] = stats[g]
  BY <1>2 DEF Put, ProfileTypes
<1>3. CASE rpc = 1
  <2>1. Put("lastCallTime", enter)
    BY <1>3 DEF Record
  <2> QED BY <1>0, <1>2, <1>3, <2>1 DEF Figure
<1>4. CASE rpc = 2
  <2>1. Put("callCount", stats["callCount"] + 1)
    BY <1>4 DEF Record
  <2> QED BY <1>0, <1>2, <1>4, <2>1 DEF Figure
<1>5. CASE rpc = 3 /\ hasFirst
  <2>1. Put("minInterval", Least("minInterval", Cycles(last, enter)))
    BY <1>5 DEF Record, HasFirst
  <2>2. Least("minInterval", Cycles(last, enter)) \in Nat
    BY <1>0 DEF Least, Figure
  <2> QED BY <1>0, <1>2, <1>5, <2>1, <2>2 DEF Figure
<1>6. CASE rpc = 3 /\ ~hasFirst
  BY <1>6 DEF Record, HasFirst, ProfileTypes
<1>7. CASE rpc = 4
  <2>1. Put("maxInterval", Greatest("maxInterval", Cycles(last, enter)))
    BY <1>7 DEF Record
  <2>2. Greatest("maxInterval", Cycles(last, enter)) \in Nat
    BY <1>0 DEF Greatest, Figure
  <2> QED BY <1>0, <1>2, <1>7, <2>1, <2>2 DEF Figure
<1>8. CASE rpc = 5
  <2>1. Put("totalInterval", stats["totalInterval"] + Cycles(last, enter))
    BY <1>8 DEF Record
  <2> QED BY <1>0, <1>2, <1>8, <2>1 DEF Figure
<1>9. CASE rpc = 6
  <2>1. Put("minDuration", Least("minDuration", Cycles(enter, exit)))
    BY <1>9 DEF Record
  <2>2. Least("minDuration", Cycles(enter, exit)) \in Nat
    BY <1>0 DEF Least, Figure
  <2> QED BY <1>0, <1>2, <1>9, <2>1, <2>2 DEF Figure
<1>10. CASE rpc = 7
  <2>1. Put("maxDuration", Greatest("maxDuration", Cycles(enter, exit)))
    BY <1>10 DEF Record
  <2>2. Greatest("maxDuration", Cycles(enter, exit)) \in Nat
    BY <1>0 DEF Greatest, Figure
  <2> QED BY <1>0, <1>2, <1>10, <2>1, <2>2 DEF Figure
<1>11. CASE rpc = 8
  <2>1. Put("totalDuration", stats["totalDuration"] + Cycles(enter, exit))
    BY <1>11 DEF Record
  <2> QED BY <1>0, <1>2, <1>11, <2>1 DEF Figure
<1> QED BY <1>1, <1>3, <1>4, <1>5, <1>6, <1>7, <1>8, <1>9, <1>10, <1>11

\* What it is done with then.
LEMMA DoneMoves ==
  ASSUME ProfileTypes, Places, Record
  PROVE  /\ \A j \in {2, 6, 7, 8} :
              /\ Done(j)' = IF rpc = j THEN Done(j) + 1 ELSE Done(j)
              /\ rpc = j => Done(j) \in 0 .. Len(took) - 1 /\ Done(j) + 1 = Len(took)
         /\ \A j \in {3, 4, 5} :
              /\ DoneGaps(j)' = IF rpc = j /\ hasFirst THEN DoneGaps(j) + 1 ELSE DoneGaps(j)
              /\ rpc = j /\ hasFirst => DoneGaps(j) \in 0 .. Len(gaps) - 1 /\ DoneGaps(j) + 1 = Len(gaps)
<1>0. /\ rpc \in 1 .. 8 /\ took' = took /\ gaps' = gaps /\ hasFirst \in BOOLEAN
      /\ Len(took) \in Nat /\ Len(gaps) \in Nat /\ Len(took) # 0
      /\ hasFirst' = (hasFirst \/ rpc = 3)
      /\ rpc' = IF rpc = 3 /\ ~hasFirst THEN 6 ELSE IF rpc = 8 THEN 0 ELSE rpc + 1
  BY DEF ProfileTypes, Places, Record, HasFirst
<1>1. /\ hasFirst /\ rpc \in 1 .. 3 => Len(gaps) # 0
      /\ rpc \in 4 .. 5 => hasFirst /\ Len(gaps) # 0
      /\ rpc \in 6 .. 8 => hasFirst
  BY <1>0 DEF Places, ProfileTypes
<1>2. ~hasFirst => rpc \in 1 .. 3 /\ Len(gaps) = 0
  BY <1>0, <1>1 DEF Places, ProfileTypes
<1>3. ASSUME NEW j \in {2, 6, 7, 8}
      PROVE  /\ Done(j)' = IF rpc = j THEN Done(j) + 1 ELSE Done(j)
             /\ rpc = j => Done(j) \in 0 .. Len(took) - 1 /\ Done(j) + 1 = Len(took)
  BY <1>0, <1>2 DEF Done
<1>4. ASSUME NEW j \in {3, 4, 5}
      PROVE  /\ DoneGaps(j)' = IF rpc = j /\ hasFirst THEN DoneGaps(j) + 1 ELSE DoneGaps(j)
             /\ rpc = j /\ hasFirst => DoneGaps(j) \in 0 .. Len(gaps) - 1 /\ DoneGaps(j) + 1 = Len(gaps)
  <2>1. CASE hasFirst
    <3>1. hasFirst' /\ gaps' = gaps /\ rpc' = IF rpc = 8 THEN 0 ELSE rpc + 1
      BY <1>0, <2>1
    <3>2. rpc \in 1 .. 5 => Len(gaps) # 0
      BY <1>1, <2>1
    <3>3. CASE rpc = j
      BY <1>0, <2>1, <3>1, <3>2, <3>3 DEF DoneGaps
    <3>4. CASE rpc # j
      <4>1. rpc \in 1 .. j <=> rpc' \in 1 .. j
        BY <1>0, <3>1, <3>4
      <4> QED BY <2>1, <3>1, <3>4, <4>1 DEF DoneGaps
    <3> QED BY <3>3, <3>4
  <2>2. CASE ~hasFirst
    BY <1>0, <1>2, <2>2 DEF DoneGaps
  <2> QED BY <2>1, <2>2
<1> QED BY <1>3, <1>4

LEMMA RecordStep ==
  ASSUME ProfileInv, Record PROVE ProfileInv'
<1>0. /\ rpc \in 1 .. 8 /\ hasFirst \in BOOLEAN
      /\ took' = took /\ gaps' = gaps /\ enter' = enter /\ exit' = exit
      /\ spc' = spc /\ snap' = snap /\ before' = before
      /\ hasFirst' = (hasFirst \/ rpc = 3)
      /\ rpc' = IF rpc = 3 /\ ~hasFirst THEN 6 ELSE IF rpc = 8 THEN 0 ELSE rpc + 1
      /\ last' = IF rpc = 1 THEN stats["lastCallTime"] ELSE last
  BY DEF ProfileInv, ProfileTypes, Places, Record, HasFirst, reader
<1>1. ProfileTypes'
  <2>1. stats' \in [Figure -> Nat] /\ stats'["lastCallTime"] \in Spans
    BY RecordMoves DEF ProfileInv, ProfileTypes
  <2> QED BY <1>0, <2>1 DEF ProfileInv, ProfileTypes
<1>2. Places'
  <2>0. Places
    BY DEF ProfileInv
  <2>1. took # <<>> /\ Len(gaps') = IF took' = <<>> THEN 0 ELSE Len(took') - 1
    BY <1>0, <2>0 DEF Places
  <2>2. rpc' \in 1 .. 3 => rpc \in 1 .. 2 /\ hasFirst' = hasFirst
    BY <1>0
  <2>3. rpc' \in 4 .. 8 \/ rpc' = 0 => hasFirst'
    <3>1. rpc' \in 4 .. 8 \/ rpc' = 0 => rpc = 3 \/ rpc \in 4 .. 8
      BY <1>0
    <3>2. rpc \in 4 .. 8 => hasFirst
      BY <2>0 DEF Places
    <3>3. rpc = 3 \/ hasFirst => hasFirst'
      BY <1>0
    <3> QED BY <3>1, <3>2, <3>3
  <2>4. rpc' \in 4 .. 5 => gaps' # <<>>
    BY <1>0, <2>0 DEF Places
  <2> QED BY <1>0, <2>0, <2>1, <2>2, <2>3, <2>4 DEF Places
<1>3. Times'
  <2>1. stats'["lastCallTime"] = IF rpc = 1 THEN enter ELSE stats["lastCallTime"]
    BY RecordMoves DEF ProfileInv
  <2>2. rpc # 1 => stats["lastCallTime"] = enter
    BY DEF ProfileInv, Times
  <2>3. stats'["lastCallTime"] = enter'
    BY <1>0, <2>1, <2>2
  <2>4. rpc' # 1
    BY <1>0
  <2>5. gaps # <<>> => Cycles(last, enter)' = gaps'[Len(gaps')]
    BY <1>0 DEF ProfileInv, Times, Cycles
  <2>6. Cycles(enter, exit)' = took'[Len(took')]
    BY <1>0 DEF ProfileInv, Times, Cycles
  <2> QED BY <1>0, <2>3, <2>4, <2>5, <2>6 DEF Times
<1>4. Figures'
  <2>0. /\ ProfileTypes /\ Places /\ gaps \in Seq(Spans) /\ took \in Seq(Spans)
        /\ gaps \in Seq(Nat) /\ took \in Seq(Nat)
    BY SpansAreNumbers DEF ProfileInv, ProfileTypes
  <2>1. rpc \in {3, 4, 5} /\ hasFirst => Cycles(last, enter) = gaps[Len(gaps)]
    <3>1. rpc \in {3, 4, 5} /\ hasFirst => gaps # <<>>
      BY DEF ProfileInv, Places
    <3> QED BY <3>1 DEF ProfileInv, Times
  <2>2. Cycles(enter, exit) = took[Len(took)]
    BY <1>0 DEF ProfileInv, Times
  <2>3. rpc \in {4, 5} => hasFirst
    BY DEF ProfileInv, Places
  <2>4. stats'["callCount"] = Done(2)'
    <3>1. stats["callCount"] = Done(2)
      BY DEF ProfileInv, Figures
    <3>2. Done(2)' = IF rpc = 2 THEN Done(2) + 1 ELSE Done(2)
      BY <2>0, DoneMoves
    <3>3. stats'["callCount"] = IF rpc = 2 THEN stats["callCount"] + 1 ELSE stats["callCount"]
      BY <2>0, RecordMoves
    <3> QED BY <3>1, <3>2, <3>3
  <2>5. IsLeast(stats["minInterval"], gaps, DoneGaps(3))'
    <3>0. IsLeast(stats["minInterval"], gaps, DoneGaps(3))
      BY DEF ProfileInv, Figures
    <3>1. CASE rpc = 3 /\ hasFirst
      <4>1. DoneGaps(3) \in 0 .. Len(gaps) - 1 /\ DoneGaps(3) + 1 = Len(gaps)
            /\ DoneGaps(3)' = DoneGaps(3) + 1
        BY <2>0, <3>1, DoneMoves
      <4>2. stats'["minInterval"] = IF gaps[DoneGaps(3) + 1] < stats["minInterval"]
                                      THEN gaps[DoneGaps(3) + 1] ELSE stats["minInterval"]
        BY <2>0, <2>1, <3>1, <4>1, RecordMoves DEF Least
      <4>3. IsLeast(stats'["minInterval"], gaps, DoneGaps(3) + 1)
        BY <2>0, <3>0, <4>1, <4>2, LeastMore
      <4> QED BY <1>0, <4>1, <4>3
    <3>2. CASE ~(rpc = 3 /\ hasFirst)
      <4>1. DoneGaps(3)' = DoneGaps(3) /\ stats'["minInterval"] = stats["minInterval"]
        BY <2>0, <3>2, DoneMoves, RecordMoves
      <4> QED BY <1>0, <3>0, <4>1
    <3> QED BY <3>1, <3>2
  <2>6. IsGreatest(stats["maxInterval"], gaps, DoneGaps(4))'
    <3>0. IsGreatest(stats["maxInterval"], gaps, DoneGaps(4))
      BY DEF ProfileInv, Figures
    <3>1. CASE rpc = 4
      <4>1. DoneGaps(4) \in 0 .. Len(gaps) - 1 /\ DoneGaps(4) + 1 = Len(gaps)
            /\ DoneGaps(4)' = DoneGaps(4) + 1
        BY <2>0, <2>3, <3>1, DoneMoves
      <4>2. stats'["maxInterval"] = IF gaps[DoneGaps(4) + 1] > stats["maxInterval"]
                                      THEN gaps[DoneGaps(4) + 1] ELSE stats["maxInterval"]
        BY <2>0, <2>1, <2>3, <3>1, <4>1, RecordMoves DEF Greatest
      <4>3. IsGreatest(stats'["maxInterval"], gaps, DoneGaps(4) + 1)
        BY <2>0, <3>0, <4>1, <4>2, GreatestMore
      <4> QED BY <1>0, <4>1, <4>3
    <3>2. CASE rpc # 4
      <4>1. DoneGaps(4)' = DoneGaps(4) /\ stats'["maxInterval"] = stats["maxInterval"]
        BY <2>0, <3>2, DoneMoves, RecordMoves
      <4> QED BY <1>0, <3>0, <4>1
    <3> QED BY <3>1, <3>2
  <2>7. IsTotal(stats["totalInterval"], gaps, DoneGaps(5))'
    <3>0. IsTotal(stats["totalInterval"], gaps, DoneGaps(5))
      BY DEF ProfileInv, Figures
    <3>1. CASE rpc = 5
      <4>1. DoneGaps(5) \in 0 .. Len(gaps) - 1 /\ DoneGaps(5) + 1 = Len(gaps)
            /\ DoneGaps(5)' = DoneGaps(5) + 1
        BY <2>0, <2>3, <3>1, DoneMoves
      <4>2. stats'["totalInterval"] = stats["totalInterval"] + gaps[DoneGaps(5) + 1]
        BY <2>0, <2>1, <2>3, <3>1, <4>1, RecordMoves
      <4>3. IsTotal(stats'["totalInterval"], gaps, DoneGaps(5) + 1)
        BY <2>0, <3>0, <4>1, <4>2, TotalMore
      <4> QED BY <1>0, <4>1, <4>3
    <3>2. CASE rpc # 5
      <4>1. DoneGaps(5)' = DoneGaps(5) /\ stats'["totalInterval"] = stats["totalInterval"]
        BY <2>0, <3>2, DoneMoves, RecordMoves
      <4> QED BY <1>0, <3>0, <4>1
    <3> QED BY <3>1, <3>2
  <2>8. IsLeast(stats["minDuration"], took, Done(6))'
    <3>0. IsLeast(stats["minDuration"], took, Done(6))
      BY DEF ProfileInv, Figures
    <3>1. CASE rpc = 6
      <4>1. Done(6) \in 0 .. Len(took) - 1 /\ Done(6) + 1 = Len(took) /\ Done(6)' = Done(6) + 1
        BY <2>0, <3>1, DoneMoves
      <4>2. stats'["minDuration"] = IF took[Done(6) + 1] < stats["minDuration"]
                                      THEN took[Done(6) + 1] ELSE stats["minDuration"]
        BY <2>0, <2>2, <3>1, <4>1, RecordMoves DEF Least
      <4>3. IsLeast(stats'["minDuration"], took, Done(6) + 1)
        BY <2>0, <3>0, <4>1, <4>2, LeastMore
      <4> QED BY <1>0, <4>1, <4>3
    <3>2. CASE rpc # 6
      <4>1. Done(6)' = Done(6) /\ stats'["minDuration"] = stats["minDuration"]
        BY <2>0, <3>2, DoneMoves, RecordMoves
      <4> QED BY <1>0, <3>0, <4>1
    <3> QED BY <3>1, <3>2
  <2>9. IsGreatest(stats["maxDuration"], took, Done(7))'
    <3>0. IsGreatest(stats["maxDuration"], took, Done(7))
      BY DEF ProfileInv, Figures
    <3>1. CASE rpc = 7
      <4>1. Done(7) \in 0 .. Len(took) - 1 /\ Done(7) + 1 = Len(took) /\ Done(7)' = Done(7) + 1
        BY <2>0, <3>1, DoneMoves
      <4>2. stats'["maxDuration"] = IF took[Done(7) + 1] > stats["maxDuration"]
                                      THEN took[Done(7) + 1] ELSE stats["maxDuration"]
        BY <2>0, <2>2, <3>1, <4>1, RecordMoves DEF Greatest
      <4>3. IsGreatest(stats'["maxDuration"], took, Done(7) + 1)
        BY <2>0, <3>0, <4>1, <4>2, GreatestMore
      <4> QED BY <1>0, <4>1, <4>3
    <3>2. CASE rpc # 7
      <4>1. Done(7)' = Done(7) /\ stats'["maxDuration"] = stats["maxDuration"]
        BY <2>0, <3>2, DoneMoves, RecordMoves
      <4> QED BY <1>0, <3>0, <4>1
    <3> QED BY <3>1, <3>2
  <2>10. IsTotal(stats["totalDuration"], took, Done(8))'
    <3>0. IsTotal(stats["totalDuration"], took, Done(8))
      BY DEF ProfileInv, Figures
    <3>1. CASE rpc = 8
      <4>1. Done(8) \in 0 .. Len(took) - 1 /\ Done(8) + 1 = Len(took) /\ Done(8)' = Done(8) + 1
        BY <2>0, <3>1, DoneMoves
      <4>2. stats'["totalDuration"] = stats["totalDuration"] + took[Done(8) + 1]
        BY <2>0, <2>2, <3>1, <4>1, RecordMoves
      <4>3. IsTotal(stats'["totalDuration"], took, Done(8) + 1)
        BY <2>0, <3>0, <4>1, <4>2, TotalMore
      <4> QED BY <1>0, <4>1, <4>3
    <3>2. CASE rpc # 8
      <4>1. Done(8)' = Done(8) /\ stats'["totalDuration"] = stats["totalDuration"]
        BY <2>0, <3>2, DoneMoves, RecordMoves
      <4> QED BY <1>0, <3>0, <4>1
    <3> QED BY <3>1, <3>2
  <2> QED BY <2>4, <2>5, <2>6, <2>7, <2>8, <2>9, <2>10 DEF Figures
<1>5. ReadSoFar'
  <2>0. ReadSoFar
    BY DEF ProfileInv
  <2>1. DoneGaps(5)' = DoneGaps(5) \/ DoneGaps(5)' = DoneGaps(5) + 1
    BY DoneMoves DEF ProfileInv
  <2>2. DoneGaps(5) \in Int /\ DoneGaps(5)' \in Int /\ before \in Nat
    BY <2>1 DEF DoneGaps, ProfileInv, ProfileTypes
  <2>3. spc # Idle => before <= DoneGaps(5)'
    BY <2>0, <2>1, <2>2 DEF ReadSoFar
  <2>4. spc \in 1 .. 8 => snap["callCount"] \in before .. DoneGaps(5)' + 2
    BY <2>0, <2>1, <2>2 DEF ReadSoFar
  <2>5. spc \in 2 .. 8 => \E n \in before .. DoneGaps(5)' : ReadOf(n)'
    <3> SUFFICES ASSUME spc \in 2 .. 8 PROVE \E n \in before .. DoneGaps(5)' : ReadOf(n)'
      OBVIOUS
    <3>1. PICK n \in before .. DoneGaps(5) : ReadOf(n)
      BY <2>0 DEF ReadSoFar
    <3>2. n \in before .. DoneGaps(5)'
      BY <2>1, <2>2
    <3>3. ReadOf(n)'
      BY <1>0, <3>1 DEF ReadOf
    <3> QED BY <3>2, <3>3
  <2> QED BY <1>0, <2>0, <2>3, <2>4, <2>5 DEF ReadSoFar
<1> QED BY <1>1, <1>2, <1>3, <1>4, <1>5 DEF ProfileInv

LEMMA OnIsrStep ==
  ASSUME ProfileInv, OnIsr PROVE ProfileInv'
<1>0. PICK gap \in Gaps, d \in Durations :
        /\ enter' = (enter + gap) % CounterWrap
        /\ exit' = (enter + gap + d) % CounterWrap
        /\ gaps' = IF took = <<>> THEN <<>> ELSE Append(gaps, gap)
        /\ took' = Append(took, d)
  BY DEF OnIsr
<1>1. /\ rpc = 0 /\ rpc' = 1 /\ stats' = stats /\ hasFirst' = hasFirst /\ last' = last
      /\ spc' = spc /\ snap' = snap /\ before' = before
  BY DEF OnIsr, reader
<1>2. /\ enter \in Spans /\ gap \in Spans /\ d \in Spans
      /\ took \in Seq(Spans) /\ gaps \in Seq(Spans) /\ ProfileTypes
  BY SpansAssumption DEF ProfileInv, ProfileTypes
<1>3. enter' \in Spans /\ Cycles(enter, enter') = gap
  BY <1>0, <1>2, SpansAssumption, Elapsed DEF Spans, Cycles
<1>4. exit' \in Spans /\ Cycles(enter', exit') = d
  <2>1. exit' = (enter' + d) % CounterWrap
    BY <1>0, <1>2, SpansAssumption, ElapsedTwice DEF Spans
  <2> QED BY <2>1, <1>2, <1>3, SpansAssumption, Elapsed DEF Spans, Cycles
<1>5. gaps' \in Seq(Spans) /\ took' \in Seq(Spans)
  BY <1>0, <1>2
<1>6. ProfileTypes'
  BY <1>1, <1>2, <1>3, <1>4, <1>5 DEF ProfileTypes
<1>7. /\ took = <<>> => gaps = <<>> /\ ~hasFirst
      /\ took # <<>> => hasFirst
      /\ stats["lastCallTime"] = enter
  BY <1>1, <1>2 DEF ProfileInv, Places, Times
<1>8. /\ Len(took') = Len(took) + 1 /\ took' # <<>> /\ took'[Len(took')] = d
      /\ took = <<>> => gaps' = gaps
      /\ took # <<>> => gaps' = Append(gaps, gap) /\ Len(gaps') = Len(gaps) + 1
                        /\ gaps' # <<>> /\ gaps'[Len(gaps')] = gap
      /\ Len(took) \in Nat /\ Len(gaps) \in Nat
  BY <1>0, <1>2, <1>7
<1>9. Places'
  <2>1. Len(gaps) = IF took = <<>> THEN 0 ELSE Len(took) - 1
    BY DEF ProfileInv, Places
  <2> QED BY <1>1, <1>2, <1>7, <1>8, <2>1 DEF Places
<1>10. Times'
  <2>1. gaps' # <<>> => Cycles(stats["lastCallTime"], enter)' = gaps'[Len(gaps')]
    BY <1>1, <1>3, <1>7, <1>8 DEF Cycles
  <2>2. Cycles(enter, exit)' = took'[Len(took')]
    BY <1>4, <1>8 DEF Cycles
  <2> QED BY <1>1, <2>1, <2>2 DEF Times
<1>11. /\ \A k \in {2, 6, 7, 8} : Done(k) = Len(took) /\ Done(k)' = Done(k)
       /\ \A k \in {3, 4, 5} : DoneGaps(k) = Len(gaps) /\ DoneGaps(k)' = DoneGaps(k)
  <2>1. ASSUME NEW k \in {2, 6, 7, 8} PROVE Done(k) = Len(took) /\ Done(k)' = Done(k)
    BY <1>1, <1>8 DEF Done
  <2>2. ASSUME NEW k \in {3, 4, 5} PROVE DoneGaps(k) = Len(gaps) /\ DoneGaps(k)' = DoneGaps(k)
    <3>1. CASE took = <<>>
      BY <1>1, <1>7, <1>8, <3>1 DEF DoneGaps
    <3>2. CASE took # <<>>
      BY <1>1, <1>7, <1>8, <3>2 DEF DoneGaps
    <3> QED BY <3>1, <3>2
  <2> QED BY <2>1, <2>2
<1>12. \A v, n : n \in 0 .. Len(gaps) =>
         /\ SubSeq(gaps', 1, n) = SubSeq(gaps, 1, n)
         /\ IsTotal(v, gaps', n) <=> IsTotal(v, gaps, n)
         /\ IsLeast(v, gaps', n) <=> IsLeast(v, gaps, n)
         /\ IsGreatest(v, gaps', n) <=> IsGreatest(v, gaps, n)
  <2>1. CASE took = <<>>
    BY <1>8, <2>1
  <2>2. CASE took # <<>>
    BY <1>2, <1>8, <2>2, FirstOnes
  <2> QED BY <2>1, <2>2
<1>13. \A v, n : n \in 0 .. Len(took) =>
         /\ IsTotal(v, took', n) <=> IsTotal(v, took, n)
         /\ IsLeast(v, took', n) <=> IsLeast(v, took, n)
         /\ IsGreatest(v, took', n) <=> IsGreatest(v, took, n)
  BY <1>0, <1>2, FirstOnes
<1>14. Figures'
  <2>0. Len(gaps) \in 0 .. Len(gaps) /\ Len(took) \in 0 .. Len(took)
    BY <1>8
  <2>1. Figures
    BY DEF ProfileInv
  <2> QED BY <1>1, <1>11, <1>12, <1>13, <2>0, <2>1 DEF Figures
<1>15. ReadSoFar'
  <2>1. before \in Nat /\ before <= Len(gaps) /\ Len(gaps) <= Len(gaps')
    BY <1>8 DEF ProfileInv, ProfileTypes, ReadSoFar
  <2>2. SubSeq(gaps', 1, before) = SubSeq(gaps, 1, before) /\ before <= Len(gaps')
    <3>1. before \in 0 .. Len(gaps)
      BY <1>8, <2>1
    <3>2. Len(gaps') \in Nat
      BY <1>5
    <3> QED BY <1>8, <1>12, <2>1, <3>1, <3>2
  <2>3. \A i \in 1 .. Len(gaps) : gaps'[i] = gaps[i]
    <3>1. CASE took = <<>>
      BY <1>8, <3>1
    <3>2. CASE took # <<>>
      BY <1>2, <1>8, <2>1, <3>2
    <3> QED BY <3>1, <3>2
  <2>4. DoneGaps(5)' = DoneGaps(5) /\ DoneGaps(5) = Len(gaps)
    BY <1>11
  <2>5. spc \in 2 .. 8 => \E n \in before .. DoneGaps(5) : ReadOf(n)'
    <3> SUFFICES ASSUME spc \in 2 .. 8 PROVE \E n \in before .. DoneGaps(5) : ReadOf(n)'
      OBVIOUS
    <3>1. PICK n \in before .. DoneGaps(5) : ReadOf(n)
      BY DEF ProfileInv, ReadSoFar
    <3>2. n \in 0 .. Len(gaps) /\ SubSeq(gaps', 1, n) = SubSeq(gaps, 1, n)
      <4>1. n \in 0 .. Len(gaps)
        BY <1>8, <2>1, <2>4
      <4> QED BY <1>12, <4>1
    <3>3. \A i \in 1 .. n : gaps'[i] = gaps[i]
      BY <1>8, <2>3, <3>2
    <3>4. ReadOf(n)'
      BY <1>1, <3>1, <3>2, <3>3 DEF ReadOf
    <3> QED BY <3>4
  <2> QED BY <1>1, <1>11, <2>2, <2>4, <2>5 DEF ProfileInv, ReadSoFar
<1> QED BY <1>6, <1>9, <1>10, <1>14, <1>15 DEF ProfileInv

\* Beside the handler.
LEMMA HandlerStays ==
  ASSUME ProfileInv, UNCHANGED handler, spc' \in -1 .. 8, before' \in Nat, DOMAIN snap' = Figure
  PROVE  /\ ProfileTypes' /\ Places' /\ Times' /\ Figures'
         /\ \A k \in {3, 4, 5} : DoneGaps(k)' = DoneGaps(k)
<1>1. /\ stats' = stats /\ hasFirst' = hasFirst /\ rpc' = rpc /\ enter' = enter /\ exit' = exit
      /\ last' = last /\ gaps' = gaps /\ took' = took
  BY DEF handler
<1>2. /\ \A k \in {3, 4, 5} : DoneGaps(k)' = DoneGaps(k)
      /\ \A k \in {2, 6, 7, 8} : Done(k)' = Done(k)
  BY <1>1 DEF Done, DoneGaps
<1>3. ProfileTypes'
  BY <1>1 DEF ProfileInv, ProfileTypes
<1>4. Places'
  BY <1>1 DEF ProfileInv, Places
<1>5. Times'
  BY <1>1 DEF ProfileInv, Times, Cycles
<1>6. Figures'
  BY <1>1, <1>2 DEF ProfileInv, Figures
<1> QED BY <1>2, <1>3, <1>4, <1>5, <1>6

LEMMA LoadStep ==
  ASSUME ProfileInv, Load PROVE ProfileInv'
<1>0. /\ spc \in 0 .. 7 /\ spc' = spc + 1 /\ before' = before
      /\ snap' = [snap EXCEPT ![Loads[spc + 1]] = stats[Loads[spc + 1]]]
      /\ Loads[spc + 1] \in Figure /\ DOMAIN snap = Figure
      /\ UNCHANGED handler
  <2>1. spc \in 0 .. 7
    BY FigureLoads DEF Load
  <2>2. spc + 1 \in 1 .. 8
    BY <2>1
  <2>3. Loads[spc + 1] \in Figure
    BY <2>2, FigureLoads
  <2>4. DOMAIN snap = Figure
    BY DEF ProfileInv, ProfileTypes
  <2> QED BY <2>1, <2>3, <2>4 DEF Load
<1>1. /\ ProfileTypes' /\ Places' /\ Times' /\ Figures'
      /\ \A k \in {3, 4, 5} : DoneGaps(k)' = DoneGaps(k)
  <2>1. spc' \in -1 .. 8 /\ before' \in Nat /\ DOMAIN snap' = Figure
    BY <1>0 DEF ProfileInv, ProfileTypes
  <2> QED BY <1>0, <2>1, HandlerStays
<1>2. /\ gaps \in Seq(Spans) /\ gaps \in Seq(Nat) /\ gaps' = gaps /\ before \in Nat
      /\ Len(gaps) \in Nat /\ Len(took) \in Nat /\ before <= DoneGaps(5) /\ before <= Len(gaps)
      /\ DoneGaps(5)' = DoneGaps(5) /\ Idle = -1
  BY <1>0, <1>1, SpansAreNumbers DEF ProfileInv, ProfileTypes, ReadSoFar, Load, handler, Idle
<1>3. DoneGaps(5) <= DoneGaps(4) /\ DoneGaps(5) <= DoneGaps(3) /\ DoneGaps(3) <= Len(gaps)
      /\ DoneGaps(4) <= Len(gaps) /\ \A k \in {3, 4, 5} : DoneGaps(k) \in Int
  BY <1>2 DEF DoneGaps, ProfileInv, ProfileTypes
<1>4. \A f \in Figure : snap'[f] = IF f = Loads[spc + 1] THEN stats[f] ELSE snap[f]
  BY <1>0
<1>5. /\ "callCount" \in Figure /\ "totalInterval" \in Figure
      /\ "minInterval" \in Figure /\ "maxInterval" \in Figure
  BY DEF Figure
<1>6. ReadSoFar
  BY DEF ProfileInv
<1>7. spc' \in 1 .. 8 => snap'["callCount"] \in before .. DoneGaps(5) + 2
  <2>1. CASE spc = 0
    <3>1. snap'["callCount"] = stats["callCount"]
      BY <1>4, <1>5, <2>1, FigureLoads
    <3>2. /\ stats["callCount"] = Done(2) /\ Len(gaps) = (IF took = <<>> THEN 0 ELSE Len(took) - 1)
          /\ (rpc # 0 => took # <<>>)
      BY DEF ProfileInv, Figures, Places
    <3>3. Done(2) >= Len(gaps) /\ Done(2) <= DoneGaps(5) + 2 /\ Done(2) \in Int
      <4>1. CASE took = <<>>
        BY <1>2, <3>2, <4>1 DEF Done, DoneGaps
      <4>2. CASE took # <<>> /\ rpc \in 1 .. 2
        <5>1. Done(2) = Len(gaps)
          BY <1>2, <3>2, <4>2 DEF Done
        <5> QED BY <1>2, <5>1 DEF DoneGaps
      <4>3. CASE took # <<>> /\ rpc \notin 1 .. 2
        <5>1. Done(2) = Len(gaps) + 1
          BY <1>2, <3>2, <4>3 DEF Done
        <5> QED BY <1>2, <5>1 DEF DoneGaps
      <4> QED BY <4>1, <4>2, <4>3
    <3> QED BY <1>2, <1>3, <3>1, <3>2, <3>3
  <2>2. CASE spc # 0
    <3>1. snap'["callCount"] = snap["callCount"]
      BY <1>0, <1>4, <1>5, <2>2, FigureLoads DEF Loads
    <3> QED BY <1>0, <1>6, <2>2, <3>1 DEF ReadSoFar
  <2> QED BY <2>1, <2>2
<1>8. spc' \in 2 .. 8 => \E n \in before .. DoneGaps(5) : ReadOf(n)'
  <2>1. CASE spc = 1
    <3>1. /\ snap'["totalInterval"] = stats["totalInterval"]
          /\ snap'["callCount"] = snap["callCount"]
      BY <1>4, <1>5, <2>1, FigureLoads
    <3>2. stats["totalInterval"] = Total(SubSeq(gaps, 1, DoneGaps(5)))
      BY DEF ProfileInv, Figures, IsTotal
    <3>3. snap["callCount"] <= DoneGaps(5) + 2
      BY <1>2, <1>3, <1>6, <2>1 DEF ReadSoFar
    <3>4. PICK n \in before .. DoneGaps(5) : n = DoneGaps(5)
      BY <1>2, <1>3
    <3>5. ReadOf(n)'
      BY <1>0, <1>2, <2>1, <3>1, <3>2, <3>3, <3>4 DEF ReadOf
    <3> QED BY <3>5
  <2>2. CASE spc \in 2 .. 7
    <3>1. PICK n \in before .. DoneGaps(5) : ReadOf(n)
      BY <1>6, <2>2 DEF ReadSoFar
    <3>2. /\ snap'["totalInterval"] = snap["totalInterval"]
          /\ snap'["callCount"] = snap["callCount"]
          /\ spc # 3 => snap'["minInterval"] = snap["minInterval"]
          /\ spc # 4 => snap'["maxInterval"] = snap["maxInterval"]
      BY <1>4, <1>5, <2>2 DEF Loads
    <3>3. /\ \A i \in 1 .. n : i \in 1 .. DoneGaps(3) /\ i \in 1 .. DoneGaps(4)
          /\ \A i \in 1 .. n : gaps[i] \in Nat
      <4>1. /\ n \in Nat /\ n <= DoneGaps(5) /\ DoneGaps(3) \in Int /\ DoneGaps(4) \in Int
            /\ DoneGaps(5) \in Int /\ gaps \in Seq(Nat)
            /\ DoneGaps(5) <= DoneGaps(3) /\ DoneGaps(5) <= DoneGaps(4)
            /\ DoneGaps(3) <= Len(gaps) /\ Len(gaps) \in Nat
        BY <1>2, <1>3
      <4>2. \A i \in 1 .. n : i \in 1 .. DoneGaps(3) /\ i \in 1 .. DoneGaps(4) /\ i \in 1 .. Len(gaps)
        BY <4>1
      <4>3. \A i \in 1 .. Len(gaps) : gaps[i] \in Nat
        BY <4>1
      <4> QED BY <4>2, <4>3
    <3>4. spc' \in 4 .. 8 => \A i \in 1 .. n : snap'["minInterval"] <= gaps[i]
      <4>1. CASE spc = 3
        <5>1. snap'["minInterval"] = stats["minInterval"]
          BY <1>4, <1>5, <4>1, FigureLoads
        <5>2. \A i \in 1 .. DoneGaps(3) : stats["minInterval"] <= gaps[i]
          BY DEF ProfileInv, Figures, IsLeast
        <5> QED BY <3>3, <5>1, <5>2
      <4>2. CASE spc # 3
        BY <1>0, <2>2, <3>1, <3>2, <4>2 DEF ReadOf
      <4> QED BY <4>1, <4>2
    <3>5. spc' \in 5 .. 8 => \A i \in 1 .. n : gaps[i] <= snap'["maxInterval"]
      <4>1. CASE spc = 4
        <5>1. snap'["maxInterval"] = stats["maxInterval"]
          BY <1>4, <1>5, <4>1, FigureLoads
        <5>2. /\ stats["maxInterval"] \in Nat
              /\ \A i \in 1 .. DoneGaps(4) : stats["maxInterval"] >= gaps[i]
          BY SpansAssumption DEF ProfileInv, Figures, IsGreatest
        <5> QED BY <3>3, <5>1, <5>2
      <4>2. CASE spc # 4
        BY <1>0, <2>2, <3>1, <3>2, <4>2 DEF ReadOf
      <4> QED BY <4>1, <4>2
    <3>6. ReadOf(n)'
      BY <1>2, <3>1, <3>2, <3>4, <3>5 DEF ReadOf
    <3> QED BY <3>6
  <2> QED BY <1>0, <2>1, <2>2
<1>10. ReadSoFar'
  BY <1>0, <1>2, <1>7, <1>8 DEF ReadSoFar
<1> QED BY <1>1, <1>10 DEF ProfileInv

LEMMA ProfileInvariant == ProfileSpec => []ProfileInv
<1>1. ProfileInit => ProfileInv
  <2> SUFFICES ASSUME ProfileInit PROVE ProfileInv
    OBVIOUS
  <2>0. /\ stats = [f \in Figure |-> IF f \in {"minInterval", "minDuration"} THEN CounterWrap - 1 ELSE 0]
        /\ CounterWrap - 1 \in Nat /\ 0 \in Spans /\ stats["lastCallTime"] = 0
    BY FigureLoads, SpansAssumption DEF ProfileInit, Figure
  <2>1. ProfileTypes /\ Places /\ Times
    <3>1. ProfileTypes
      <4>1. stats \in [Figure -> Nat] /\ stats["lastCallTime"] \in Spans /\ DOMAIN snap = Figure
        <5>1. snap = stats
          BY DEF ProfileInit
        <5> QED BY <2>0, <5>1
      <4>2. took \in Seq(Spans) /\ gaps \in Seq(Spans)
        BY DEF ProfileInit
      <4>3. rpc = 0 /\ spc = -1 /\ before = 0 /\ enter = 0 /\ exit = 0 /\ last = 0
        BY DEF ProfileInit, Idle
      <4>4. hasFirst \in BOOLEAN
        BY DEF ProfileInit
      <4> QED BY <2>0, <4>1, <4>2, <4>3, <4>4 DEF ProfileTypes
    <3>2. Places /\ Times
      BY <2>0 DEF ProfileInit, Places, Times
    <3> QED BY <3>1, <3>2
  <2>2. Figures
    <3>1. SubSeq(<<>>, 1, 0) = <<>> /\ <<>> \in Seq(Nat) /\ Len(<<>>) = 0
      OBVIOUS
    <3>2. Total(SubSeq(<<>>, 1, 0)) = 0
      BY <3>1, TotalStep
    <3>3. /\ stats["callCount"] = 0 /\ stats["totalInterval"] = 0 /\ stats["totalDuration"] = 0
          /\ stats["minInterval"] = CounterWrap - 1 /\ stats["minDuration"] = CounterWrap - 1
          /\ stats["maxInterval"] = 0 /\ stats["maxDuration"] = 0
      BY FigureLoads DEF ProfileInit, Figure
    <3> QED BY <3>1, <3>2, <3>3, SpansAssumption
         DEF ProfileInit, Figures, IsTotal, IsLeast, IsGreatest, Done, DoneGaps, Spans
  <2>3. ReadSoFar
    BY DEF ProfileInit, ReadSoFar, Idle
  <2> QED BY <2>1, <2>2, <2>3 DEF ProfileInv
<1>2. ProfileInv /\ [ProfileNext]_profileVars => ProfileInv'
  <2> SUFFICES ASSUME ProfileInv, [ProfileNext]_profileVars PROVE ProfileInv'
    OBVIOUS
  <2>1. CASE OnIsr
    BY <2>1, OnIsrStep
  <2>2. CASE Record
    BY <2>2, RecordStep
  <2>3. CASE Load
    BY <2>3, LoadStep
  <2>4. CASE Snapshot
    <3>1. /\ ProfileTypes' /\ Places' /\ Times' /\ Figures'
      <4>1. UNCHANGED handler /\ spc' \in -1 .. 8 /\ before' \in Nat /\ DOMAIN snap' = Figure
        <5>1. Recorded = DoneGaps(5)
          BY DEF Recorded, DoneGaps
        <5>2. before' = DoneGaps(5) /\ Len(gaps) \in Nat
          BY <2>4, <5>1 DEF Snapshot, ProfileInv, ProfileTypes
        <5>3. DoneGaps(5) \in Nat
          <6>1. rpc \in 1 .. 5 /\ hasFirst => gaps # <<>>
            BY DEF ProfileInv, ProfileTypes, Places
          <6> QED BY <5>2, <6>1 DEF DoneGaps, ProfileInv, ProfileTypes
        <5> QED BY <2>4, <5>2, <5>3 DEF Snapshot, ProfileInv, ProfileTypes
      <4> QED BY <4>1, HandlerStays
    <3>2. ReadSoFar'
      <4>1. before' = DoneGaps(5) /\ before' <= Len(gaps)
        BY <2>4 DEF Snapshot, Recorded, DoneGaps, ProfileInv, ProfileTypes
      <4>2. spc' = 0 /\ DoneGaps(5)' = DoneGaps(5) /\ gaps' = gaps
        BY <2>4 DEF Snapshot, handler, DoneGaps
      <4> QED BY <4>1, <4>2 DEF ReadSoFar, DoneGaps, ProfileInv, ProfileTypes
    <3> QED BY <3>1, <3>2 DEF ProfileInv
  <2>5. CASE Finish
    <3>1. /\ ProfileTypes' /\ Places' /\ Times' /\ Figures'
      <4>1. UNCHANGED handler /\ spc' \in -1 .. 8 /\ before' \in Nat /\ DOMAIN snap' = Figure
        BY <2>5 DEF Finish, ProfileInv, ProfileTypes, Idle
      <4> QED BY <4>1, HandlerStays
    <3>2. ReadSoFar'
      BY <2>5 DEF Finish, handler, ReadSoFar, Idle, ProfileInv
    <3> QED BY <3>1, <3>2 DEF ProfileInv
  <2>6. CASE UNCHANGED profileVars
    <3>1. UNCHANGED handler /\ UNCHANGED reader
      BY <2>6 DEF profileVars
    <3>2. spc' \in -1 .. 8 /\ before' \in Nat /\ DOMAIN snap' = Figure
      BY <3>1 DEF reader, ProfileInv, ProfileTypes
    <3>3. /\ ProfileTypes' /\ Places' /\ Times' /\ Figures' /\ DoneGaps(5)' = DoneGaps(5)
      BY <3>1, <3>2, HandlerStays
    <3>4. ReadSoFar'
      BY <3>1, <3>3 DEF handler, reader, ReadSoFar, ReadOf, ProfileInv
    <3> QED BY <3>3, <3>4 DEF ProfileInv
  <2> QED BY <2>1, <2>2, <2>3, <2>4, <2>5, <2>6 DEF ProfileNext
<1> QED BY <1>1, <1>2, PTL DEF ProfileSpec

LEMMA LeastIsMin ==
  ASSUME NEW s \in Seq(Spans), s # <<>>, NEW v, IsLeast(v, s, Len(s)) PROVE v = Min(ToSet(s))
<1>1. ToSet(s) = {s[i] : i \in 1 .. Len(s)} /\ Len(s) \in Nat /\ 1 \in 1 .. Len(s)
      /\ \A i \in 1 .. Len(s) : s[i] \in Spans
  BY DEF ToSet
<1>2. v \in ToSet(s) /\ \A y \in ToSet(s) : v <= y
  <2>1. \E i \in 1 .. Len(s) : v = s[i]
    <3>1. CASE v = CounterWrap - 1
      <4>1. s[1] \in Spans /\ v <= s[1]
        BY <1>1 DEF IsLeast
      <4> QED BY <1>1, <3>1, <4>1, SpansAssumption DEF Spans
    <3>2. CASE v # CounterWrap - 1
      BY <3>2 DEF IsLeast
    <3> QED BY <3>1, <3>2
  <2> QED BY <1>1, <2>1 DEF IsLeast
<1>3. \A x \in ToSet(s) : (\A y \in ToSet(s) : x <= y) => x = v
  <2>1. ToSet(s) \subseteq Nat
    BY <1>1, SpansAssumption
  <2> QED BY <1>2, <2>1
<1>4. Min(ToSet(s)) \in ToSet(s) /\ \A y \in ToSet(s) : Min(ToSet(s)) <= y
  <2> HIDE DEF IsLeast
  <2> QED BY <1>2, Zenon DEF Min
<1> QED BY <1>3, <1>4

LEMMA GreatestIsMax ==
  ASSUME NEW s \in Seq(Spans), s # <<>>, NEW v, IsGreatest(v, s, Len(s)) PROVE v = Max(ToSet(s))
<1>1. ToSet(s) = {s[i] : i \in 1 .. Len(s)} /\ Len(s) \in Nat /\ 1 \in 1 .. Len(s)
      /\ \A i \in 1 .. Len(s) : s[i] \in Spans
  BY DEF ToSet
<1>2. v \in ToSet(s) /\ \A y \in ToSet(s) : v >= y
  <2>1. \E i \in 1 .. Len(s) : v = s[i]
    <3>1. CASE v = 0
      <4>1. s[1] \in Spans /\ v >= s[1]
        BY <1>1 DEF IsGreatest
      <4> QED BY <1>1, <3>1, <4>1, SpansAssumption DEF Spans
    <3>2. CASE v # 0
      BY <3>2 DEF IsGreatest
    <3> QED BY <3>1, <3>2
  <2> QED BY <1>1, <2>1 DEF IsGreatest
<1>3. \A x \in ToSet(s) : (\A y \in ToSet(s) : x >= y) => x = v
  <2>1. ToSet(s) \subseteq Nat
    BY <1>1, SpansAssumption
  <2> QED BY <1>2, <2>1
<1>4. Max(ToSet(s)) \in ToSet(s) /\ \A y \in ToSet(s) : Max(ToSet(s)) >= y
  BY <1>2, Zenon DEF Max
<1> QED BY <1>3, <1>4

\* Between two runs of a handler the statistics record() left are those of the runs so
\* far: their number, the sum and the extremes of the intervals and of the durations,
\* for every width of the counter, wherever it wraps.
THEOREM AlwaysExact == ProfileSpec => []Exact
<1>1. ProfileInv => Exact
  <2> SUFFICES ASSUME ProfileInv, rpc = 0
        PROVE  /\ stats["callCount"] = Len(took)
               /\ stats["totalInterval"] = Total(gaps) /\ stats["totalDuration"] = Total(took)
               /\ gaps # <<>> => stats["minInterval"] = Min(ToSet(gaps))
                              /\ stats["maxInterval"] = Max(ToSet(gaps))
               /\ took # <<>> => stats["minDuration"] = Min(ToSet(took))
                              /\ stats["maxDuration"] = Max(ToSet(took))
    BY DEF Exact
  <2>1. /\ \A k \in {2, 6, 7, 8} : Done(k) = Len(took)
        /\ \A k \in {3, 4, 5} : DoneGaps(k) = Len(gaps)
    BY DEF Done, DoneGaps
  <2>2. gaps \in Seq(Spans) /\ took \in Seq(Spans)
    BY DEF ProfileInv, ProfileTypes
  <2>3. SubSeq(gaps, 1, Len(gaps)) = gaps /\ SubSeq(took, 1, Len(took)) = took
    BY <2>2
  <2>4. /\ stats["callCount"] = Len(took)
        /\ stats["totalInterval"] = Total(gaps) /\ stats["totalDuration"] = Total(took)
        /\ IsLeast(stats["minInterval"], gaps, Len(gaps))
        /\ IsGreatest(stats["maxInterval"], gaps, Len(gaps))
        /\ IsLeast(stats["minDuration"], took, Len(took))
        /\ IsGreatest(stats["maxDuration"], took, Len(took))
    BY <2>1, <2>3 DEF ProfileInv, Figures, IsTotal
  <2> QED BY <2>2, <2>4, LeastIsMin, GreatestIsMax
<1> QED BY <1>1, ProfileInvariant, PTL

\* What snapshot() answers covers every interval recorded when it was called, wherever
\* the handler runs between its loads.
THEOREM AlwaysCovers == ProfileSpec => []Covers
<1>1. ProfileInv => Covers
  <2> SUFFICES ASSUME ProfileInv, spc = Len(Loads)
               PROVE  \E n \in before .. Len(gaps) :
                        /\ snap["totalInterval"] = Total(SubSeq(gaps, 1, n))
                        /\ snap["callCount"] \in before .. n + 2
                        /\ \A i \in 1 .. n :
                             snap["minInterval"] <= gaps[i] /\ gaps[i] <= snap["maxInterval"]
    BY DEF Covers
  <2>0. spc = 8 /\ ReadSoFar /\ before \in Nat /\ Len(gaps) \in Nat
    BY FigureLoads DEF ProfileInv, ProfileTypes
  <2>1. DoneGaps(5) \in Int /\ DoneGaps(5) <= Len(gaps)
    BY <2>0 DEF DoneGaps
  <2>2. PICK n \in before .. DoneGaps(5) : ReadOf(n)
    BY <2>0 DEF ReadSoFar
  <2>3. n \in before .. Len(gaps) /\ snap["callCount"] \in before .. n + 2
    BY <2>0, <2>1, <2>2 DEF ReadSoFar, ReadOf
  <2> QED BY <2>0, <2>2, <2>3 DEF ReadOf
<1> QED BY <1>1, ProfileInvariant, PTL
-----------------------------------------------------------------------------
(* Lists of keys, and of pairs of a key and a value.                        *)

\* A place of a sequence without the element at i.
Shifted(i, j) == IF j <= i THEN j ELSE j + 1

\* An element taken out of a sequence.
LEMMA TakenOut ==
  ASSUME NEW X, NEW s \in Seq(X), NEW i \in 0 .. Len(s) - 1,
         NEW t, t = SubSeq(s, 1, i) \o SubSeq(s, i + 2, Len(s))
  PROVE  /\ t \in Seq(X) /\ Len(t) = Len(s) - 1
         /\ \A j \in 1 .. Len(t) : t[j] = s[Shifted(i, j)]
<1> DEFINE a == SubSeq(s, 1, i)
           b == SubSeq(s, i + 2, Len(s))
<1>0. PICK n \in Nat : n = Len(s)
  OBVIOUS
<1>1. i \in Nat /\ i < n
  BY <1>0
<1>2. a \in Seq(X) /\ Len(a) = i
  OBVIOUS
<1>3. \A j \in 1 .. i : a[j] = s[j]
  OBVIOUS
<1>4. b \in Seq(X) /\ Len(b) = n - i - 1
  BY <1>0
<1>5. \A j \in 1 .. n - i - 1 : b[j] = s[i + 1 + j]
  BY <1>0
<1> HIDE DEF a, b
<1>6. t = a \o b
  BY DEF a, b
<1>7. t \in Seq(X) /\ Len(t) = Len(a) + Len(b)
  BY <1>2, <1>4, <1>6, ConcatProperties
<1>8. Len(t) = n - 1
  <2>1. Len(a) = i /\ Len(b) = n - i - 1 /\ Len(t) = Len(a) + Len(b)
    BY <1>2, <1>4, <1>7
  <2>2. i + (n - i - 1) = n - 1
    BY <1>1
  <2> QED BY <2>1, <2>2
<1>9. \A j \in 1 .. Len(a) + Len(b) : t[j] = IF j <= Len(a) THEN a[j] ELSE b[j - Len(a)]
  <2>1. \A j \in 1 .. Len(a) + Len(b) : (a \o b)[j] = IF j <= Len(a) THEN a[j] ELSE b[j - Len(a)]
    BY <1>2, <1>4, ConcatProperties, Zenon
  <2> QED BY <1>6, <2>1, Zenon
<1>10. ASSUME NEW j \in 1 .. n - 1 PROVE t[j] = s[Shifted(i, j)]
  <2>1. j \in 1 .. Len(a) + Len(b)
    BY <1>1, <1>2, <1>4
  <2>2. t[j] = IF j <= i THEN a[j] ELSE b[j - i]
    BY <1>2, <1>9, <2>1
  <2>3. CASE j <= i
    <3>1. j \in 1 .. i
      BY <1>1, <2>3
    <3> QED BY <1>3, <2>2, <2>3, <3>1 DEF Shifted
  <2>4. CASE ~(j <= i)
    <3>1. j - i \in 1 .. n - i - 1 /\ i + 1 + (j - i) = j + 1
      BY <1>1, <2>4
    <3>2. b[j - i] = s[i + 1 + (j - i)]
      BY <1>5, <3>1
    <3> QED BY <2>2, <2>4, <3>1, <3>2 DEF Shifted
  <2> QED BY <2>3, <2>4
<1> QED BY <1>0, <1>7, <1>8, <1>10

OutOf(s, i) == SubSeq(s, 1, i) \o SubSeq(s, i + 2, Len(s))

LEMMA OutOfList ==
  ASSUME NEW X, NEW s \in Seq(X), NEW i \in 0 .. Len(s) - 1
  PROVE  /\ OutOf(s, i) \in Seq(X) /\ Len(OutOf(s, i)) = Len(s) - 1
         /\ \A j \in 1 .. Len(OutOf(s, i)) : OutOf(s, i)[j] = s[Shifted(i, j)]
<1>1. PICK t : t = SubSeq(s, 1, i) \o SubSeq(s, i + 2, Len(s))
  OBVIOUS
<1>2. t \in Seq(X) /\ Len(t) = Len(s) - 1 /\ \A j \in 1 .. Len(t) : t[j] = s[Shifted(i, j)]
  BY <1>1, TakenOut, Zenon
<1>3. OutOf(s, i) = t
  BY <1>1 DEF OutOf
<1> QED BY <1>2, <1>3

\* No element twice; no key twice.
Distinct(s)     == \A i, j \in 1 .. Len(s) : s[i] = s[j] => i = j

DistinctKeys(s) == \A i, j \in 1 .. Len(s) : s[i][1] = s[j][1] => i = j

LEMMA DistinctAfter ==
  ASSUME NEW X, NEW s \in Seq(X)
  PROVE  /\ Distinct(<<>>) /\ DistinctKeys(<<>>)
         /\ \A x \in X : Distinct(s) /\ (\A i \in 1 .. Len(s) : s[i] # x) => Distinct(Append(s, x))
         /\ \A x \in X : DistinctKeys(s) /\ (\A i \in 1 .. Len(s) : s[i][1] # x[1])
                           => DistinctKeys(Append(s, x))
<1>1. Distinct(<<>>) /\ DistinctKeys(<<>>)
  BY DEF Distinct, DistinctKeys
<1>2. ASSUME NEW x \in X, NEW t, t = Append(s, x)
      PROVE  /\ Distinct(s) /\ (\A i \in 1 .. Len(s) : s[i] # x) => Distinct(t)
             /\ DistinctKeys(s) /\ (\A i \in 1 .. Len(s) : s[i][1] # x[1]) => DistinctKeys(t)
  <2>1. /\ Len(t) = Len(s) + 1 /\ Len(s) \in Nat /\ t[Len(s) + 1] = x
        /\ \A i \in 1 .. Len(s) : t[i] = s[i]
    BY <1>2
  <2>2. \A i \in 1 .. Len(t) : i \in 1 .. Len(s) \/ i = Len(s) + 1
    BY <2>1
  <2> QED BY <2>1, <2>2 DEF Distinct, DistinctKeys
<1> QED BY <1>1, <1>2

LEMMA DistinctOut ==
  ASSUME NEW X, NEW s \in Seq(X), NEW i \in 0 .. Len(s) - 1
  PROVE  /\ Distinct(s) => Distinct(OutOf(s, i))
         /\ DistinctKeys(s) => DistinctKeys(OutOf(s, i))
<1> DEFINE t == OutOf(s, i)
<1>1. Len(s) \in Nat /\ Len(t) = Len(s) - 1 /\ \A j \in 1 .. Len(t) : t[j] = s[Shifted(i, j)]
  BY OutOfList
<1> HIDE DEF t
<1>2. \A j \in 1 .. Len(t) : Shifted(i, j) \in 1 .. Len(s)
  BY <1>1 DEF Shifted
<1>3. \A j, k \in 1 .. Len(t) : Shifted(i, j) = Shifted(i, k) => j = k
  BY <1>1 DEF Shifted
<1>4. Distinct(s) => Distinct(t)
  BY <1>1, <1>2, <1>3 DEF Distinct
<1>5. DistinctKeys(s) => DistinctKeys(t)
  <2> SUFFICES ASSUME DistinctKeys(s), NEW j \in 1 .. Len(t), NEW k \in 1 .. Len(t), t[j][1] = t[k][1]
               PROVE  j = k
    BY DEF DistinctKeys
  <2>1. s[Shifted(i, j)][1] = s[Shifted(i, k)][1]
    BY <1>1
  <2>2. Shifted(i, j) = Shifted(i, k)
    BY <1>2, <2>1 DEF DistinctKeys
  <2> QED BY <1>3, <2>2
<1> QED BY <1>4, <1>5 DEF t

\* What lists of keys become: no key is twice in them.
LEMMA SetFromList ==
  ASSUME NEW il \in Seq(Keys), NEW s, s = Set!FromList(il)
  PROVE  s \in Seq(Keys) /\ Len(s) <= Len(il) /\ Distinct(s)
<1> DEFINE ins(q, k) == IF \E i \in 1 .. Len(q) : q[i] = k THEN q ELSE Append(q, k)
           Fcn(g) == g = [i \in 0 .. Len(il) |-> IF i = 0 THEN <<>> ELSE ins(g[i - 1], il[i])]
           f == CHOOSE g : Fcn(g)
           step == [p \in Seq(Keys) \X (1 .. Len(il)) |-> ins(p[1], il[p[2]])]
<1>0. Len(il) \in Nat /\ (\A i \in 1 .. Len(il) : il[i] \in Keys) /\ <<>> \in Seq(Keys)
  OBVIOUS
<1>1. step \in [Seq(Keys) \X (1 .. Len(il)) -> Seq(Keys)]
  BY <1>0
<1>2. PICK g \in [0 .. Len(il) -> Seq(Keys)] : RecursTo(Len(il), g, <<>>, step)
  <2> HIDE DEF step
  <2> QED BY <1>0, <1>1, RecursionTo
<1>3. \A i \in 1 .. Len(il) : g[i] = ins(g[i - 1], il[i])
  <2> SUFFICES ASSUME NEW i \in 1 .. Len(il) PROVE g[i] = ins(g[i - 1], il[i])
    OBVIOUS
  <2>1. i - 1 \in 0 .. Len(il)
    BY <1>0
  <2>2. g[i] = step[<<g[i - 1], i>>] /\ g[i - 1] \in Seq(Keys)
    <3> HIDE DEF step
    <3> QED BY <1>2, <2>1 DEF RecursTo
  <2>3. step[<<g[i - 1], i>>] = ins(g[i - 1], il[i])
    BY <2>2
  <2> HIDE DEF step, ins
  <2> QED BY <2>2, <2>3
<1> HIDE DEF step
<1>4. Fcn(g)
  <2> HIDE DEF ins
  <2>1. \A i \in 0 .. Len(il) : g[i] = IF i = 0 THEN <<>> ELSE ins(g[i - 1], il[i])
    <3>1. g[0] = <<>>
      BY <1>2 DEF RecursTo
    <3> QED BY <1>0, <1>3, <3>1
  <2> QED BY <1>2, <2>1
<1>5. Fcn(f)
  <2> HIDE DEF Fcn
  <2> QED BY <1>4, Zenon
<1>6. s = f[Len(il)]
  BY DEF Set!FromList
<1> HIDE DEF f
<1>7. f[0] = <<>> /\ \A i \in 1 .. Len(il) : f[i] = ins(f[i - 1], il[i])
  <2> HIDE DEF ins
  <2>1. \A i \in 0 .. Len(il) : f[i] = IF i = 0 THEN <<>> ELSE ins(f[i - 1], il[i])
    BY <1>5
  <2>2. 0 \in 0 .. Len(il) /\ \A i \in 1 .. Len(il) : i \in 0 .. Len(il) /\ i # 0
    BY <1>0
  <2> QED BY <2>1, <2>2
<1> DEFINE S == {i \in Nat : f[i] \in Seq(Keys) /\ Len(f[i]) <= i /\ Distinct(f[i])}
<1>8. 0 \in S
  <2>1. f[0] = <<>> /\ <<>> \in Seq(Keys) /\ Len(<<>>) = 0 /\ Distinct(<<>>)
    BY <1>7 DEF Distinct
  <2> QED BY <2>1
<1>9. ASSUME NEW i \in 1 .. Len(il), i - 1 \in S PROVE i \in S
  <2> DEFINE q == f[i - 1]
  <2>1. q \in Seq(Keys) /\ Len(q) <= i - 1 /\ Distinct(q) /\ i \in Nat /\ il[i] \in Keys
    BY <1>0, <1>9
  <2>2. f[i] = IF \E j \in 1 .. Len(q) : q[j] = il[i] THEN q ELSE Append(q, il[i])
    BY <1>7
  <2> HIDE DEF q
  <2>3. CASE \E j \in 1 .. Len(q) : q[j] = il[i]
    BY <2>1, <2>2, <2>3
  <2>4. CASE ~ \E j \in 1 .. Len(q) : q[j] = il[i]
    <3>1. f[i] = Append(q, il[i])
      BY <2>2, <2>4
    <3>2. Distinct(f[i])
      BY <2>1, <2>4, <3>1, DistinctAfter
    <3>3. f[i] \in Seq(Keys) /\ Len(f[i]) <= i
      BY <2>1, <3>1
    <3> QED BY <2>1, <3>2, <3>3
  <2> QED BY <2>3, <2>4
<1>10. Len(il) \in S
  <2> HIDE DEF S
  <2>1. \A i \in 0 .. Len(il) : i \in S
    BY <1>0, <1>8, <1>9, InductionTo
  <2> QED BY <1>0, <2>1
<1> QED BY <1>6, <1>10

LEMMA SetsAre ==
  ASSUME NEW s \in Set!Sets
  PROVE  s \in Seq(Keys) /\ Len(s) \in 0 .. OtherCapacity /\ Distinct(s)
<1>0. OtherCapacity \in Nat
  BY ContainersAssumption
<1>1. PICK il \in UNION {[1 .. n -> Keys] : n \in 0 .. OtherCapacity} : s = Set!FromList(il)
  BY DEF Set!Sets
<1>2. PICK n \in 0 .. OtherCapacity : il \in [1 .. n -> Keys]
  BY <1>1
<1>3. il \in Seq(Keys) /\ Len(il) = n
  BY <1>0, <1>2
<1>4. s \in Seq(Keys) /\ Len(s) <= n /\ Distinct(s)
  BY <1>1, <1>3, SetFromList
<1> QED BY <1>0, <1>4

\* What lists of pairs become: no key is twice in them.
LEMMA MapFromList ==
  ASSUME NEW il \in Seq(Keys \X Mapped), NEW s, s = Map!FromList(il)
  PROVE  s \in Seq(Keys \X Mapped) /\ Len(s) <= Len(il) /\ DistinctKeys(s)
<1> DEFINE ins(q, k) == IF \E i \in 1 .. Len(q) : q[i][1] = k[1] THEN q ELSE Append(q, k)
           Fcn(g) == g = [i \in 0 .. Len(il) |-> IF i = 0 THEN <<>> ELSE ins(g[i - 1], il[i])]
           f == CHOOSE g : Fcn(g)
           step == [p \in Seq(Keys \X Mapped) \X (1 .. Len(il)) |-> ins(p[1], il[p[2]])]
<1>0. Len(il) \in Nat /\ (\A i \in 1 .. Len(il) : il[i] \in Keys \X Mapped) /\ <<>> \in Seq(Keys \X Mapped)
  OBVIOUS
<1>1. step \in [Seq(Keys \X Mapped) \X (1 .. Len(il)) -> Seq(Keys \X Mapped)]
  BY <1>0
<1>2. PICK g \in [0 .. Len(il) -> Seq(Keys \X Mapped)] : RecursTo(Len(il), g, <<>>, step)
  <2> HIDE DEF step
  <2> QED BY <1>0, <1>1, RecursionTo
<1>3. \A i \in 1 .. Len(il) : g[i] = ins(g[i - 1], il[i])
  <2> SUFFICES ASSUME NEW i \in 1 .. Len(il) PROVE g[i] = ins(g[i - 1], il[i])
    OBVIOUS
  <2>1. i - 1 \in 0 .. Len(il)
    BY <1>0
  <2>2. g[i] = step[<<g[i - 1], i>>] /\ g[i - 1] \in Seq(Keys \X Mapped)
    <3> HIDE DEF step
    <3> QED BY <1>2, <2>1 DEF RecursTo
  <2>3. step[<<g[i - 1], i>>] = ins(g[i - 1], il[i])
    BY <2>2
  <2> HIDE DEF step, ins
  <2> QED BY <2>2, <2>3
<1> HIDE DEF step
<1>4. Fcn(g)
  <2> HIDE DEF ins
  <2>1. \A i \in 0 .. Len(il) : g[i] = IF i = 0 THEN <<>> ELSE ins(g[i - 1], il[i])
    <3>1. g[0] = <<>>
      BY <1>2 DEF RecursTo
    <3> QED BY <1>0, <1>3, <3>1
  <2> QED BY <1>2, <2>1
<1>5. Fcn(f)
  <2> HIDE DEF Fcn
  <2> QED BY <1>4, Zenon
<1>6. s = f[Len(il)]
  BY DEF Map!FromList, Map!Inserted
<1> HIDE DEF f
<1>7. f[0] = <<>> /\ \A i \in 1 .. Len(il) : f[i] = ins(f[i - 1], il[i])
  <2> HIDE DEF ins
  <2>1. \A i \in 0 .. Len(il) : f[i] = IF i = 0 THEN <<>> ELSE ins(f[i - 1], il[i])
    BY <1>5
  <2>2. 0 \in 0 .. Len(il) /\ \A i \in 1 .. Len(il) : i \in 0 .. Len(il) /\ i # 0
    BY <1>0
  <2> QED BY <2>1, <2>2
<1> DEFINE S == {i \in Nat : f[i] \in Seq(Keys \X Mapped) /\ Len(f[i]) <= i /\ DistinctKeys(f[i])}
<1>8. 0 \in S
  <2>1. f[0] = <<>> /\ Len(<<>>) = 0 /\ DistinctKeys(<<>>)
    BY <1>7 DEF DistinctKeys
  <2>2. <<>> \in Seq(Keys \X Mapped)
    OBVIOUS
  <2>3. f[0] \in Seq(Keys \X Mapped) /\ Len(f[0]) <= 0 /\ DistinctKeys(f[0])
    BY <2>1, <2>2
  <2> QED BY <2>3
<1>9. ASSUME NEW i \in 1 .. Len(il), i - 1 \in S PROVE i \in S
  <2> DEFINE q == f[i - 1]
  <2>1. q \in Seq(Keys \X Mapped) /\ Len(q) <= i - 1 /\ DistinctKeys(q) /\ i \in Nat /\ il[i] \in Keys \X Mapped
    BY <1>0, <1>9
  <2>2. f[i] = IF \E j \in 1 .. Len(q) : q[j][1] = il[i][1] THEN q ELSE Append(q, il[i])
    BY <1>7
  <2> HIDE DEF q
  <2>3. CASE \E j \in 1 .. Len(q) : q[j][1] = il[i][1]
    BY <2>1, <2>2, <2>3
  <2>4. CASE ~ \E j \in 1 .. Len(q) : q[j][1] = il[i][1]
    <3>1. f[i] = Append(q, il[i])
      BY <2>2, <2>4
    <3>2. DistinctKeys(f[i])
      BY <2>1, <2>4, <3>1, DistinctAfter
    <3>3. f[i] \in Seq(Keys \X Mapped) /\ Len(f[i]) <= i
      BY <2>1, <3>1
    <3> QED BY <2>1, <3>2, <3>3
  <2> QED BY <2>3, <2>4
<1>10. Len(il) \in S
  <2> HIDE DEF S
  <2>1. \A i \in 0 .. Len(il) : i \in S
    BY <1>0, <1>8, <1>9, InductionTo
  <2> QED BY <1>0, <2>1
<1> QED BY <1>6, <1>10

LEMMA MapsAre ==
  ASSUME NEW s \in Map!Maps
  PROVE  s \in Seq(Keys \X Mapped) /\ Len(s) \in 0 .. OtherCapacity /\ DistinctKeys(s)
<1>0. OtherCapacity \in Nat
  BY ContainersAssumption
<1>1. PICK il \in UNION {[1 .. n -> Keys \X Mapped] : n \in 0 .. OtherCapacity} : s = Map!FromList(il)
  BY DEF Map!Maps, Map!Lists, Map!Pairs
<1>2. PICK n \in 0 .. OtherCapacity : il \in [1 .. n -> Keys \X Mapped]
  BY <1>1
<1>3. il \in Seq(Keys \X Mapped) /\ Len(il) = n
  BY <1>0, <1>2
<1>4. s \in Seq(Keys \X Mapped) /\ Len(s) <= n /\ DistinctKeys(s)
  BY <1>1, <1>3, MapFromList
<1> QED BY <1>0, <1>4

\* The keys of a list of pairs.
KeysIn(s) == {s[i][1] : i \in 1 .. Len(s)}

LEMMA SecondWritten ==
  ASSUME NEW p \in Keys \X Mapped, NEW v \in Mapped
  PROVE  [p EXCEPT ![2] = v] = <<p[1], v>> /\ <<p[1], v>> \in Keys \X Mapped
  OBVIOUS

\* The list t is s with v written behind the key at i, or without the pair there.
Written(s, t, i, v) ==
  /\ t \in Seq(Keys \X Mapped) /\ Len(t) = Len(s)
  /\ \A j \in 1 .. Len(s) : t[j][1] = s[j][1]
  /\ \A j \in 1 .. Len(s) : t[j] = IF j = i THEN <<s[j][1], v>> ELSE s[j]

Without(s, t, i) ==
  /\ t \in Seq(Keys \X Mapped) /\ DistinctKeys(t) /\ Len(t) = Len(s) - 1
  /\ \A j \in 1 .. Len(t) : t[j] = s[Shifted(i, j)]

\* A written value leaves the keys where they were.
LEMMA SecondsWritten ==
  ASSUME NEW s \in Seq(Keys \X Mapped), NEW i \in 0 .. Len(s) - 1, NEW v \in Mapped
  PROVE  i + 1 \in 1 .. Len(s) /\ Written(s, [s EXCEPT ![i + 1][2] = v], i + 1, v)
<1> DEFINE t == [s EXCEPT ![i + 1][2] = v]
<1>1. i + 1 \in 1 .. Len(s) /\ Len(s) \in Nat
  OBVIOUS
<1>2. s[i + 1] \in Keys \X Mapped
  BY <1>1
<1> DEFINE p == <<s[i + 1][1], v>>
<1>3. p \in Keys \X Mapped /\ [s[i + 1] EXCEPT ![2] = v] = p
  BY <1>2, SecondWritten
<1>4. t = [s EXCEPT ![i + 1] = p]
  <2>1. t = [s EXCEPT ![i + 1] = [s[i + 1] EXCEPT ![2] = v]]
    OBVIOUS
  <2> QED BY <1>3, <2>1
<1>5. p[1] = s[i + 1][1]
  OBVIOUS
<1> HIDE DEF p, t
<1>6. t \in Seq(Keys \X Mapped) /\ Len(t) = Len(s)
      /\ \A j \in 1 .. Len(s) : t[j] = IF j = i + 1 THEN p ELSE s[j]
  BY <1>1, <1>3, <1>4, ExceptSeq
<1>7. \A j \in 1 .. Len(s) : t[j][1] = s[j][1]
  BY <1>5, <1>6
<1> USE DEF p
<1>8. \A j \in 1 .. Len(s) : t[j] = IF j = i + 1 THEN <<s[j][1], v>> ELSE s[j]
  BY <1>6
<1> HIDE DEF t, p
<1>9. Written(s, t, i + 1, v)
  BY <1>6, <1>7, <1>8 DEF Written
<1> QED BY <1>1, <1>9 DEF t

LEMMA ListWithout ==
  ASSUME NEW s \in Seq(Keys \X Mapped), DistinctKeys(s), NEW i \in 0 .. Len(s) - 1
  PROVE  Without(s, SubSeq(s, 1, i) \o SubSeq(s, i + 2, Len(s)), i)
<1>1. OutOf(s, i) \in Seq(Keys \X Mapped) /\ Len(OutOf(s, i)) = Len(s) - 1
      /\ \A j \in 1 .. Len(OutOf(s, i)) : OutOf(s, i)[j] = s[Shifted(i, j)]
  BY OutOfList
<1>2. DistinctKeys(OutOf(s, i))
  BY DistinctOut
<1>3. Without(s, OutOf(s, i), i)
  BY <1>1, <1>2 DEF Without
<1> QED BY <1>3 DEF OutOf

\* A function is determined by the pairs that are to be in it.
IsFunctionOf(g, s) ==
  g = [k \in KeysIn(s) |-> g[k]] /\ \A i \in 1 .. Len(s) : g[s[i][1]] = s[i][2]

LEMMA FunctionOf ==
  ASSUME NEW s \in Seq(Keys \X Mapped), DistinctKeys(s)
  PROVE  /\ DOMAIN Map!AsFunction(s) = KeysIn(s)
         /\ \A i \in 1 .. Len(s) : Map!AsFunction(s)[s[i][1]] = s[i][2]
         /\ \A k \in KeysIn(s) : \E i \in 1 .. Len(s) : k = s[i][1] /\ Map!AsFunction(s)[k] = s[i][2]
         /\ Map!AsFunction(s) = [k \in KeysIn(s) |-> Map!AsFunction(s)[k]]
<1> DEFINE place(k) == CHOOSE i \in 1 .. Len(s) : s[i][1] = k /\ \A j \in 1 .. i - 1 : s[j][1] # k
<1>0. Len(s) \in Nat
  OBVIOUS
<1>1. Map!AsFunction(s) = [k \in KeysIn(s) |-> s[place(k)][2]]
  BY DEF Map!AsFunction, KeysIn
<1>2. ASSUME NEW i \in 1 .. Len(s) PROVE place(s[i][1]) = i
  <2>1. \A j \in 1 .. Len(s) : s[j][1] = s[i][1] => j = i
    BY DEF DistinctKeys
  <2>2. s[i][1] = s[i][1] /\ \A j \in 1 .. i - 1 : s[j][1] # s[i][1]
    <3>1. \A j \in 1 .. i - 1 : j \in 1 .. Len(s) /\ j # i
      BY <1>0
    <3> QED BY <2>1, <3>1
  <2> QED BY <2>1, <2>2, Zenon
<1> HIDE DEF place
<1>3. \A i \in 1 .. Len(s) : s[i][1] \in KeysIn(s)
  BY DEF KeysIn
<1>4. \A i \in 1 .. Len(s) : Map!AsFunction(s)[s[i][1]] = s[i][2]
  BY <1>1, <1>2, <1>3
<1>5. \A k \in KeysIn(s) : \E i \in 1 .. Len(s) : k = s[i][1]
  BY DEF KeysIn
<1>6. Map!AsFunction(s) = [k \in KeysIn(s) |-> Map!AsFunction(s)[k]]
  BY <1>1
<1>7. DOMAIN Map!AsFunction(s) = KeysIn(s)
  BY <1>1
<1> QED BY <1>4, <1>5, <1>6, <1>7

LEMMA Determined ==
  ASSUME NEW s \in Seq(Keys \X Mapped), DistinctKeys(s),
         NEW g, IsFunctionOf(g, s)
  PROVE  Map!AsFunction(s) = g
<1> DEFINE f == Map!AsFunction(s)
<1>1. f = [k \in KeysIn(s) |-> f[k]]
      /\ \A k \in KeysIn(s) : \E i \in 1 .. Len(s) : k = s[i][1] /\ f[k] = s[i][2]
  BY FunctionOf
<1> HIDE DEF f
<1>2. \A k \in KeysIn(s) : f[k] = g[k]
  BY <1>1 DEF IsFunctionOf
<1>3. f = g
  BY <1>1, <1>2 DEF IsFunctionOf
<1> QED BY <1>3 DEF f

LEMMA FunctionOfAppend ==
  ASSUME NEW s \in Seq(Keys \X Mapped), DistinctKeys(s),
         NEW k \in Keys, NEW v \in Mapped, k \notin KeysIn(s)
  PROVE  Map!AsFunction(Append(s, <<k, v>>))
           = [x \in KeysIn(s) \union {k} |-> IF x = k THEN v ELSE Map!AsFunction(s)[x]]
<1> DEFINE f == Map!AsFunction(s)
           t == Append(s, <<k, v>>)
           g == [x \in KeysIn(s) \union {k} |-> IF x = k THEN v ELSE f[x]]
<1>1. /\ t \in Seq(Keys \X Mapped) /\ Len(t) = Len(s) + 1 /\ Len(s) \in Nat
      /\ t[Len(s) + 1] = <<k, v>> /\ \A i \in 1 .. Len(s) : t[i] = s[i]
  OBVIOUS
<1>2. DistinctKeys(t)
  <2>1. <<k, v>> \in Keys \X Mapped /\ <<k, v>>[1] = k
    OBVIOUS
  <2>2. \A i \in 1 .. Len(s) : s[i][1] # <<k, v>>[1]
    BY <2>1 DEF KeysIn
  <2> QED BY <2>1, <2>2, DistinctAfter
<1> HIDE DEF t
<1>3. \A i \in 1 .. Len(t) : i \in 1 .. Len(s) \/ i = Len(s) + 1
  BY <1>1
<1>4. KeysIn(t) = KeysIn(s) \union {k}
  <2>1. \A x \in KeysIn(t) : x \in KeysIn(s) \/ x = k
    BY <1>1, <1>3 DEF KeysIn
  <2>2. \A x \in KeysIn(s) : x \in KeysIn(t)
    <3>1. \A i \in 1 .. Len(s) : i \in 1 .. Len(t)
      BY <1>1
    <3> QED BY <1>1, <3>1 DEF KeysIn
  <2>3. k \in KeysIn(t)
    <3>1. Len(s) + 1 \in 1 .. Len(t) /\ t[Len(s) + 1][1] = k
      BY <1>1
    <3> QED BY <3>1 DEF KeysIn
  <2> QED BY <2>1, <2>2, <2>3
<1>5. \A i \in 1 .. Len(s) : f[s[i][1]] = s[i][2] /\ s[i][1] \in KeysIn(s) /\ s[i][1] # k
  BY FunctionOf DEF KeysIn
<1> HIDE DEF f
<1>6. \A i \in 1 .. Len(t) : g[t[i][1]] = t[i][2]
  BY <1>1, <1>3, <1>5
<1>7. g = [x \in KeysIn(t) |-> g[x]]
  BY <1>4
<1> HIDE DEF g
<1>8. IsFunctionOf(g, t)
  BY <1>6, <1>7 DEF IsFunctionOf
<1>9. Map!AsFunction(t) = g
  BY <1>1, <1>2, <1>8, Determined
<1> QED BY <1>9 DEF t, f, g

LEMMA WrittenFunction ==
  ASSUME NEW s \in Seq(Keys \X Mapped), DistinctKeys(s),
         NEW i \in 1 .. Len(s), NEW v \in Mapped, NEW t, Written(s, t, i, v)
  PROVE  Map!AsFunction(t) = [x \in KeysIn(s) |-> IF x = s[i][1] THEN v ELSE Map!AsFunction(s)[x]]
<1> DEFINE f == Map!AsFunction(s)
           g == [x \in KeysIn(s) |-> IF x = s[i][1] THEN v ELSE f[x]]
<1>1. /\ t \in Seq(Keys \X Mapped) /\ Len(t) = Len(s)
      /\ \A j \in 1 .. Len(s) : t[j][1] = s[j][1]
      /\ \A j \in 1 .. Len(s) : t[j] = IF j = i THEN <<s[j][1], v>> ELSE s[j]
  BY DEF Written
<1>2. DistinctKeys(t)
  BY <1>1 DEF DistinctKeys
<1>3. KeysIn(t) = KeysIn(s)
  BY <1>1 DEF KeysIn
<1>4. \A j \in 1 .. Len(s) : f[s[j][1]] = s[j][2] /\ s[j][1] \in KeysIn(s)
  BY FunctionOf DEF KeysIn
<1> HIDE DEF f
<1>5. \A j \in 1 .. Len(s) : s[j][1] = s[i][1] => j = i
  BY DEF DistinctKeys
<1>6. ASSUME NEW j \in 1 .. Len(t) PROVE g[t[j][1]] = t[j][2]
  <2>1. j \in 1 .. Len(s) /\ t[j][1] = s[j][1] /\ s[j][1] \in KeysIn(s)
    BY <1>1, <1>4
  <2>2. CASE j = i
    <3>1. t[j][2] = v
      <4>1. t[j] = <<s[j][1], v>>
        BY <1>1, <2>1, <2>2
      <4> QED BY <4>1
    <3> QED BY <2>1, <2>2, <3>1
  <2>3. CASE j # i
    <3>1. t[j] = s[j] /\ s[j][1] # s[i][1]
      BY <1>1, <1>5, <2>1, <2>3
    <3> QED BY <1>4, <2>1, <3>1
  <2> QED BY <2>2, <2>3
<1>7. g = [x \in KeysIn(t) |-> g[x]]
  BY <1>3
<1> HIDE DEF g
<1>8. IsFunctionOf(g, t)
  BY <1>6, <1>7 DEF IsFunctionOf
<1>9. Map!AsFunction(t) = g
  BY <1>1, <1>2, <1>8, Determined
<1> QED BY <1>9 DEF f, g

LEMMA FunctionWithout ==
  ASSUME NEW s \in Seq(Keys \X Mapped), DistinctKeys(s),
         NEW i \in 0 .. Len(s) - 1,
         NEW t, Without(s, t, i)
  PROVE  Map!AsFunction(t) = [x \in KeysIn(s) \ {s[i + 1][1]} |-> Map!AsFunction(s)[x]]
<1> DEFINE f == Map!AsFunction(s)
           g == [x \in KeysIn(s) \ {s[i + 1][1]} |-> f[x]]
<1>0. Len(s) \in Nat /\ i \in Nat /\ i + 1 \in 1 .. Len(s)
  OBVIOUS
<1>1. /\ Len(t) = Len(s) - 1 /\ t \in Seq(Keys \X Mapped) /\ DistinctKeys(t)
      /\ \A j \in 1 .. Len(t) : t[j] = s[Shifted(i, j)]
  BY DEF Without
<1>3. \A j \in 1 .. Len(t) : Shifted(i, j) \in 1 .. Len(s) /\ Shifted(i, j) # i + 1
  BY <1>0, <1>1 DEF Shifted
<1>4. \A j \in 1 .. Len(s) : j # i + 1 => \E l \in 1 .. Len(t) : Shifted(i, l) = j
  <2> SUFFICES ASSUME NEW j \in 1 .. Len(s), j # i + 1
               PROVE  \E l \in 1 .. Len(t) : Shifted(i, l) = j
    OBVIOUS
  <2>1. CASE j <= i
    <3>1. j \in 1 .. Len(t) /\ Shifted(i, j) = j
      BY <1>0, <1>1, <2>1 DEF Shifted
    <3> QED BY <3>1
  <2>2. CASE ~(j <= i)
    <3>1. j - 1 \in 1 .. Len(t) /\ Shifted(i, j - 1) = j
      BY <1>0, <1>1, <2>2 DEF Shifted
    <3> QED BY <3>1
  <2> QED BY <2>1, <2>2
<1>5. \A j \in 1 .. Len(s) : s[j][1] = s[i + 1][1] => j = i + 1
  BY <1>0 DEF DistinctKeys
<1>6. KeysIn(t) = KeysIn(s) \ {s[i + 1][1]}
  <2>1. ASSUME NEW x \in KeysIn(t) PROVE x \in KeysIn(s) /\ x # s[i + 1][1]
    <3>1. PICK j \in 1 .. Len(t) : x = t[j][1]
      BY DEF KeysIn
    <3>2. x = s[Shifted(i, j)][1] /\ Shifted(i, j) \in 1 .. Len(s) /\ Shifted(i, j) # i + 1
      BY <1>1, <1>3, <3>1
    <3> QED BY <1>5, <3>2 DEF KeysIn
  <2>2. ASSUME NEW x \in KeysIn(s), x # s[i + 1][1] PROVE x \in KeysIn(t)
    <3>1. PICK j \in 1 .. Len(s) : x = s[j][1]
      BY DEF KeysIn
    <3>2. PICK l \in 1 .. Len(t) : Shifted(i, l) = j
      BY <1>4, <2>2, <3>1
    <3>3. t[l][1] = x
      BY <1>1, <3>1, <3>2
    <3> QED BY <3>3 DEF KeysIn
  <2> QED BY <2>1, <2>2
<1>7. \A j \in 1 .. Len(s) : f[s[j][1]] = s[j][2] /\ s[j][1] \in KeysIn(s)
  BY FunctionOf DEF KeysIn
<1> HIDE DEF f
<1>8. ASSUME NEW j \in 1 .. Len(t) PROVE g[t[j][1]] = t[j][2]
  <2>1. t[j] = s[Shifted(i, j)] /\ Shifted(i, j) \in 1 .. Len(s)
    BY <1>1, <1>3
  <2>2. t[j][1] \in KeysIn(s) \ {s[i + 1][1]}
    BY <1>6 DEF KeysIn
  <2>3. g[t[j][1]] = f[t[j][1]]
    BY <2>2
  <2> HIDE DEF f, g
  <2> QED BY <1>7, <2>1, <2>3
<1>9. g = [x \in KeysIn(t) |-> g[x]]
  BY <1>6
<1> HIDE DEF g
<1>10. IsFunctionOf(g, t)
  BY <1>8, <1>9 DEF IsFunctionOf
<1>11. Map!AsFunction(t) = g
  BY <1>1, <1>10, Determined
<1> QED BY <1>11 DEF f, g

LEMMA FunctionOfWritten ==
  ASSUME NEW s \in Seq(Keys \X Mapped), DistinctKeys(s),
         NEW i \in 0 .. Len(s) - 1, NEW v \in Mapped
  PROVE  Map!AsFunction([s EXCEPT ![i + 1][2] = v])
           = [x \in KeysIn(s) |-> IF x = s[i + 1][1] THEN v ELSE Map!AsFunction(s)[x]]
<1>1. i + 1 \in 1 .. Len(s) /\ Written(s, [s EXCEPT ![i + 1][2] = v], i + 1, v)
  BY SecondsWritten
<1> QED BY <1>1, WrittenFunction

LEMMA FunctionOfErased ==
  ASSUME NEW s \in Seq(Keys \X Mapped), DistinctKeys(s), NEW i \in 0 .. Len(s) - 1
  PROVE  Map!AsFunction(SubSeq(s, 1, i) \o SubSeq(s, i + 2, Len(s)))
           = [x \in KeysIn(s) \ {s[i + 1][1]} |-> Map!AsFunction(s)[x]]
<1>1. Without(s, SubSeq(s, 1, i) \o SubSeq(s, i + 2, Len(s)), i)
  BY ListWithout
<1> QED BY <1>1, FunctionWithout

\* There are no more keys than pairs.
LEMMA KeysCounted ==
  ASSUME NEW X, NEW s \in Seq(X)
  PROVE  /\ Cardinality(KeysIn(s)) <= Len(s)
         /\ Cardinality(Set!KeysOf(s)) <= Len(s)
<1>0. Len(s) \in Nat
  OBVIOUS
<1>1. ExistsSurjection(1 .. Len(s), KeysIn(s))
  <2> DEFINE f == [i \in 1 .. Len(s) |-> s[i][1]]
  <2>1. f \in [1 .. Len(s) -> KeysIn(s)] /\ \A k \in KeysIn(s) : \E i \in 1 .. Len(s) : f[i] = k
    BY DEF KeysIn
  <2> QED BY <2>1 DEF ExistsSurjection, Surjection
<1>2. ExistsSurjection(1 .. Len(s), Set!KeysOf(s))
  <2> DEFINE f == [i \in 1 .. Len(s) |-> s[i]]
  <2>1. f \in [1 .. Len(s) -> Set!KeysOf(s)]
        /\ \A k \in Set!KeysOf(s) : \E i \in 1 .. Len(s) : f[i] = k
    BY DEF Set!KeysOf
  <2> QED BY <2>1 DEF ExistsSurjection, Surjection
<1> QED BY <1>0, <1>1, <1>2, FS_SurjCardinalityBound

LEMMA KeysFinite ==
  ASSUME NEW X, NEW s \in Seq(X)
  PROVE  /\ IsFiniteSet(KeysIn(s)) /\ Cardinality(KeysIn(s)) \in Nat
         /\ IsFiniteSet(Set!KeysOf(s)) /\ Cardinality(Set!KeysOf(s)) \in Nat
<1>1. Len(s) \in Nat
  OBVIOUS
<1>2. ExistsSurjection(1 .. Len(s), KeysIn(s))
  <2> DEFINE f == [i \in 1 .. Len(s) |-> s[i][1]]
  <2>1. f \in [1 .. Len(s) -> KeysIn(s)] /\ \A k \in KeysIn(s) : \E i \in 1 .. Len(s) : f[i] = k
    BY DEF KeysIn
  <2> QED BY <2>1 DEF ExistsSurjection, Surjection
<1>3. ExistsSurjection(1 .. Len(s), Set!KeysOf(s))
  <2> DEFINE f == [i \in 1 .. Len(s) |-> s[i]]
  <2>1. f \in [1 .. Len(s) -> Set!KeysOf(s)]
        /\ \A k \in Set!KeysOf(s) : \E i \in 1 .. Len(s) : f[i] = k
    BY DEF Set!KeysOf
  <2> QED BY <2>1 DEF ExistsSurjection, Surjection
<1> QED BY <1>1, <1>2, <1>3, FS_NatSurjection, FS_CardinalityType

\* What a map stands for is a dictionary.
LEMMA FunctionOfMap ==
  ASSUME NEW m \in Map!Maps
  PROVE  /\ DOMAIN Map!AsFunction(m) \subseteq Keys
         /\ \A k \in DOMAIN Map!AsFunction(m) : Map!AsFunction(m)[k] \in Mapped \union Keys
<1>1. m \in Seq(Keys \X Mapped) /\ DistinctKeys(m)
  BY MapsAre
<1>2. DOMAIN Map!AsFunction(m) = KeysIn(m)
      /\ \A k \in KeysIn(m) : \E i \in 1 .. Len(m) : k = m[i][1] /\ Map!AsFunction(m)[k] = m[i][2]
  BY <1>1, FunctionOf
<1>3. \A i \in 1 .. Len(m) : m[i][1] \in Keys /\ m[i][2] \in Mapped
  BY <1>1
<1> QED BY <1>2, <1>3

\* The keys of a list one was appended to, or taken out of.
LEMMA KeysAfter ==
  ASSUME NEW s \in Seq(Keys)
  PROVE  /\ \A k \in Keys : Set!KeysOf(Append(s, k)) = Set!KeysOf(s) \union {k}
         /\ Distinct(s) => \A i \in 0 .. Len(s) - 1 :
                             Set!KeysOf(OutOf(s, i)) = Set!KeysOf(s) \ {s[i + 1]}
<1>0. Len(s) \in Nat
  OBVIOUS
<1>1. ASSUME NEW k \in Keys PROVE Set!KeysOf(Append(s, k)) = Set!KeysOf(s) \union {k}
  <2> DEFINE t == Append(s, k)
  <2>1. Len(t) = Len(s) + 1 /\ t[Len(s) + 1] = k /\ \A i \in 1 .. Len(s) : t[i] = s[i]
    OBVIOUS
  <2> HIDE DEF t
  <2>2. \A i \in 1 .. Len(t) : i \in 1 .. Len(s) \/ i = Len(s) + 1
    BY <1>0, <2>1
  <2>3. \A i \in 1 .. Len(s) : i \in 1 .. Len(t)
    BY <1>0, <2>1
  <2>4. Len(s) + 1 \in 1 .. Len(t)
    BY <1>0, <2>1
  <2>5. \A x \in Set!KeysOf(t) : x \in Set!KeysOf(s) \/ x = k
    BY <2>1, <2>2 DEF Set!KeysOf
  <2>6. \A x \in Set!KeysOf(s) : x \in Set!KeysOf(t)
    BY <2>1, <2>3 DEF Set!KeysOf
  <2>7. k \in Set!KeysOf(t)
    BY <2>1, <2>4 DEF Set!KeysOf
  <2>8. Set!KeysOf(t) = Set!KeysOf(s) \union {k}
    BY <2>5, <2>6, <2>7
  <2> QED BY <2>8 DEF t
<1>2. ASSUME Distinct(s), NEW i \in 0 .. Len(s) - 1
      PROVE  Set!KeysOf(OutOf(s, i)) = Set!KeysOf(s) \ {s[i + 1]}
  <2> DEFINE t == OutOf(s, i)
  <2>1. Len(t) = Len(s) - 1 /\ \A j \in 1 .. Len(t) : t[j] = s[Shifted(i, j)]
    BY OutOfList
  <2>2. i \in Nat /\ i + 1 \in 1 .. Len(s)
    BY <1>0
  <2> HIDE DEF t
  <2>3. \A j \in 1 .. Len(t) : Shifted(i, j) \in 1 .. Len(s) /\ Shifted(i, j) # i + 1
    BY <1>0, <2>1, <2>2 DEF Shifted
  <2>4. \A j \in 1 .. Len(s) : s[j] = s[i + 1] => j = i + 1
    BY <1>2, <2>2 DEF Distinct
  <2>5. ASSUME NEW x \in Set!KeysOf(t) PROVE x \in Set!KeysOf(s) /\ x # s[i + 1]
    <3>1. PICK j \in 1 .. Len(t) : x = t[j]
      BY DEF Set!KeysOf
    <3>2. x = s[Shifted(i, j)] /\ Shifted(i, j) \in 1 .. Len(s) /\ Shifted(i, j) # i + 1
      BY <2>1, <2>3, <3>1
    <3> QED BY <2>4, <3>2 DEF Set!KeysOf
  <2>6. ASSUME NEW x \in Set!KeysOf(s), x # s[i + 1] PROVE x \in Set!KeysOf(t)
    <3>1. PICK j \in 1 .. Len(s) : x = s[j]
      BY DEF Set!KeysOf
    <3>2. j # i + 1
      BY <2>6, <3>1
    <3>3. \E l \in 1 .. Len(t) : Shifted(i, l) = j
      <4>1. CASE j <= i
        <5>1. j \in 1 .. Len(t) /\ Shifted(i, j) = j
          BY <1>0, <2>1, <2>2, <4>1 DEF Shifted
        <5> QED BY <5>1
      <4>2. CASE ~(j <= i)
        <5>1. j - 1 \in 1 .. Len(t) /\ Shifted(i, j - 1) = j
          BY <1>0, <2>1, <2>2, <3>2, <4>2 DEF Shifted
        <5> QED BY <5>1
      <4> QED BY <4>1, <4>2
    <3>4. PICK l \in 1 .. Len(t) : Shifted(i, l) = j
      BY <3>3
    <3>5. t[l] = x
      BY <2>1, <3>1, <3>4
    <3> QED BY <3>5 DEF Set!KeysOf
  <2>7. Set!KeysOf(t) = Set!KeysOf(s) \ {s[i + 1]}
    BY <2>5, <2>6
  <2> QED BY <2>7 DEF t
<1> QED BY <1>1, <1>2
-----------------------------------------------------------------------------
(* The comparisons.                                                         *)

\* Lists without repetition have as many keys as places.
LEMMA DistinctCounted ==
  ASSUME NEW X, NEW s \in Seq(X)
  PROVE  /\ Distinct(s) => Cardinality(Set!KeysOf(s)) = Len(s)
         /\ DistinctKeys(s) => Cardinality(KeysIn(s)) = Len(s)
<1>0. Len(s) \in Nat
  OBVIOUS
<1>1. ASSUME Distinct(s) PROVE Cardinality(Set!KeysOf(s)) = Len(s)
  <2> DEFINE f == [i \in 1 .. Len(s) |-> s[i]]
  <2>1. f \in [1 .. Len(s) -> Set!KeysOf(s)]
        /\ \A k \in Set!KeysOf(s) : \E i \in 1 .. Len(s) : f[i] = k
    BY DEF Set!KeysOf
  <2>2. \A i, j \in 1 .. Len(s) : f[i] = f[j] => i = j
    BY <1>1 DEF Distinct
  <2>3. ExistsBijection(1 .. Len(s), Set!KeysOf(s))
    BY <2>1, <2>2 DEF ExistsBijection, Bijection, Injection, Surjection, IsInjective
  <2> QED BY <1>0, <2>3, FS_CountingElements
<1>2. ASSUME DistinctKeys(s) PROVE Cardinality(KeysIn(s)) = Len(s)
  <2> DEFINE f == [i \in 1 .. Len(s) |-> s[i][1]]
  <2>1. f \in [1 .. Len(s) -> KeysIn(s)] /\ \A k \in KeysIn(s) : \E i \in 1 .. Len(s) : f[i] = k
    BY DEF KeysIn
  <2>2. \A i, j \in 1 .. Len(s) : f[i] = f[j] => i = j
    BY <1>2 DEF DistinctKeys
  <2> HIDE DEF f
  <2>3. ExistsBijection(1 .. Len(s), KeysIn(s))
    BY <2>1, <2>2 DEF ExistsBijection, Bijection, Injection, Surjection, IsInjective
  <2> QED BY <1>0, <2>3, FS_CountingElements
<1> QED BY <1>1, <1>2

LEMMA SetComparison ==
  ASSUME NEW a \in Seq(Keys), NEW b \in Seq(Keys), Distinct(a), Distinct(b)
  PROVE  Set!Equal(a, b) <=> Set!KeysOf(a) = Set!KeysOf(b)
<1>1. /\ Cardinality(Set!KeysOf(a)) = Len(a) /\ IsFiniteSet(Set!KeysOf(a))
      /\ Cardinality(Set!KeysOf(b)) = Len(b) /\ IsFiniteSet(Set!KeysOf(b))
  BY DistinctCounted, KeysFinite
<1>2. (\A i \in 1 .. Len(a) : \E j \in 1 .. Len(b) : b[j] = a[i])
        <=> Set!KeysOf(a) \subseteq Set!KeysOf(b)
  BY DEF Set!KeysOf
<1>3. ASSUME Set!Equal(a, b) PROVE Set!KeysOf(a) = Set!KeysOf(b)
  <2>1. Len(a) = Len(b) /\ Set!KeysOf(a) \subseteq Set!KeysOf(b)
    BY <1>2, <1>3 DEF Set!Equal
  <2> QED BY <1>1, <2>1, FS_Subset
<1>4. ASSUME Set!KeysOf(a) = Set!KeysOf(b) PROVE Set!Equal(a, b)
  <2>1. Len(a) = Len(b)
    BY <1>1, <1>4
  <2> QED BY <1>2, <1>4, <2>1 DEF Set!Equal
<1> QED BY <1>3, <1>4

LEMMA MapComparison ==
  ASSUME NEW a \in Seq(Keys \X Mapped), NEW b \in Seq(Keys \X Mapped),
         DistinctKeys(a), DistinctKeys(b)
  PROVE  Map!Equal(a, b) <=> Map!AsFunction(a) = Map!AsFunction(b)
<1> DEFINE f == Map!AsFunction(a)
           g == Map!AsFunction(b)
<1>1. /\ Cardinality(KeysIn(a)) = Len(a) /\ IsFiniteSet(KeysIn(a))
      /\ Cardinality(KeysIn(b)) = Len(b) /\ IsFiniteSet(KeysIn(b))
  BY DistinctCounted, KeysFinite
<1>2. /\ f = [k \in KeysIn(a) |-> f[k]] /\ \A i \in 1 .. Len(a) : f[a[i][1]] = a[i][2]
      /\ g = [k \in KeysIn(b) |-> g[k]] /\ \A i \in 1 .. Len(b) : g[b[i][1]] = b[i][2]
      /\ DOMAIN f = KeysIn(a) /\ DOMAIN g = KeysIn(b)
  BY FunctionOf
<1> HIDE DEF f, g
<1>3. ASSUME Map!Equal(a, b) PROVE f = g
  <2>1. Len(a) = Len(b) /\ \A i \in 1 .. Len(a) : \E j \in 1 .. Len(b) : b[j] = a[i]
    BY <1>3 DEF Map!Equal
  <2>2. KeysIn(a) \subseteq KeysIn(b)
    BY <2>1 DEF KeysIn
  <2>3. KeysIn(a) = KeysIn(b)
    BY <1>1, <2>1, <2>2, FS_Subset
  <2>4. ASSUME NEW k \in KeysIn(a) PROVE f[k] = g[k]
    <3>1. PICK i \in 1 .. Len(a) : k = a[i][1]
      BY DEF KeysIn
    <3>2. PICK j \in 1 .. Len(b) : b[j] = a[i]
      BY <2>1
    <3> QED BY <1>2, <3>1, <3>2
  <2> QED BY <1>2, <2>3, <2>4
<1>4. ASSUME f = g PROVE Map!Equal(a, b)
  <2>1. KeysIn(a) = KeysIn(b)
    BY <1>2, <1>4
  <2>2. Len(a) = Len(b)
    BY <1>1, <2>1
  <2>3. ASSUME NEW i \in 1 .. Len(a)
        PROVE  \E j \in 1 .. Len(b) : b[j] = a[i] /\ \A l \in 1 .. j - 1 : b[l][1] # a[i][1]
    <3>1. a[i][1] \in KeysIn(b)
      BY <2>1 DEF KeysIn
    <3>2. PICK j \in 1 .. Len(b) : b[j][1] = a[i][1]
      BY <3>1 DEF KeysIn
    <3>3. b[j][2] = a[i][2]
      BY <1>2, <1>4, <3>2
    <3>4. b[j] = a[i]
      <4>1. b[j] \in Keys \X Mapped /\ a[i] \in Keys \X Mapped
        OBVIOUS
      <4> QED BY <3>2, <3>3, <4>1
    <3>5. \A l \in 1 .. j - 1 : b[l][1] # a[i][1]
      <4>1. \A l \in 1 .. j - 1 : l \in 1 .. Len(b) /\ l # j
        OBVIOUS
      <4> QED BY <3>2, <4>1 DEF DistinctKeys
    <3> QED BY <3>4, <3>5
  <2> QED BY <2>2, <2>3 DEF Map!Equal
<1> QED BY <1>3, <1>4 DEF f, g

LEMMA VectorComparison ==
  ASSUME Values \subseteq Int, NEW a \in Seq(Values), NEW b \in Seq(Values)
  PROVE  /\ Vector!Equal(a, b) <=> a = b
         /\ Vector!LessEqual(a, b) /\ Vector!LessEqual(b, a) <=> a = b
         /\ Vector!Less(a, b) /\ Vector!Less(b, a) => b = <<>>
<1>0. Len(a) \in Nat /\ Len(b) \in Nat /\ DOMAIN a = 1 .. Len(a) /\ DOMAIN b = 1 .. Len(b)
  OBVIOUS
<1>1. (Len(a) = Len(b) /\ \A i \in 1 .. Len(a) : a[i] = b[i]) <=> a = b
  OBVIOUS
<1>2. \A i \in 1 .. Len(a) : a[i] \in Values /\ a[i] \in Int
  <2>1. \A i \in 1 .. Len(a) : a[i] \in Values
    OBVIOUS
  <2> QED BY <2>1, Zenon
<1>3. \A i \in 1 .. Len(b) : b[i] \in Values /\ b[i] \in Int
  <2>1. \A i \in 1 .. Len(b) : b[i] \in Values
    OBVIOUS
  <2> QED BY <2>1, Zenon
<1>4. Vector!Equal(a, b) <=> Len(a) = Len(b) /\ \A i \in 1 .. Len(a) : a[i] = b[i]
  BY <1>0, <1>2, <1>3 DEF Vector!Equal, Vector!Cmp
<1>5. Vector!LessEqual(a, b) <=> Len(a) = Len(b) /\ \A i \in 1 .. Len(a) : a[i] <= b[i]
  BY <1>0, <1>2, <1>3 DEF Vector!LessEqual, Vector!Cmp
<1>6. Vector!LessEqual(b, a) <=> Len(a) = Len(b) /\ \A i \in 1 .. Len(a) : b[i] <= a[i]
  BY <1>0, <1>2, <1>3 DEF Vector!LessEqual, Vector!Cmp
<1>7. Vector!Less(a, b) => Len(a) = Len(b) /\ \A i \in 1 .. Len(a) : a[i] < b[i]
  BY <1>0, <1>2, <1>3 DEF Vector!Less, Vector!Cmp
<1>8. Vector!Less(b, a) => Len(a) = Len(b) /\ \A i \in 1 .. Len(a) : b[i] < a[i]
  BY <1>0, <1>2, <1>3 DEF Vector!Less, Vector!Cmp
<1>9. Vector!LessEqual(a, b) /\ Vector!LessEqual(b, a) <=> a = b
  <2>1. ASSUME Len(a) = Len(b)
        PROVE  (\A i \in 1 .. Len(a) : a[i] <= b[i]) /\ (\A i \in 1 .. Len(a) : b[i] <= a[i])
                 <=> \A i \in 1 .. Len(a) : a[i] = b[i]
    BY <1>2, <1>3, <2>1
  <2> QED BY <1>1, <1>5, <1>6, <2>1
<1>10. ASSUME Vector!Less(a, b), Vector!Less(b, a) PROVE b = <<>>
  <2>1. Len(a) = Len(b) /\ \A i \in 1 .. Len(a) : a[i] < b[i] /\ b[i] < a[i]
    BY <1>7, <1>8, <1>10
  <2>2. \A i \in 1 .. Len(a) : FALSE
    BY <1>2, <1>3, <2>1
  <2>3. Len(b) = 0
    BY <1>0, <2>1, <2>2
  <2> QED BY <2>3
<1> QED BY <1>1, <1>4, <1>9, <1>10

LEMMA StringComparison ==
  ASSUME NEW X, NEW a \in Seq(X), NEW Y, NEW b \in Seq(Y)
  PROVE  String!starts_with(a, b) <=> \E n \in 0 .. Len(a) : b = SubSeq(a, 1, n)
<1>0. Len(a) \in Nat /\ Len(b) \in Nat
  OBVIOUS
<1>1. ASSUME String!starts_with(a, b) PROVE \E n \in 0 .. Len(a) : b = SubSeq(a, 1, n)
  <2>1. Len(b) \in 0 .. Len(a) /\ \A i \in 1 .. Len(b) : a[i] = b[i]
    BY <1>0, <1>1 DEF String!starts_with
  <2>2. b = SubSeq(a, 1, Len(b))
    BY <1>0, <2>1
  <2> QED BY <2>1, <2>2
<1>2. ASSUME NEW n \in 0 .. Len(a), b = SubSeq(a, 1, n) PROVE String!starts_with(a, b)
  <2>1. Len(b) = n /\ \A i \in 1 .. n : b[i] = a[i]
    BY <1>0, <1>2
  <2> QED BY <1>0, <2>1 DEF String!starts_with
<1> QED BY <1>1, <1>2

LEMMA RangesAre ==
  ASSUME NEW s \in Vector!Ranges
  PROVE  s \in Seq(Values)
<1>1. PICK n \in 0 .. Capacity : s \in [1 .. n -> Values]
  BY DEF Vector!Ranges, Vector!Places
<1>2. n \in Nat
  BY ContainersAssumption
<1> QED BY <1>1, <1>2
-----------------------------------------------------------------------------
(* The calls of a set and of a map are those of a dictionary.               *)

\* The function the container stands for.
Dict == DictOf(IF pc = "idle" THEN Vector!Elements ELSE expected)

HoldsDict ==
  /\ owner = "map" => Dict = Map!AsFunction(expected)
  /\ owner = "set" => Dict = [k \in Set!KeysOf(expected) |-> k]
  /\ owner \notin {"map", "set"} => Dict = [k \in {} |-> Default]

\* The actions of the dictionary, of that function.
PutIn(k, v) == [x \in DOMAIN Dict \union {k} |-> IF x = k THEN v ELSE Dict[x]]

LEMMA Ideal ==
  ASSUME NEW k, NEW v
  PROVE  /\ Abstract!Insert(k, v) <=>
              /\ asked' = <<"insert", k, v>> /\ answer' = (k \notin DOMAIN Dict)
              /\ \/ k \in DOMAIN Dict /\ Dict' = Dict
                 \/ /\ k \notin DOMAIN Dict /\ Cardinality(DOMAIN Dict) < OtherCapacity
                    /\ Dict' = PutIn(k, v)
         /\ Abstract!InsertOrAssign(k, v) <=>
              /\ asked' = <<"insert_or_assign", k, v>> /\ answer' = (k \notin DOMAIN Dict)
              /\ k \in DOMAIN Dict \/ Cardinality(DOMAIN Dict) < OtherCapacity
              /\ Dict' = PutIn(k, v)
         /\ Abstract!Subscript(k) <=>
              /\ asked' = <<"[]", k>>
              /\ k \in DOMAIN Dict \/ Cardinality(DOMAIN Dict) < OtherCapacity
              /\ Dict' = IF k \in DOMAIN Dict THEN Dict ELSE PutIn(k, Default)
              /\ answer' = Dict'[k]
         /\ Abstract!Write(k, v) <=>
              /\ asked' = <<"at", k, v>> /\ k \in DOMAIN Dict /\ answer' = v
              /\ Dict' = PutIn(k, v)
         /\ Abstract!Find(k) <=>
              /\ asked' = <<"find", k>> /\ Dict' = Dict
              /\ answer' = IF k \in DOMAIN Dict THEN Dict[k] ELSE "end"
         /\ Abstract!Erase(k) <=>
              /\ asked' = <<"erase", k>> /\ answer' = (IF k \in DOMAIN Dict THEN 1 ELSE 0)
              /\ Dict' = [x \in DOMAIN Dict \ {k} |-> Dict[x]]
         /\ Abstract!Clear <=> asked' = <<"clear">> /\ answer' = "none" /\ DOMAIN Dict' = {}
         /\ Abstract!Assign <=>
              /\ asked' = <<"=">> /\ answer' = "none"
              /\ DOMAIN Dict' \subseteq Keys
              /\ \A x \in DOMAIN Dict' : Dict'[x] \in Mapped \union Keys
<1>1. Abstract!Present = DOMAIN Dict
      /\ (Abstract!Room <=> Cardinality(DOMAIN Dict) < OtherCapacity)
  <2>1. Abstract!Present = DOMAIN Dict
    BY DEF Dict, Abstract!Present
  <2>2. Abstract!Room <=> Cardinality(Abstract!Present) < OtherCapacity
    <3>1. Abstract!Room <=> Abstract!Cardinality(Abstract!Present) < OtherCapacity
      BY DEF Abstract!Room
    <3>2. Abstract!Cardinality(Abstract!Present) = Cardinality(Abstract!Present)
      BY Zenon DEF Abstract!Cardinality, Cardinality
    <3> QED BY <3>1, <3>2
  <2> QED BY <2>1, <2>2
<1>2. \A x, y : Abstract!With(x, y) = PutIn(x, y)
  BY DEF Dict, PutIn, Abstract!With, Abstract!Present
<1>3. Abstract!Without(k) = [x \in DOMAIN Dict \ {k} |-> Dict[x]]
  BY DEF Dict, Abstract!Without, Abstract!Present
<1>4. Abstract!Insert(k, v) <=>
         /\ asked' = <<"insert", k, v>> /\ answer' = (k \notin DOMAIN Dict)
         /\ \/ k \in DOMAIN Dict /\ Dict' = Dict
            \/ /\ k \notin DOMAIN Dict /\ Cardinality(DOMAIN Dict) < OtherCapacity
               /\ Dict' = PutIn(k, v)
  BY <1>1, <1>2 DEF Dict, Abstract!Insert
<1>5. Abstract!InsertOrAssign(k, v) <=>
         /\ asked' = <<"insert_or_assign", k, v>> /\ answer' = (k \notin DOMAIN Dict)
         /\ k \in DOMAIN Dict \/ Cardinality(DOMAIN Dict) < OtherCapacity
         /\ Dict' = PutIn(k, v)
  BY <1>1, <1>2 DEF Dict, Abstract!InsertOrAssign
<1>6. Abstract!Subscript(k) <=>
         /\ asked' = <<"[]", k>>
         /\ k \in DOMAIN Dict \/ Cardinality(DOMAIN Dict) < OtherCapacity
         /\ Dict' = IF k \in DOMAIN Dict THEN Dict ELSE PutIn(k, Default)
         /\ answer' = Dict'[k]
  BY <1>1, <1>2 DEF Dict, Abstract!Subscript
<1>7. Abstract!Write(k, v) <=>
         /\ asked' = <<"at", k, v>> /\ k \in DOMAIN Dict /\ answer' = v
         /\ Dict' = PutIn(k, v)
  BY <1>1, <1>2 DEF Dict, Abstract!Write
<1>8. Abstract!Find(k) <=>
         /\ asked' = <<"find", k>> /\ Dict' = Dict
         /\ answer' = IF k \in DOMAIN Dict THEN Dict[k] ELSE "end"
  BY <1>1 DEF Dict, Abstract!Find
<1>9. Abstract!Erase(k) <=>
         /\ asked' = <<"erase", k>> /\ answer' = (IF k \in DOMAIN Dict THEN 1 ELSE 0)
         /\ Dict' = [x \in DOMAIN Dict \ {k} |-> Dict[x]]
  BY <1>1, <1>3 DEF Dict, Abstract!Erase
<1>10. Abstract!Clear <=> asked' = <<"clear">> /\ answer' = "none" /\ DOMAIN Dict' = {}
  BY DEF Dict, Abstract!Clear
<1>11. Abstract!Assign <=>
         /\ asked' = <<"=">> /\ answer' = "none"
         /\ DOMAIN Dict' \subseteq Keys
         /\ \A x \in DOMAIN Dict' : Dict'[x] \in Mapped \union Keys
  BY DEF Dict, Abstract!Assign, Abstract!IsDictionary
<1> QED BY <1>4, <1>5, <1>6, <1>7, <1>8, <1>9, <1>10, <1>11

\* What a call of a set, or a round of its loops, does to the keys it is to hold, and
\* what it answers.
SetCall ==
  LET held == Set!KeysOf(expected)
  IN  \/ UNCHANGED <<expected, asked, answer>>
      \/ \E k \in Keys :
           /\ expected' = expected
           /\ Set!Answer(<<"find", k>>, IF k \in held THEN k ELSE "end")
      \/ \E k \in Keys :
           /\ \/ k \in held /\ expected' = expected
              \/ k \notin held /\ Len(expected) < OtherCapacity /\ expected' = Append(expected, k)
           /\ Set!Answer(<<"insert", k, k>>, k \notin held)
      \/ \E k \in Keys : k \notin held /\ expected' = expected /\ Set!Answer(<<"erase", k>>, 0)
      \/ \E i \in 0 .. Len(expected) - 1 :
           /\ expected' = SubSeq(expected, 1, i) \o SubSeq(expected, i + 2, Len(expected))
           /\ Set!Answer(<<"erase", expected[i + 1]>>, 1)
      \/ expected' = <<>> /\ Set!Answer(<<"clear">>, "none")
      \/ \E s \in Set!Sets : expected' = s /\ Set!Answer(<<"=">>, "none")

LEMMA SetKeepsDistinct ==
  ASSUME expected \in Seq(Keys), Distinct(expected), SetCall
  PROVE  Distinct(expected')
<1>1. ASSUME NEW k \in Keys, k \notin Set!KeysOf(expected), expected' = Append(expected, k)
      PROVE  Distinct(expected')
  <2>1. \A i \in 1 .. Len(expected) : expected[i] # k
    BY <1>1 DEF Set!KeysOf
  <2>2. Distinct(Append(expected, k))
    BY <2>1, DistinctAfter
  <2> QED BY <1>1, <2>2
<1>2. ASSUME NEW i \in 0 .. Len(expected) - 1,
             expected' = SubSeq(expected, 1, i) \o SubSeq(expected, i + 2, Len(expected))
      PROVE  Distinct(expected')
  <2>1. Distinct(OutOf(expected, i))
    BY DistinctOut
  <2> QED BY <1>2, <2>1 DEF OutOf
<1>3. CASE expected' = expected
  BY <1>3 DEF Distinct
<1>4. CASE expected' = <<>>
  BY <1>4 DEF Distinct
<1>5. ASSUME NEW s \in Set!Sets, expected' = s PROVE Distinct(expected')
  <2>1. Distinct(s)
    BY SetsAre
  <2> QED BY <1>5, <2>1
<1> QED BY <1>1, <1>2, <1>3, <1>4, <1>5 DEF SetCall

\* A call of a set is a call of the dictionary.
LEMMA SetIsDictionary ==
  ASSUME owner = "set", owner' = "set", expected \in Seq(Keys), Distinct(expected),
         HoldsDict, HoldsDict', SetCall
  PROVE  [Abstract!Next]_<<Dict, asked, answer>>
<1> DEFINE held == Set!KeysOf(expected)
<1>1. Dict = [x \in held |-> x] /\ Dict' = [x \in Set!KeysOf(expected') |-> x]
  BY DEF HoldsDict
<1>2. expected \in Seq(Keys) /\ Len(expected) \in Nat
  OBVIOUS
<1>3. DOMAIN Dict = held /\ \A x \in held : Dict[x] = x
  BY <1>1
<1>4. held \subseteq Keys
  BY <1>2 DEF Set!KeysOf
<1>5. \A k \in Keys : PutIn(k, k) = [x \in held \union {k} |-> x]
  BY <1>3 DEF PutIn
<1>6. expected' = expected => Dict' = Dict
  BY <1>1
<1>7. Keys \subseteq Mapped \union Keys
  OBVIOUS
<1>8. Cardinality(held) <= Len(expected) /\ Cardinality(held) \in Nat /\ OtherCapacity \in Nat
  BY <1>2, KeysCounted, KeysFinite, ContainersAssumption
<1> HIDE DEF held
<1>9. CASE UNCHANGED <<expected, asked, answer>>
  BY <1>6, <1>9
<1>10. ASSUME NEW k \in Keys, expected' = expected,
              Set!Answer(<<"find", k>>, IF k \in held THEN k ELSE "end")
       PROVE  Abstract!Next
  <2>1. Abstract!Find(k)
    BY <1>3, <1>6, <1>10, Ideal DEF Set!Answer
  <2> QED BY <2>1 DEF Abstract!Next
<1>11. ASSUME NEW k \in Keys, k \in held, expected' = expected,
              Set!Answer(<<"insert", k, k>>, k \notin held)
       PROVE  Abstract!Next
  <2>1. Abstract!Insert(k, k)
    BY <1>3, <1>6, <1>11, Ideal DEF Set!Answer
  <2> QED BY <1>7, <2>1 DEF Abstract!Next
<1>12. ASSUME NEW k \in Keys, k \notin held, Len(expected) < OtherCapacity,
              expected' = Append(expected, k), Set!Answer(<<"insert", k, k>>, k \notin held)
       PROVE  Abstract!Next
  <2>1. Dict' = PutIn(k, k)
    <3>1. Set!KeysOf(Append(expected, k)) = held \union {k}
      BY <1>2, KeysAfter DEF held
    <3>2. Dict' = [x \in held \union {k} |-> x]
      BY <1>1, <1>12, <3>1
    <3> QED BY <1>5, <3>2
  <2>2. Cardinality(DOMAIN Dict) < OtherCapacity
    BY <1>2, <1>3, <1>8, <1>12
  <2>3. Abstract!Insert(k, k)
    BY <1>3, <1>12, <2>1, <2>2, Ideal DEF Set!Answer
  <2> QED BY <1>7, <2>3 DEF Abstract!Next
<1>13. ASSUME NEW k \in Keys, k \notin held, expected' = expected, Set!Answer(<<"erase", k>>, 0)
       PROVE  Abstract!Next
  <2>1. Dict = [x \in DOMAIN Dict \ {k} |-> Dict[x]]
    BY <1>1, <1>13
  <2>2. Abstract!Erase(k)
    BY <1>3, <1>6, <1>13, <2>1, Ideal DEF Set!Answer
  <2> QED BY <2>2 DEF Abstract!Next
<1>14. ASSUME NEW i \in 0 .. Len(expected) - 1,
              expected' = SubSeq(expected, 1, i) \o SubSeq(expected, i + 2, Len(expected)),
              Set!Answer(<<"erase", expected[i + 1]>>, 1)
       PROVE  Abstract!Next
  <2>1. PICK k \in Keys : k = expected[i + 1] /\ k \in held
    <3>1. i + 1 \in 1 .. Len(expected)
      BY <1>2
    <3> QED BY <1>2, <3>1 DEF held, Set!KeysOf
  <2>2. Set!KeysOf(OutOf(expected, i)) = held \ {k}
    BY <1>2, <2>1, KeysAfter DEF held
  <2>3. Dict' = [x \in held \ {k} |-> x]
    BY <1>1, <1>14, <2>2 DEF OutOf
  <2>4. Dict' = [x \in DOMAIN Dict \ {k} |-> Dict[x]]
    BY <1>3, <2>3
  <2>5. Abstract!Erase(k)
    BY <1>3, <1>14, <2>1, <2>4, Ideal DEF Set!Answer
  <2> QED BY <2>5 DEF Abstract!Next
<1>15. CASE expected' = <<>> /\ Set!Answer(<<"clear">>, "none")
  <2>1. DOMAIN Dict' = {}
    BY <1>1, <1>15 DEF Set!KeysOf
  <2>2. Abstract!Clear
    BY <1>15, <2>1, Ideal DEF Set!Answer
  <2> QED BY <2>2 DEF Abstract!Next
<1>16. ASSUME NEW s \in Set!Sets, expected' = s, Set!Answer(<<"=">>, "none")
       PROVE  Abstract!Next
  <2>1. s \in Seq(Keys)
    BY SetsAre
  <2>2. Set!KeysOf(s) \subseteq Keys
    BY <2>1 DEF Set!KeysOf
  <2>3. DOMAIN Dict' \subseteq Keys /\ \A x \in DOMAIN Dict' : Dict'[x] \in Mapped \union Keys
    BY <1>1, <1>16, <2>2
  <2>4. Abstract!Assign
    BY <1>16, <2>3, Ideal DEF Set!Answer
  <2> QED BY <2>4 DEF Abstract!Next
<1> QED BY <1>9, <1>10, <1>11, <1>12, <1>13, <1>14, <1>15, <1>16 DEF SetCall, held

\* What a call of a map, or a round of its loops, does to the pairs it is to hold, and
\* what it answers: without the key, with the pair at i, and whatever there is.
MapMissed ==
  \E k \in Keys :
    /\ k \notin KeysIn(expected)
    /\ \/ expected' = expected /\ Map!Answer(<<"find", k>>, "end")
       \/ expected' = expected /\ Map!Answer(<<"erase", k>>, 0)
       \/ \E v \in Mapped :
            /\ Len(expected) < OtherCapacity /\ expected' = Append(expected, <<k, v>>)
            /\ \/ Map!Answer(<<"insert", k, v>>, TRUE)
               \/ Map!Answer(<<"insert_or_assign", k, v>>, TRUE)
               \/ v = Default /\ Map!Answer(<<"[]", k>>, v)

MapMet(i) ==
  LET k == expected[i + 1][1]
  IN  \/ expected' = expected /\ Map!Answer(<<"find", k>>, expected[i + 1][2])
      \/ expected' = expected /\ Map!Answer(<<"[]", k>>, expected[i + 1][2])
      \/ \E v \in Mapped : expected' = expected /\ Map!Answer(<<"insert", k, v>>, FALSE)
      \/ \E v \in Mapped :
           /\ expected' = [expected EXCEPT ![i + 1][2] = v]
           /\ Map!Answer(<<"at", k, v>>, v) \/ Map!Answer(<<"insert_or_assign", k, v>>, FALSE)
      \/ /\ expected' = SubSeq(expected, 1, i) \o SubSeq(expected, i + 2, Len(expected))
         /\ Map!Answer(<<"erase", k>>, 1)

MapCall ==
  \/ UNCHANGED <<expected, asked, answer>>
  \/ MapMissed
  \/ \E i \in 0 .. Len(expected) - 1 : MapMet(i)
  \/ expected' = <<>> /\ Map!Answer(<<"clear">>, "none")
  \/ \E m \in Map!Maps : expected' = m /\ Map!Answer(<<"=">>, "none")

LEMMA MapKeepsDistinct ==
  ASSUME expected \in Seq(Keys \X Mapped), DistinctKeys(expected), MapCall
  PROVE  DistinctKeys(expected')
<1>1. ASSUME NEW k \in Keys, NEW v \in Mapped, k \notin KeysIn(expected),
             expected' = Append(expected, <<k, v>>)
      PROVE  DistinctKeys(expected')
  <2>1. \A i \in 1 .. Len(expected) : expected[i][1] # <<k, v>>[1]
    BY <1>1 DEF KeysIn
  <2>2. <<k, v>> \in Keys \X Mapped
    OBVIOUS
  <2>3. DistinctKeys(Append(expected, <<k, v>>))
    BY <2>1, <2>2, DistinctAfter
  <2> QED BY <1>1, <2>3
<1>2. ASSUME NEW i \in 0 .. Len(expected) - 1,
             expected' = SubSeq(expected, 1, i) \o SubSeq(expected, i + 2, Len(expected))
      PROVE  DistinctKeys(expected')
  <2>1. DistinctKeys(OutOf(expected, i))
    BY DistinctOut
  <2> QED BY <1>2, <2>1 DEF OutOf
<1>3. CASE expected' = expected
  BY <1>3 DEF DistinctKeys
<1>4. CASE expected' = <<>>
  BY <1>4 DEF DistinctKeys
<1>5. ASSUME NEW m \in Map!Maps, expected' = m PROVE DistinctKeys(expected')
  <2>1. DistinctKeys(m)
    BY MapsAre
  <2> QED BY <1>5, <2>1
<1>6. ASSUME NEW i \in 0 .. Len(expected) - 1, NEW v \in Mapped,
             expected' = [expected EXCEPT ![i + 1][2] = v]
      PROVE  DistinctKeys(expected')
  <2>1. Written(expected, expected', i + 1, v)
    BY <1>6, SecondsWritten
  <2> QED BY <2>1 DEF DistinctKeys, Written
<1>7. CASE MapMissed
  BY <1>1, <1>3, <1>7 DEF MapMissed
<1>8. ASSUME NEW i \in 0 .. Len(expected) - 1, MapMet(i) PROVE DistinctKeys(expected')
  BY <1>2, <1>3, <1>6, <1>8 DEF MapMet
<1> QED BY <1>3, <1>4, <1>5, <1>7, <1>8 DEF MapCall

\* A call of a map is a call of the dictionary.
LEMMA MapIsDictionary ==
  ASSUME owner = "map", owner' = "map", expected \in Seq(Keys \X Mapped), DistinctKeys(expected),
         HoldsDict, HoldsDict', MapCall
  PROVE  [Abstract!Next]_<<Dict, asked, answer>>
<1> DEFINE f == Map!AsFunction(expected)
<1>1. Dict = f /\ Dict' = Map!AsFunction(expected')
  BY DEF HoldsDict
<1>2. expected \in Seq(Keys \X Mapped) /\ Len(expected) \in Nat
  OBVIOUS
<1>3. DOMAIN f = KeysIn(expected) /\ f = [k \in KeysIn(expected) |-> f[k]]
  BY <1>2, FunctionOf
<1>4. \A i \in 1 .. Len(expected) : expected[i] \in Keys \X Mapped
        /\ expected[i][1] \in DOMAIN f /\ f[expected[i][1]] = expected[i][2]
  <2>1. \A i \in 1 .. Len(expected) : f[expected[i][1]] = expected[i][2]
    BY <1>2, FunctionOf, Zenon DEF f
  <2>2. \A i \in 1 .. Len(expected) : expected[i][1] \in KeysIn(expected)
    BY DEF KeysIn
  <2>3. \A i \in 1 .. Len(expected) : expected[i] \in Keys \X Mapped
    BY <1>2
  <2> HIDE DEF f
  <2> QED BY <1>3, <2>1, <2>2, <2>3
<1> HIDE DEF f
<1>5. DOMAIN Dict = DOMAIN f
  BY <1>1
<1>6. CASE UNCHANGED <<expected, asked, answer>>
  <2>1. Dict' = Dict
    BY <1>1, <1>6 DEF f
  <2> QED BY <1>6, <2>1
<1>7. CASE MapMissed
  <2>1. PICK k \in Keys :
          /\ k \notin KeysIn(expected)
          /\ \/ expected' = expected /\ Map!Answer(<<"find", k>>, "end")
             \/ expected' = expected /\ Map!Answer(<<"erase", k>>, 0)
             \/ \E v \in Mapped :
                  /\ Len(expected) < OtherCapacity /\ expected' = Append(expected, <<k, v>>)
                  /\ \/ Map!Answer(<<"insert", k, v>>, TRUE)
                     \/ Map!Answer(<<"insert_or_assign", k, v>>, TRUE)
                     \/ v = Default /\ Map!Answer(<<"[]", k>>, v)
    BY <1>7 DEF MapMissed
  <2>2. k \notin DOMAIN Dict
    BY <1>3, <1>5, <2>1
  <2>3. CASE expected' = expected /\ Map!Answer(<<"find", k>>, "end")
    <3>1. Dict' = Dict
      BY <1>1, <2>3 DEF f
    <3>2. Abstract!Find(k)
      BY <2>2, <2>3, <3>1, Ideal DEF Map!Answer
    <3> QED BY <3>2 DEF Abstract!Next
  <2>4. CASE expected' = expected /\ Map!Answer(<<"erase", k>>, 0)
    <3>1. Dict' = Dict
      BY <1>1, <2>4 DEF f
    <3>2. Dict = [x \in DOMAIN Dict \ {k} |-> Dict[x]]
      BY <1>1, <1>3, <2>2
    <3>3. Dict' = [x \in DOMAIN Dict \ {k} |-> Dict[x]]
      BY <3>1, <3>2, Zenon
    <3>4. Abstract!Erase(k)
      BY <2>2, <2>4, <3>3, Ideal DEF Map!Answer
    <3> QED BY <3>4 DEF Abstract!Next
  <2>5. ASSUME NEW v \in Mapped, Len(expected) < OtherCapacity,
               expected' = Append(expected, <<k, v>>),
               \/ Map!Answer(<<"insert", k, v>>, TRUE)
               \/ Map!Answer(<<"insert_or_assign", k, v>>, TRUE)
               \/ v = Default /\ Map!Answer(<<"[]", k>>, v)
        PROVE  Abstract!Next
    <3>1. Dict' = PutIn(k, v)
      <4>0. Map!AsFunction(Append(expected, <<k, v>>))
              = [x \in KeysIn(expected) \union {k} |-> IF x = k THEN v ELSE f[x]]
        BY <1>2, <2>1, FunctionOfAppend DEF f
      <4>1. Dict' = [x \in KeysIn(expected) \union {k} |-> IF x = k THEN v ELSE f[x]]
        BY <1>1, <2>5, <4>0, Zenon
      <4> QED BY <1>1, <1>3, <4>1 DEF PutIn
    <3>2. Cardinality(DOMAIN Dict) < OtherCapacity
      <4>1. Cardinality(KeysIn(expected)) <= Len(expected)
        BY <1>2, KeysCounted
      <4>2. IsFiniteSet(KeysIn(expected)) /\ Cardinality(KeysIn(expected)) \in Nat
        BY <1>2, KeysFinite
      <4>3. OtherCapacity \in Nat
        BY ContainersAssumption
      <4> QED BY <1>2, <1>3, <1>5, <2>5, <4>1, <4>2, <4>3
    <3>3. (k \notin DOMAIN Dict) = TRUE /\ Dict'[k] = v
      BY <2>2, <3>1 DEF PutIn
    <3>4. CASE Map!Answer(<<"insert", k, v>>, TRUE)
      <4>1. Abstract!Insert(k, v)
        BY <2>2, <3>1, <3>2, <3>3, <3>4, Ideal DEF Map!Answer
      <4> QED BY <4>1 DEF Abstract!Next
    <3>5. CASE Map!Answer(<<"insert_or_assign", k, v>>, TRUE)
      <4>1. Abstract!InsertOrAssign(k, v)
        BY <2>2, <3>1, <3>2, <3>3, <3>5, Ideal DEF Map!Answer
      <4> QED BY <4>1 DEF Abstract!Next
    <3>6. CASE v = Default /\ Map!Answer(<<"[]", k>>, v)
      <4>1. Abstract!Subscript(k)
        BY <2>2, <3>1, <3>2, <3>3, <3>6, Ideal DEF Map!Answer
      <4> QED BY <4>1 DEF Abstract!Next
    <3> QED BY <2>5, <3>4, <3>5, <3>6
  <2> QED BY <2>1, <2>3, <2>4, <2>5
<1>8. ASSUME NEW i \in 0 .. Len(expected) - 1, MapMet(i) PROVE Abstract!Next
  <2> DEFINE k == expected[i + 1][1]
             w == expected[i + 1][2]
  <2>1. i + 1 \in 1 .. Len(expected)
    BY <1>2
  <2>2. k \in Keys /\ k \in DOMAIN Dict /\ Dict[k] = w /\ k \in KeysIn(expected)
    BY <1>1, <1>3, <1>4, <1>5, <2>1
  <2> DEFINE Calls ==
         \/ expected' = expected /\ Map!Answer(<<"find", k>>, w)
         \/ expected' = expected /\ Map!Answer(<<"[]", k>>, w)
         \/ \E v \in Mapped : expected' = expected /\ Map!Answer(<<"insert", k, v>>, FALSE)
         \/ \E v \in Mapped :
              /\ expected' = [expected EXCEPT ![i + 1][2] = v]
              /\ Map!Answer(<<"at", k, v>>, v) \/ Map!Answer(<<"insert_or_assign", k, v>>, FALSE)
         \/ /\ expected' = SubSeq(expected, 1, i) \o SubSeq(expected, i + 2, Len(expected))
            /\ Map!Answer(<<"erase", k>>, 1)
  <2>3. Calls
    BY <1>8 DEF MapMet
  <2>4. expected' = expected => Dict' = Dict
    BY <1>1 DEF f
  <2>5. ASSUME NEW v \in Mapped, expected' = [expected EXCEPT ![i + 1][2] = v]
        PROVE  Dict' = PutIn(k, v)
    <3>1. Map!AsFunction([expected EXCEPT ![i + 1][2] = v])
            = [x \in KeysIn(expected) |-> IF x = k THEN v ELSE f[x]]
      BY <1>2, FunctionOfWritten, Zenon DEF f
    <3> HIDE DEF k
    <3>2. Dict' = [x \in KeysIn(expected) |-> IF x = k THEN v ELSE f[x]]
      BY <1>1, <2>5, <3>1, Zenon
    <3>3. KeysIn(expected) = DOMAIN Dict \union {k}
      BY <1>3, <1>5, <2>2
    <3> QED BY <1>1, <3>2, <3>3 DEF PutIn
  <2>6. ASSUME expected' = SubSeq(expected, 1, i) \o SubSeq(expected, i + 2, Len(expected))
        PROVE  Dict' = [x \in DOMAIN Dict \ {k} |-> Dict[x]]
    <3>1. Map!AsFunction(SubSeq(expected, 1, i) \o SubSeq(expected, i + 2, Len(expected)))
            = [x \in KeysIn(expected) \ {k} |-> f[x]]
      BY <1>2, FunctionOfErased, Zenon DEF f
    <3> HIDE DEF k
    <3>2. Dict' = [x \in KeysIn(expected) \ {k} |-> f[x]]
      BY <1>1, <2>6, <3>1, Zenon
    <3> QED BY <1>1, <1>3, <3>2
  <2> HIDE DEF k, w
  <2>7. CASE expected' = expected /\ Map!Answer(<<"find", k>>, w)
    <3>1. Abstract!Find(k)
      BY <2>2, <2>4, <2>7, Ideal DEF Map!Answer
    <3> QED BY <2>2, <3>1 DEF Abstract!Next
  <2>8. CASE expected' = expected /\ Map!Answer(<<"[]", k>>, w)
    <3>1. Abstract!Subscript(k)
      BY <2>2, <2>4, <2>8, Ideal DEF Map!Answer
    <3> QED BY <2>2, <3>1 DEF Abstract!Next
  <2>9. ASSUME NEW v \in Mapped, expected' = expected, Map!Answer(<<"insert", k, v>>, FALSE)
        PROVE  Abstract!Next
    <3>1. (k \notin DOMAIN Dict) = FALSE
      BY <2>2
    <3>2. Abstract!Insert(k, v)
      BY <2>2, <2>4, <2>9, <3>1, Ideal DEF Map!Answer
    <3> QED BY <2>2, <3>2 DEF Abstract!Next
  <2>10. ASSUME NEW v \in Mapped, expected' = [expected EXCEPT ![i + 1][2] = v],
                Map!Answer(<<"at", k, v>>, v) \/ Map!Answer(<<"insert_or_assign", k, v>>, FALSE)
         PROVE  Abstract!Next
    <3>1. (k \notin DOMAIN Dict) = FALSE /\ Dict' = PutIn(k, v)
      BY <2>2, <2>5, <2>10
    <3>2. CASE Map!Answer(<<"at", k, v>>, v)
      <4>1. Abstract!Write(k, v)
        BY <2>2, <3>1, <3>2, Ideal DEF Map!Answer
      <4> QED BY <2>2, <4>1 DEF Abstract!Next
    <3>3. CASE Map!Answer(<<"insert_or_assign", k, v>>, FALSE)
      <4>1. Abstract!InsertOrAssign(k, v)
        BY <2>2, <3>1, <3>3, Ideal DEF Map!Answer
      <4> QED BY <2>2, <4>1 DEF Abstract!Next
    <3> QED BY <2>10, <3>2, <3>3
  <2>11. CASE /\ expected' = SubSeq(expected, 1, i) \o SubSeq(expected, i + 2, Len(expected))
              /\ Map!Answer(<<"erase", k>>, 1)
    <3>1. Abstract!Erase(k)
      BY <2>2, <2>6, <2>11, Ideal DEF Map!Answer
    <3> QED BY <2>2, <3>1 DEF Abstract!Next
  <2> QED BY <2>3, <2>7, <2>8, <2>9, <2>10, <2>11
<1>9. CASE expected' = <<>> /\ Map!Answer(<<"clear">>, "none")
  <2>1. <<>> \in Seq(Keys \X Mapped) /\ KeysIn(<<>>) = {} /\ DistinctKeys(<<>>)
    BY DEF KeysIn, DistinctKeys
  <2>2. DOMAIN Map!AsFunction(<<>>) = {}
    BY <2>1, FunctionOf
  <2>3. DOMAIN Dict' = {}
    BY <1>1, <1>9, <2>2
  <2>4. Abstract!Clear
    BY <1>9, <2>3, Ideal DEF Map!Answer
  <2> QED BY <2>4 DEF Abstract!Next
<1>10. ASSUME NEW m \in Map!Maps, expected' = m, Map!Answer(<<"=">>, "none")
       PROVE  Abstract!Next
  <2>1. Dict' = Map!AsFunction(m)
    BY <1>1, <1>10
  <2>2. DOMAIN Map!AsFunction(m) \subseteq Keys
        /\ \A x \in DOMAIN Map!AsFunction(m) : Map!AsFunction(m)[x] \in Mapped \union Keys
    BY FunctionOfMap
  <2>3. Abstract!Assign
    BY <1>10, <2>1, <2>2, Ideal DEF Map!Answer
  <2> QED BY <2>3 DEF Abstract!Next
<1> QED BY <1>6, <1>7, <1>8, <1>9, <1>10 DEF MapCall
-----------------------------------------------------------------------------
(* A vector and a string: what StaticVectorProofs proves holds of theirs.   *)

PV == INSTANCE StaticVectorProofs WITH Trivial <- TRUE
PO == INSTANCE StaticVectorProofs WITH Capacity <- OtherCapacity, Trivial <- FALSE
PT == INSTANCE StaticVectorProofs WITH
        Capacity <- OtherCapacity, Trivial <- TRUE, EmptyInside <- FALSE

LEMMA SameVector ==
  /\ Vector!Init <=> PV!Init
  /\ Vector!Next <=> PV!Next
  /\ Vector!vars = PV!vars
  /\ Vector!Elements = PV!Elements
  BY SMT DEF Vector!rotation, PV!rotation, Vector!moving, PV!moving, Vector!call,
    PV!call, Vector!vars, PV!vars, Vector!Slots, PV!Slots, Vector!Places, PV!Places,
    Vector!Storage, PV!Storage, Vector!Ranges, PV!Ranges, Vector!Elements,
    PV!Elements, Vector!Before, PV!Before, Vector!Behind, PV!Behind, Vector!InRange,
    PV!InRange, Vector!PairInRange, PV!PairInRange, Vector!Given, PV!Given,
    Vector!Own, PV!Own, Vector!Source, PV!Source, Vector!Fetch, PV!Fetch,
    Vector!Fetched, PV!Fetched, Vector!GivenAll, PV!GivenAll, Vector!OwnRange,
    PV!OwnRange, Vector!Copies, PV!Copies, Vector!Destroyed, PV!Destroyed,
    Vector!Fresh, PV!Fresh, Vector!ConstructList, PV!ConstructList, Vector!Construct,
    PV!Construct, Vector!Init, PV!Init, Vector!Simple, PV!Simple, Vector!Enter,
    PV!Enter, Vector!Return, PV!Return, Vector!PushBack, PV!PushBack, Vector!PopBack,
    PV!PopBack, Vector!Clear, PV!Clear, Vector!Insert, PV!Insert, Vector!Assign,
    PV!Assign, Vector!Copy, PV!Copy, Vector!Erase, PV!Erase, Vector!Resize, PV!Resize,
    Vector!AppendNext, PV!AppendNext, Vector!BeginRotate, PV!BeginRotate,
    Vector!Swapped, PV!Swapped, Vector!NextAfter, PV!NextAfter, Vector!MiddleAfter,
    PV!MiddleAfter, Vector!Rotate, PV!Rotate, Vector!MoveDown, PV!MoveDown,
    Vector!NewSize, PV!NewSize, Vector!Vacated, PV!Vacated, Vector!EndMove,
    PV!EndMove, Vector!Loop, PV!Loop, Vector!OwnOnes, PV!OwnOnes, Vector!Sources,
    PV!Sources, Vector!Next, PV!Next

LEMMA SameObjects ==
  /\ Objects!Init <=> PO!Init
  /\ Objects!Next <=> PO!Next
  /\ Objects!vars = PO!vars
  /\ Objects!Elements = PO!Elements
  BY SMT DEF Objects!rotation, PO!rotation, Objects!moving, PO!moving, Objects!call,
    PO!call, Objects!vars, PO!vars, Objects!Slots, PO!Slots, Objects!Places,
    PO!Places, Objects!Storage, PO!Storage, Objects!Ranges, PO!Ranges,
    Objects!Elements, PO!Elements, Objects!Before, PO!Before, Objects!Behind,
    PO!Behind, Objects!InRange, PO!InRange, Objects!PairInRange, PO!PairInRange,
    Objects!Given, PO!Given, Objects!Own, PO!Own, Objects!Source, PO!Source,
    Objects!Fetch, PO!Fetch, Objects!Fetched, PO!Fetched, Objects!GivenAll,
    PO!GivenAll, Objects!OwnRange, PO!OwnRange, Objects!Copies, PO!Copies,
    Objects!Destroyed, PO!Destroyed, Objects!Fresh, PO!Fresh, Objects!ConstructList,
    PO!ConstructList, Objects!Construct, PO!Construct, Objects!Init, PO!Init,
    Objects!Simple, PO!Simple, Objects!Enter, PO!Enter, Objects!Return, PO!Return,
    Objects!PushBack, PO!PushBack, Objects!PopBack, PO!PopBack, Objects!Clear,
    PO!Clear, Objects!Insert, PO!Insert, Objects!Assign, PO!Assign, Objects!Copy,
    PO!Copy, Objects!Erase, PO!Erase, Objects!Resize, PO!Resize, Objects!AppendNext,
    PO!AppendNext, Objects!BeginRotate, PO!BeginRotate, Objects!Swapped, PO!Swapped,
    Objects!NextAfter, PO!NextAfter, Objects!MiddleAfter, PO!MiddleAfter,
    Objects!Rotate, PO!Rotate, Objects!MoveDown, PO!MoveDown, Objects!NewSize,
    PO!NewSize, Objects!Vacated, PO!Vacated, Objects!EndMove, PO!EndMove,
    Objects!Loop, PO!Loop, Objects!OwnOnes, PO!OwnOnes, Objects!Sources, PO!Sources,
    Objects!Next, PO!Next

LEMMA SameString ==
  /\ String!V!Init <=> PT!Init
  /\ \A x : String!V!PushBack(x) <=> PT!PushBack(x)
  /\ String!V!Clear <=> PT!Clear
  /\ \A p, src : String!V!Insert(p, src) <=> PT!Insert(p, src)
  /\ \A src : String!V!Assign(src) <=> PT!Assign(src)
  /\ \A i, j : String!V!Erase(i, j) <=> PT!Erase(i, j)
  /\ \A d, n : String!V!Copy(d, n) <=> PT!Copy(d, n)
  /\ \A s : String!V!Simple(s) <=> PT!Simple(s)
  /\ String!V!Loop <=> PT!Loop
  /\ String!V!Elements = PT!Elements /\ String!V!Ranges = PT!Ranges
  /\ \A s : String!V!GivenAll(s) = PT!GivenAll(s) /\ String!V!Fetched(s) = PT!Fetched(s)
  /\ \A i, j : String!V!OwnRange(i, j) = PT!OwnRange(i, j)
  /\ \A n, x : String!V!Copies(n, x) = PT!Copies(n, x) /\ String!V!Given(x) = PT!Given(x)
  BY SMT DEF String!V!rotation, PT!rotation, String!V!moving, PT!moving,
    String!V!call, PT!call, String!V!Slots, PT!Slots, String!V!Places, PT!Places,
    String!V!Storage, PT!Storage, String!V!Ranges, PT!Ranges, String!V!Elements,
    PT!Elements, String!V!Before, PT!Before, String!V!Behind, PT!Behind,
    String!V!InRange, PT!InRange, String!V!PairInRange, PT!PairInRange,
    String!V!Given, PT!Given, String!V!Own, PT!Own, String!V!Source, PT!Source,
    String!V!Fetch, PT!Fetch, String!V!Fetched, PT!Fetched, String!V!GivenAll,
    PT!GivenAll, String!V!OwnRange, PT!OwnRange, String!V!Copies, PT!Copies,
    String!V!Destroyed, PT!Destroyed, String!V!Fresh, PT!Fresh,
    String!V!ConstructList, PT!ConstructList, String!V!Construct, PT!Construct,
    String!V!Init, PT!Init, String!V!Simple, PT!Simple, String!V!Enter, PT!Enter,
    String!V!Return, PT!Return, String!V!PushBack, PT!PushBack, String!V!Clear,
    PT!Clear, String!V!Insert, PT!Insert, String!V!Assign, PT!Assign, String!V!Copy,
    PT!Copy, String!V!Erase, PT!Erase, String!V!AppendNext, PT!AppendNext,
    String!V!BeginRotate, PT!BeginRotate, String!V!Swapped, PT!Swapped,
    String!V!NextAfter, PT!NextAfter, String!V!MiddleAfter, PT!MiddleAfter,
    String!V!Rotate, PT!Rotate, String!V!MoveDown, PT!MoveDown, String!V!NewSize,
    PT!NewSize, String!V!Vacated, PT!Vacated, String!V!EndMove, PT!EndMove,
    String!V!Loop, PT!Loop

LEMMA Vectors ==
  /\ ~EmptyInside => PV!StaticVectorAssumption /\ PO!StaticVectorAssumption
  /\ PT!StaticVectorAssumption
  BY ContainersAssumption
     DEF PV!StaticVectorAssumption, PO!StaticVectorAssumption, PT!StaticVectorAssumption

LEMMA VectorStep ==
  ASSUME ~EmptyInside, PV!Sound, Vector!Next PROVE PV!Sound'
<1>1. [PV!Next]_(PV!vars)
  BY SameVector
<1> QED BY <1>1, Vectors, PV!NextIsSound

LEMMA ObjectsStep ==
  ASSUME ~EmptyInside, PO!Sound, Objects!Next PROVE PO!Sound'
<1>1. [PO!Next]_(PO!vars)
  BY SameObjects
<1> QED BY <1>1, Vectors, PO!NextIsSound

\* Each operation of a string is one of its vector.
LEMMA StringStep ==
  ASSUME PT!Sound, String!Next PROVE PT!Sound'
<1>0. /\ size \in 0 .. OtherCapacity /\ OtherCapacity \in Nat /\ PT!Places = 0 .. OtherCapacity
      /\ Zero \in Values
  BY ContainersAssumption DEF PT!Sound, PT!TypeOK, PT!Places
<1>1. ASSUME NEW c \in Values, String!V!PushBack(c) PROVE PT!Next
  BY <1>1, SameString DEF PT!Next
<1>2. ASSUME String!V!Clear PROVE PT!Next
  BY <1>2, SameString DEF PT!Next
<1>3. ASSUME NEW view \in String!Views, String!assign(view) PROVE PT!Next
  <2>1. PT!Assign(view)
    BY <1>3, SameString DEF String!assign
  <2>2. view \in PT!Sources
    BY SameString DEF String!Views, PT!Sources, PT!OwnOnes
  <2> QED BY <2>1, <2>2 DEF PT!Next
<1>4. ASSUME NEW view \in String!Views, String!Plus(view) PROVE PT!Next
  <2> DEFINE s == PT!Elements \o PT!Fetched(view)
  <2>1. PT!Assign(PT!GivenAll(s)) /\ size + Len(view) <= OtherCapacity
    BY <1>4, SameString DEF String!Plus, String!assign
  <2>2. view \in PT!Sources
    BY SameString DEF String!Views, PT!Sources, PT!OwnOnes
  <2>3. PT!GoodSource(view)
    BY <2>2, Vectors, PT!SourcesAreGood
  <2>4. s \in Seq(Values) /\ Len(s) = size + Len(view)
    <3>1. PT!Elements \in Seq(Values) /\ Len(PT!Elements) = size
      BY Vectors, PT!ElementsAre
    <3>2. PT!Fetched(view) \in Seq(Values) /\ Len(PT!Fetched(view)) = Len(view)
      BY <2>3, Vectors, PT!FetchedAre
    <3> QED BY <3>1, <3>2
  <2> HIDE DEF s
  <2>5. s \in [1 .. Len(s) -> Values] /\ Len(s) \in 0 .. OtherCapacity
    BY <2>1, <2>4, <1>0
  <2>6. s \in PT!Ranges
    BY <2>5, <1>0 DEF PT!Ranges
  <2> QED BY <2>1, <2>6 DEF PT!Next, PT!Sources
<1>5. ASSUME NEW i \in 0 .. size, NEW j \in 0 .. size, String!V!Erase(i, j) PROVE PT!Next
  <2>1. i \in PT!Places /\ j \in PT!Places
    BY <1>0
  <2> QED BY <1>5, <2>1, SameString DEF PT!Next
<1>6. ASSUME NEW n \in 0 .. OtherCapacity, String!resize(n) PROVE PT!Next
  <2>1. PT!Resize(n, Zero)
    BY <1>6, SameString DEF String!resize, PT!Resize
  <2> QED BY <1>0, <2>1 DEF PT!Next
<1>7. ASSUME String!V!Loop PROVE PT!Next
  BY <1>7, SameString DEF PT!Next
<1>8. PT!Next
  BY <1>1, <1>2, <1>3, <1>4, <1>5, <1>6, <1>7 DEF String!Next
<1>9. [PT!Next]_(PT!vars)
  BY <1>8
<1> QED BY <1>9, Vectors, PT!NextIsSound
-----------------------------------------------------------------------------
(* The vector of a set.                                                     *)

PS == INSTANCE StaticVectorProofs WITH
        Capacity <- OtherCapacity, Values <- Keys, Zero <- DefaultKey,
        Trivial <- TRUE, EmptyInside <- FALSE

LEMMA SameSet ==
  /\ Set!V!Init <=> PS!Init
  /\ \A x : Set!V!PushBack(x) <=> PS!PushBack(x)
  /\ Set!V!Clear <=> PS!Clear
  /\ \A p, src : Set!V!Insert(p, src) <=> PS!Insert(p, src)
  /\ \A src : Set!V!Assign(src) <=> PS!Assign(src)
  /\ \A i, j : Set!V!Erase(i, j) <=> PS!Erase(i, j)
  /\ \A d, n : Set!V!Copy(d, n) <=> PS!Copy(d, n)
  /\ \A s : Set!V!Simple(s) <=> PS!Simple(s)
  /\ Set!V!Loop <=> PS!Loop
  /\ Set!V!Elements = PS!Elements /\ Set!V!Ranges = PS!Ranges
  /\ \A s : Set!V!GivenAll(s) = PS!GivenAll(s) /\ Set!V!Fetched(s) = PS!Fetched(s)
  /\ \A i, j : Set!V!OwnRange(i, j) = PS!OwnRange(i, j)
  /\ \A n, x : Set!V!Copies(n, x) = PS!Copies(n, x) /\ Set!V!Given(x) = PS!Given(x)
  BY SMT DEF Set!V!rotation, PS!rotation, Set!V!moving, PS!moving, Set!V!call,
    PS!call, Set!V!Slots, PS!Slots, Set!V!Places, PS!Places, Set!V!Storage,
    PS!Storage, Set!V!Ranges, PS!Ranges, Set!V!Elements, PS!Elements, Set!V!Before,
    PS!Before, Set!V!Behind, PS!Behind, Set!V!InRange, PS!InRange, Set!V!PairInRange,
    PS!PairInRange, Set!V!Given, PS!Given, Set!V!Own, PS!Own, Set!V!Source, PS!Source,
    Set!V!Fetch, PS!Fetch, Set!V!Fetched, PS!Fetched, Set!V!GivenAll, PS!GivenAll,
    Set!V!OwnRange, PS!OwnRange, Set!V!Copies, PS!Copies, Set!V!Destroyed,
    PS!Destroyed, Set!V!Fresh, PS!Fresh, Set!V!ConstructList, PS!ConstructList,
    Set!V!Construct, PS!Construct, Set!V!Init, PS!Init, Set!V!Simple, PS!Simple,
    Set!V!Enter, PS!Enter, Set!V!Return, PS!Return, Set!V!PushBack, PS!PushBack,
    Set!V!Clear, PS!Clear, Set!V!Insert, PS!Insert, Set!V!Assign, PS!Assign,
    Set!V!Copy, PS!Copy, Set!V!Erase, PS!Erase, Set!V!AppendNext, PS!AppendNext,
    Set!V!BeginRotate, PS!BeginRotate, Set!V!Swapped, PS!Swapped, Set!V!NextAfter,
    PS!NextAfter, Set!V!MiddleAfter, PS!MiddleAfter, Set!V!Rotate, PS!Rotate,
    Set!V!MoveDown, PS!MoveDown, Set!V!NewSize, PS!NewSize, Set!V!Vacated, PS!Vacated,
    Set!V!EndMove, PS!EndMove, Set!V!Loop, PS!Loop

LEMMA SetAssumption == PS!StaticVectorAssumption
  BY ContainersAssumption DEF PS!StaticVectorAssumption

LEMMA SetVector ==
  ASSUME PS!Sound
  PROVE  /\ OtherCapacity \in Nat \ {0} /\ size \in 0 .. OtherCapacity
         /\ expected \in Seq(Keys) /\ Len(expected) <= OtherCapacity
         /\ PS!Places = 0 .. OtherCapacity
         /\ pc = "idle" =>
              /\ Set!V!Elements = expected /\ size = Len(expected)
              /\ \A i \in 0 .. size - 1 : data[i] = expected[i + 1] /\ data[i] \in Keys
<1>1. OtherCapacity \in Nat \ {0} /\ size \in 0 .. OtherCapacity /\ PS!Places = 0 .. OtherCapacity
  BY ContainersAssumption DEF PS!Sound, PS!TypeOK, PS!Places
<1>2. expected \in Seq(Keys) /\ Len(expected) <= OtherCapacity
  BY DEF PS!Sound
<1>3. ASSUME pc = "idle"
      PROVE  /\ Set!V!Elements = expected /\ size = Len(expected)
             /\ \A i \in 0 .. size - 1 : data[i] = expected[i + 1] /\ data[i] \in Keys
  <2>1. Set!V!Elements = expected
    BY <1>3, SameSet, SetAssumption, PS!SoundVector DEF PS!LikeSequence
  <2>2. PS!Resting(expected, data, size) /\ \A i \in 0 .. size - 1 : data[i] \in Keys
    BY <1>3 DEF PS!Sound
  <2> QED BY <2>1, <2>2 DEF PS!Resting
<1> QED BY <1>1, <1>2, <1>3

LEMMA SetUnchanged ==
  ASSUME PS!Sound, Set!Unchanged
  PROVE  PS!Sound' /\ expected' = expected /\ pc = "idle"
<1>1. pc = "idle" /\ UNCHANGED PS!call /\ expected' = Set!V!Elements /\ UNCHANGED <<data, size>>
  BY SameSet DEF Set!Unchanged, PS!Simple, PS!call, PS!rotation, PS!moving
<1>2. expected' = expected /\ expected \in Seq(Keys) /\ size = Len(expected) /\ size \in PS!Places
      /\ \A i \in 0 .. size - 1 : data[i] = expected[i + 1] /\ data[i] \in Keys
  BY <1>1, SetVector
<1>3. data \in [PS!Slots -> Keys \union {Gone}]
  BY DEF PS!Sound, PS!TypeOK
<1> QED BY <1>1, <1>2, <1>3, SetAssumption, PS!SimpleStep

LEMMA SetPush ==
  ASSUME PS!Sound, NEW k \in Keys, Set!V!PushBack(k)
  PROVE  PS!Sound' /\ expected' = Append(expected, k) /\ pc = "idle" /\ size < OtherCapacity
<1>1. PS!PushBack(k)
  BY SameSet
<1>2. PS!Sound'
  BY <1>1, SetAssumption, PS!PushBackStep
<1>3. pc = "idle" /\ expected' = Append(Set!V!Elements, k) /\ size < OtherCapacity
  BY <1>1, SameSet DEF PS!PushBack, PS!Simple
<1> QED BY <1>2, <1>3, SetVector

LEMMA SetErase ==
  ASSUME PS!Sound, NEW i, Set!V!Erase(i, i + 1), i \in Int
  PROVE  /\ PS!Sound' /\ pc = "idle" /\ i \in 0 .. Len(expected) - 1
         /\ expected' = SubSeq(expected, 1, i) \o SubSeq(expected, i + 2, Len(expected))
<1>1. PS!Erase(i, i + 1)
  BY SameSet
<1>2. PS!Sound'
  BY <1>1, SetAssumption, PS!EraseStep
<1>3. pc = "idle" /\ i \in 0 .. size /\ i + 1 \in 0 .. size
      /\ expected' = PS!Before(Set!V!Elements, i) \o PS!Behind(Set!V!Elements, i + 1)
  BY <1>1, SameSet DEF PS!Erase, PS!Enter, PS!PairInRange, PS!InRange
<1>4. Set!V!Elements = expected /\ size = Len(expected) /\ size \in Nat
  BY <1>3, SetVector
<1>5. i \in 0 .. Len(expected) - 1 /\ (i + 1) + 1 = i + 2
  BY <1>3, <1>4
<1> QED BY <1>2, <1>3, <1>4, <1>5 DEF PS!Before, PS!Behind

LEMMA SetClear ==
  ASSUME PS!Sound, Set!V!Clear
  PROVE  PS!Sound' /\ expected' = <<>> /\ pc = "idle"
<1>1. PS!Clear
  BY SameSet
<1> QED BY <1>1, SetAssumption, PS!ClearStep DEF PS!Clear, PS!Simple

LEMMA SetLoop ==
  ASSUME PS!Sound, Set!V!Loop
  PROVE  PS!Sound' /\ expected' = expected
<1>1. PS!Loop
  BY SameSet
<1>2. [PS!Next]_(PS!vars)
  BY <1>1 DEF PS!Next
<1> QED BY <1>1, <1>2, SetAssumption, PS!NextIsSound
        DEF PS!Loop, PS!AppendNext, PS!BeginRotate, PS!Rotate, PS!MoveDown, PS!EndMove

LEMMA SetInit ==
  ASSUME Set!Init
  PROVE  PS!Sound /\ Distinct(expected)
<1>1. PS!Sound
  BY SameSet, SetAssumption, PS!InitIsSound DEF Set!Init
<1>2. expected \in Set!Sets
  BY <1>1, SetVector DEF Set!Init
<1> QED BY <1>1, <1>2, SetsAre

LEMMA SetAssign ==
  ASSUME PS!Sound, NEW s \in Set!Sets, Set!Assign(s)
  PROVE  PS!Sound' /\ expected' = s
<1> DEFINE d == [i \in PS!Slots |-> IF i < Len(s) THEN s[i + 1] ELSE DefaultKey]
<1>1. s \in Seq(Keys) /\ Len(s) \in 0 .. OtherCapacity
  BY SetsAre
<1>2. PS!Copy(d, Len(s))
  <2>1. PS!Slots = Set!V!Slots
    BY DEF PS!Slots, Set!V!Slots
  <2> QED BY <2>1, SameSet DEF Set!Assign
<1>3. OtherCapacity \in Nat /\ PS!Slots = 0 .. OtherCapacity - 1 /\ PS!Places = 0 .. OtherCapacity
      /\ DefaultKey \in Keys
  BY ContainersAssumption DEF PS!Slots, PS!Places
<1>4. d \in PS!Storage /\ Len(s) \in PS!Places
  <2>1. \A i \in PS!Slots : i < Len(s) => s[i + 1] \in Keys
    BY <1>1, <1>3
  <2> QED BY <1>1, <1>3, <2>1 DEF PS!Storage
<1>5. [i \in 1 .. Len(s) |-> d[i - 1]] = s
  <2>1. ASSUME NEW i \in 1 .. Len(s) PROVE d[i - 1] = s[i]
    <3>1. i - 1 \in PS!Slots /\ i - 1 < Len(s) /\ (i - 1) + 1 = i
      BY <1>1, <1>3
    <3>2. d[i - 1] = s[(i - 1) + 1]
      BY <3>1
    <3> HIDE DEF d
    <3> QED BY <3>1, <3>2
  <2> HIDE DEF d
  <2>2. s = [i \in 1 .. Len(s) |-> s[i]]
    BY <1>1
  <2> QED BY <2>1, <2>2
<1> HIDE DEF d
<1>6. PS!Sound'
  BY <1>2, <1>4, SetAssumption, PS!CopyStep
<1>7. expected' = [i \in 1 .. Len(s) |-> d[i - 1]]
  BY <1>2 DEF PS!Copy, PS!Simple
<1> QED BY <1>5, <1>6, <1>7

\* The linear search finds the place of a key that is there.
LEMMA SetFind ==
  ASSUME PS!Sound, pc = "idle", NEW k
  PROVE  /\ Set!contains(k) <=> k \in Set!KeysOf(expected)
         /\ Set!contains(k) => /\ Set!find(k) \in 0 .. Len(expected) - 1
                               /\ expected[Set!find(k) + 1] = k
                               /\ data[Set!find(k)] = k
<1>1. /\ size = Len(expected) /\ expected \in Seq(Keys) /\ size \in Nat
      /\ \A i \in 0 .. size - 1 : data[i] = expected[i + 1]
  BY SetVector
<1> DEFINE P(i) == (i = size \/ data[i] = k) /\ \A j \in 0 .. i - 1 : data[j] # k
<1>2. \E i \in 0 .. size : P(i)
  <2> DEFINE T == {i \in 0 .. size : i = size \/ data[i] = k}
  <2>1. T \in SUBSET Nat /\ T # {}
    BY <1>1
  <2>2. PICK m \in T : \A i \in T : m <= i
    <3> HIDE DEF T
    <3> QED BY <2>1, LeastElement
  <2>3. \A j \in 0 .. m - 1 : data[j] # k
    BY <1>1, <2>2
  <2> QED BY <2>2, <2>3
<1>3. Set!find(k) \in 0 .. size /\ P(Set!find(k))
  BY <1>2, Zenon DEF Set!find, Set!End
<1>4. Set!contains(k) <=> Set!find(k) # size
  BY DEF Set!contains, Set!End
<1>5. Set!contains(k) => /\ Set!find(k) \in 0 .. size - 1 /\ data[Set!find(k)] = k
                         /\ expected[Set!find(k) + 1] = k
  BY <1>1, <1>3, <1>4
<1>6. Set!contains(k) => k \in Set!KeysOf(expected)
  <2> SUFFICES ASSUME Set!contains(k) PROVE \E i \in 1 .. Len(expected) : expected[i] = k
    BY DEF Set!KeysOf
  <2>1. Set!find(k) + 1 \in 1 .. Len(expected)
    BY <1>1, <1>5
  <2> QED BY <1>5, <2>1
<1>7. ASSUME k \in Set!KeysOf(expected) PROVE Set!contains(k)
  <2>1. PICK i \in 1 .. Len(expected) : expected[i] = k
    BY <1>7 DEF Set!KeysOf
  <2>2. i - 1 \in 0 .. size - 1 /\ data[i - 1] = k
    <3>1. i - 1 \in 0 .. size - 1 /\ (i - 1) + 1 = i
      BY <1>1
    <3> QED BY <1>1, <2>1, <3>1
  <2>3. Set!find(k) # size
    BY <1>3, <2>2
  <2> QED BY <1>4, <2>3
<1> QED BY <1>1, <1>5, <1>6, <1>7

LEMMA SetStep ==
  ASSUME PS!Sound, Set!Next
  PROVE  PS!Sound' /\ SetCall
<1> DEFINE held == Set!KeysOf(expected)
<1>1. ASSUME NEW k \in Keys, Set!Lookup(k) PROVE PS!Sound' /\ SetCall
  <2>1. PS!Sound' /\ expected' = expected /\ pc = "idle"
    BY <1>1, SetUnchanged DEF Set!Lookup
  <2>2. Set!Answer(<<"find", k>>, IF k \in held THEN k ELSE "end")
    BY <1>1, <2>1, SetFind DEF Set!Lookup
  <2> QED BY <2>1, <2>2 DEF SetCall
<1>2. ASSUME NEW k \in Keys, Set!insert(k) PROVE PS!Sound' /\ SetCall
  <2>1. CASE Set!contains(k) /\ Set!Unchanged
    <3>1. PS!Sound' /\ expected' = expected /\ pc = "idle"
      BY <2>1, SetUnchanged
    <3>2. k \in held /\ Set!Answer(<<"insert", k, k>>, FALSE)
      BY <1>2, <2>1, <3>1, SetFind DEF Set!insert
    <3>3. (k \notin held) = FALSE
      BY <3>2
    <3> QED BY <3>1, <3>2, <3>3 DEF SetCall
  <2>2. CASE ~Set!contains(k) /\ Set!V!PushBack(k)
    <3>1. PS!Sound' /\ expected' = Append(expected, k) /\ pc = "idle" /\ size < OtherCapacity
      BY <2>2, SetPush
    <3>2. k \notin held /\ Set!Answer(<<"insert", k, k>>, TRUE) /\ Len(expected) < OtherCapacity
      BY <1>2, <2>2, <3>1, SetFind, SetVector DEF Set!insert
    <3>3. (k \notin held) = TRUE
      BY <3>2
    <3> QED BY <3>1, <3>2, <3>3 DEF SetCall
  <2> QED BY <1>2, <2>1, <2>2 DEF Set!insert
<1>3. ASSUME NEW k \in Keys, Set!insert_unchecked(k) PROVE PS!Sound' /\ SetCall
  <2>1. PS!Sound' /\ expected' = Append(expected, k) /\ pc = "idle" /\ size < OtherCapacity
    BY <1>3, SetPush DEF Set!insert_unchecked
  <2>2. k \notin held /\ Set!Answer(<<"insert", k, k>>, TRUE) /\ Len(expected) < OtherCapacity
    BY <1>3, <2>1, SetFind, SetVector DEF Set!insert_unchecked
  <2>3. (k \notin held) = TRUE
    BY <2>2
  <2> QED BY <2>1, <2>2, <2>3 DEF SetCall
<1>4. ASSUME NEW i \in 0 .. size, Set!eraseAt(i) PROVE PS!Sound' /\ SetCall
  <2>1. Set!V!Erase(i, i + 1) /\ i \in Int
    BY <1>4, SetVector DEF Set!eraseAt
  <2>2. /\ PS!Sound' /\ pc = "idle" /\ i \in 0 .. Len(expected) - 1
        /\ expected' = SubSeq(expected, 1, i) \o SubSeq(expected, i + 2, Len(expected))
    BY <2>1, SetErase
  <2>3. data[i] = expected[i + 1]
    BY <2>2, SetVector
  <2> QED BY <1>4, <2>2, <2>3 DEF SetCall, Set!eraseAt
<1>5. ASSUME NEW k \in Keys, Set!erase(k) PROVE PS!Sound' /\ SetCall
  <2>1. CASE Set!contains(k) /\ Set!V!Erase(Set!find(k), Set!find(k) + 1)
                /\ Set!Answer(<<"erase", k>>, 1)
    <3>1. pc = "idle"
      BY <2>1, SameSet DEF PS!Erase, PS!Enter
    <3>2. Set!find(k) \in Int /\ expected[Set!find(k) + 1] = k
      BY <2>1, <3>1, SetFind
    <3>3. /\ PS!Sound' /\ Set!find(k) \in 0 .. Len(expected) - 1
          /\ expected' = SubSeq(expected, 1, Set!find(k))
                            \o SubSeq(expected, Set!find(k) + 2, Len(expected))
      BY <2>1, <3>2, SetErase
    <3> QED BY <2>1, <3>2, <3>3 DEF SetCall
  <2>2. CASE ~Set!contains(k) /\ Set!Unchanged /\ Set!Answer(<<"erase", k>>, 0)
    <3>1. PS!Sound' /\ expected' = expected /\ pc = "idle"
      BY <2>2, SetUnchanged
    <3>2. k \notin held
      BY <2>2, <3>1, SetFind
    <3> QED BY <2>2, <3>1, <3>2 DEF SetCall
  <2> QED BY <1>5, <2>1, <2>2 DEF Set!erase
<1>6. CASE Set!clear
  BY <1>6, SetClear DEF Set!clear, SetCall
<1>7. ASSUME NEW s \in Set!Sets, Set!Assign(s) PROVE PS!Sound' /\ SetCall
  BY <1>7, SetAssign DEF Set!Assign, SetCall
<1>8. CASE Set!V!Loop /\ UNCHANGED <<asked, answer>>
  BY <1>8, SetLoop DEF SetCall
<1> QED BY <1>1, <1>2, <1>3, <1>4, <1>5, <1>6, <1>7, <1>8 DEF Set!Next
-----------------------------------------------------------------------------
(* The vector of a map.                                                     *)

PM == INSTANCE StaticVectorProofs WITH
        Capacity <- OtherCapacity, Values <- Keys \X Mapped,
        Zero <- <<DefaultKey, Default>>, Trivial <- TRUE, EmptyInside <- FALSE

LEMMA SameMap ==
  /\ Map!V!Init <=> PM!Init
  /\ \A x : Map!V!PushBack(x) <=> PM!PushBack(x)
  /\ Map!V!Clear <=> PM!Clear
  /\ \A p, src : Map!V!Insert(p, src) <=> PM!Insert(p, src)
  /\ \A src : Map!V!Assign(src) <=> PM!Assign(src)
  /\ \A i, j : Map!V!Erase(i, j) <=> PM!Erase(i, j)
  /\ \A d, n : Map!V!Copy(d, n) <=> PM!Copy(d, n)
  /\ \A s : Map!V!Simple(s) <=> PM!Simple(s)
  /\ Map!V!Loop <=> PM!Loop
  /\ Map!V!Elements = PM!Elements /\ Map!V!Ranges = PM!Ranges
  /\ \A s : Map!V!GivenAll(s) = PM!GivenAll(s) /\ Map!V!Fetched(s) = PM!Fetched(s)
  /\ \A i, j : Map!V!OwnRange(i, j) = PM!OwnRange(i, j)
  /\ \A n, x : Map!V!Copies(n, x) = PM!Copies(n, x) /\ Map!V!Given(x) = PM!Given(x)
  BY SMT DEF Map!V!rotation, PM!rotation, Map!V!moving, PM!moving, Map!V!call,
    PM!call, Map!V!Slots, PM!Slots, Map!V!Places, PM!Places, Map!V!Storage,
    PM!Storage, Map!V!Ranges, PM!Ranges, Map!V!Elements, PM!Elements, Map!V!Before,
    PM!Before, Map!V!Behind, PM!Behind, Map!V!InRange, PM!InRange, Map!V!PairInRange,
    PM!PairInRange, Map!V!Given, PM!Given, Map!V!Own, PM!Own, Map!V!Source, PM!Source,
    Map!V!Fetch, PM!Fetch, Map!V!Fetched, PM!Fetched, Map!V!GivenAll, PM!GivenAll,
    Map!V!OwnRange, PM!OwnRange, Map!V!Copies, PM!Copies, Map!V!Destroyed,
    PM!Destroyed, Map!V!Fresh, PM!Fresh, Map!V!ConstructList, PM!ConstructList,
    Map!V!Construct, PM!Construct, Map!V!Init, PM!Init, Map!V!Simple, PM!Simple,
    Map!V!Enter, PM!Enter, Map!V!Return, PM!Return, Map!V!PushBack, PM!PushBack,
    Map!V!Clear, PM!Clear, Map!V!Insert, PM!Insert, Map!V!Assign, PM!Assign,
    Map!V!Copy, PM!Copy, Map!V!Erase, PM!Erase, Map!V!AppendNext, PM!AppendNext,
    Map!V!BeginRotate, PM!BeginRotate, Map!V!Swapped, PM!Swapped, Map!V!NextAfter,
    PM!NextAfter, Map!V!MiddleAfter, PM!MiddleAfter, Map!V!Rotate, PM!Rotate,
    Map!V!MoveDown, PM!MoveDown, Map!V!NewSize, PM!NewSize, Map!V!Vacated, PM!Vacated,
    Map!V!EndMove, PM!EndMove, Map!V!Loop, PM!Loop, Map!Pairs

LEMMA MapAssumption == PM!StaticVectorAssumption
  BY ContainersAssumption DEF PM!StaticVectorAssumption

LEMMA MapVector ==
  ASSUME PM!Sound
  PROVE  /\ OtherCapacity \in Nat \ {0} /\ size \in 0 .. OtherCapacity
         /\ expected \in Seq(Keys \X Mapped) /\ Len(expected) <= OtherCapacity
         /\ PM!Places = 0 .. OtherCapacity
         /\ pc = "idle" =>
              /\ Map!V!Elements = expected /\ size = Len(expected)
              /\ \A i \in 0 .. size - 1 : data[i] = expected[i + 1] /\ data[i] \in Keys \X Mapped
<1>1. OtherCapacity \in Nat \ {0} /\ size \in 0 .. OtherCapacity /\ PM!Places = 0 .. OtherCapacity
  BY ContainersAssumption DEF PM!Sound, PM!TypeOK, PM!Places
<1>2. expected \in Seq(Keys \X Mapped) /\ Len(expected) <= OtherCapacity
  BY DEF PM!Sound
<1>3. ASSUME pc = "idle"
      PROVE  /\ Map!V!Elements = expected /\ size = Len(expected)
             /\ \A i \in 0 .. size - 1 : data[i] = expected[i + 1] /\ data[i] \in Keys \X Mapped
  <2>1. Map!V!Elements = expected
    BY <1>3, SameMap, MapAssumption, PM!SoundVector DEF PM!LikeSequence
  <2>2. PM!Resting(expected, data, size) /\ \A i \in 0 .. size - 1 : data[i] \in Keys \X Mapped
    BY <1>3 DEF PM!Sound
  <2> QED BY <2>1, <2>2 DEF PM!Resting
<1> QED BY <1>1, <1>2, <1>3

LEMMA MapUnchanged ==
  ASSUME PM!Sound, Map!Unchanged
  PROVE  PM!Sound' /\ expected' = expected /\ pc = "idle"
<1>1. pc = "idle" /\ UNCHANGED PM!call /\ expected' = Map!V!Elements /\ UNCHANGED <<data, size>>
  BY SameMap DEF Map!Unchanged, PM!Simple, PM!call, PM!rotation, PM!moving
<1>2. expected' = expected /\ expected \in Seq(Keys \X Mapped) /\ size = Len(expected) /\ size \in PM!Places
      /\ \A i \in 0 .. size - 1 : data[i] = expected[i + 1] /\ data[i] \in Keys \X Mapped
  BY <1>1, MapVector
<1>3. data \in [PM!Slots -> (Keys \X Mapped) \union {Gone}]
  BY DEF PM!Sound, PM!TypeOK
<1> QED BY <1>1, <1>2, <1>3, MapAssumption, PM!SimpleStep

LEMMA MapPush ==
  ASSUME PM!Sound, NEW k \in Keys, NEW v \in Mapped, Map!InsertNew(k, v)
  PROVE  PM!Sound' /\ expected' = Append(expected, <<k, v>>) /\ pc = "idle" /\ size < OtherCapacity
<1>1. PM!PushBack(<<k, v>>) /\ <<k, v>> \in Keys \X Mapped
  BY SameMap DEF Map!InsertNew
<1>2. PM!Sound'
  BY <1>1, MapAssumption, PM!PushBackStep
<1>3. pc = "idle" /\ expected' = Append(Map!V!Elements, <<k, v>>) /\ size < OtherCapacity
  BY <1>1, SameMap DEF PM!PushBack, PM!Simple
<1> QED BY <1>2, <1>3, MapVector

LEMMA MapErase ==
  ASSUME PM!Sound, NEW i, Map!V!Erase(i, i + 1), i \in Int
  PROVE  /\ PM!Sound' /\ pc = "idle" /\ i \in 0 .. Len(expected) - 1
         /\ expected' = SubSeq(expected, 1, i) \o SubSeq(expected, i + 2, Len(expected))
<1>1. PM!Erase(i, i + 1)
  BY SameMap
<1>2. PM!Sound'
  BY <1>1, MapAssumption, PM!EraseStep
<1>3. pc = "idle" /\ i \in 0 .. size /\ i + 1 \in 0 .. size
      /\ expected' = PM!Before(Map!V!Elements, i) \o PM!Behind(Map!V!Elements, i + 1)
  BY <1>1, SameMap DEF PM!Erase, PM!Enter, PM!PairInRange, PM!InRange
<1>4. Map!V!Elements = expected /\ size = Len(expected) /\ size \in Nat
  BY <1>3, MapVector
<1>5. i \in 0 .. Len(expected) - 1 /\ (i + 1) + 1 = i + 2
  BY <1>3, <1>4
<1> QED BY <1>2, <1>3, <1>4, <1>5 DEF PM!Before, PM!Behind

LEMMA MapClear ==
  ASSUME PM!Sound, Map!V!Clear
  PROVE  PM!Sound' /\ expected' = <<>> /\ pc = "idle"
<1>1. PM!Clear
  BY SameMap
<1> QED BY <1>1, MapAssumption, PM!ClearStep DEF PM!Clear, PM!Simple

LEMMA MapLoop ==
  ASSUME PM!Sound, Map!V!Loop
  PROVE  PM!Sound' /\ expected' = expected
<1>1. PM!Loop
  BY SameMap
<1>2. [PM!Next]_(PM!vars)
  BY <1>1 DEF PM!Next
<1> QED BY <1>1, <1>2, MapAssumption, PM!NextIsSound
        DEF PM!Loop, PM!AppendNext, PM!BeginRotate, PM!Rotate, PM!MoveDown, PM!EndMove

LEMMA MapInit ==
  ASSUME Map!Init
  PROVE  PM!Sound /\ DistinctKeys(expected)
<1>1. PM!Sound
  BY SameMap, MapAssumption, PM!InitIsSound DEF Map!Init
<1>2. expected \in Map!Maps
  BY <1>1, MapVector DEF Map!Init
<1> QED BY <1>1, <1>2, MapsAre

LEMMA MapAssign ==
  ASSUME PM!Sound, NEW s \in Map!Maps, Map!Assign(s)
  PROVE  PM!Sound' /\ expected' = s
<1> DEFINE d == [i \in PM!Slots |-> IF i < Len(s) THEN s[i + 1] ELSE <<DefaultKey, Default>>]
<1>1. s \in Seq(Keys \X Mapped) /\ Len(s) \in 0 .. OtherCapacity
  BY MapsAre
<1>2. PM!Copy(d, Len(s))
  <2>1. PM!Slots = Map!V!Slots
    BY DEF PM!Slots, Map!V!Slots
  <2> QED BY <2>1, SameMap DEF Map!Assign
<1>3. OtherCapacity \in Nat /\ PM!Slots = 0 .. OtherCapacity - 1 /\ PM!Places = 0 .. OtherCapacity
      /\ <<DefaultKey, Default>> \in Keys \X Mapped
  BY ContainersAssumption DEF PM!Slots, PM!Places
<1>4. d \in PM!Storage /\ Len(s) \in PM!Places
  <2>1. \A i \in PM!Slots : i < Len(s) => s[i + 1] \in Keys \X Mapped
    BY <1>1, <1>3
  <2> QED BY <1>1, <1>3, <2>1 DEF PM!Storage
<1>5. [i \in 1 .. Len(s) |-> d[i - 1]] = s
  <2>1. ASSUME NEW i \in 1 .. Len(s) PROVE d[i - 1] = s[i]
    <3>1. i - 1 \in PM!Slots /\ i - 1 < Len(s) /\ (i - 1) + 1 = i
      BY <1>1, <1>3
    <3>2. d[i - 1] = s[(i - 1) + 1]
      BY <3>1
    <3> HIDE DEF d
    <3> QED BY <3>1, <3>2
  <2> HIDE DEF d
  <2>2. s = [i \in 1 .. Len(s) |-> s[i]]
    BY <1>1
  <2> QED BY <2>1, <2>2
<1> HIDE DEF d
<1>6. PM!Sound'
  BY <1>2, <1>4, MapAssumption, PM!CopyStep
<1>7. expected' = [i \in 1 .. Len(s) |-> d[i - 1]]
  BY <1>2 DEF PM!Copy, PM!Simple
<1> QED BY <1>5, <1>6, <1>7

\* A write through the reference to a value.
LEMMA MapSetSecond ==
  ASSUME PM!Sound, NEW i \in 0 .. size - 1, NEW v \in Mapped, Map!SetSecond(i, v)
  PROVE  PM!Sound' /\ expected' = [expected EXCEPT ![i + 1][2] = v] /\ pc = "idle"
<1>1. pc = "idle" /\ UNCHANGED PM!call /\ expected' = [Map!V!Elements EXCEPT ![i + 1][2] = v]
      /\ data' = [data EXCEPT ![i][2] = v] /\ size' = size
  BY SameMap DEF Map!SetSecond, PM!Simple, PM!call, PM!rotation, PM!moving
<1>2. expected' = [expected EXCEPT ![i + 1][2] = v]
  BY <1>1, MapVector
<1>3. expected \in Seq(Keys \X Mapped) /\ size = Len(expected) /\ size \in PM!Places
      /\ size \in Nat
      /\ \A j \in 0 .. size - 1 : data[j] = expected[j + 1] /\ data[j] \in Keys \X Mapped
  BY <1>1, MapVector
<1>4. data \in [PM!Slots -> (Keys \X Mapped) \union {Gone}]
  BY DEF PM!Sound, PM!TypeOK
<1> DEFINE p == <<data[i][1], v>>
<1>5. p \in Keys \X Mapped
  BY <1>3, SecondWritten
<1>6. data' = [data EXCEPT ![i] = p]
  <2>1. [data[i] EXCEPT ![2] = v] = p
    BY <1>3, SecondWritten
  <2>2. data' = [data EXCEPT ![i] = [data[i] EXCEPT ![2] = v]]
    BY <1>1
  <2> QED BY <2>1, <2>2
<1>7. expected' = [expected EXCEPT ![i + 1] = p]
  <2>1. [expected[i + 1] EXCEPT ![2] = v] = p
    BY <1>3, SecondWritten
  <2>2. expected' = [expected EXCEPT ![i + 1] = [expected[i + 1] EXCEPT ![2] = v]]
    BY <1>2
  <2> QED BY <2>1, <2>2
<1> HIDE DEF p
<1>8. data' \in [PM!Slots -> (Keys \X Mapped) \union {Gone}]
  BY <1>4, <1>5, <1>6
<1>9. i + 1 \in 1 .. Len(expected)
  BY <1>3
<1>10. expected' \in Seq(Keys \X Mapped) /\ Len(expected') = size'
  <2>1. expected' \in Seq(Keys \X Mapped) /\ Len(expected') = Len(expected)
    BY <1>3, <1>5, <1>7, <1>9, ExceptSeq
  <2>2. size' = size /\ size = Len(expected)
    BY <1>1, <1>3
  <2> QED BY <2>1, <2>2
<1>11. ASSUME NEW j \in 0 .. size' - 1
       PROVE  data'[j] \in Keys \X Mapped /\ expected'[j + 1] = data'[j]
  <2>1. j \in 0 .. size - 1 /\ j + 1 \in 1 .. Len(expected)
    BY <1>1, <1>3
  <2>2. i \in PM!Slots /\ j \in PM!Slots
    <3>1. 0 .. size - 1 \subseteq PM!Slots
      BY ContainersAssumption DEF PM!Slots, PM!Sound, PM!TypeOK, PM!Places
    <3> QED BY <2>1, <3>1
  <2>3. CASE j = i
    <3>1. data'[j] = p
      BY <1>4, <1>6, <2>2, <2>3
    <3>2. expected'[j + 1] = p
      BY <1>3, <1>7, <1>9, <2>3
    <3> QED BY <1>5, <3>1, <3>2
  <2>4. CASE j # i
    <3>1. data'[j] = data[j]
      BY <1>4, <1>6, <2>2, <2>4
    <3>2. j + 1 # i + 1
      BY <2>1, <2>4
    <3>3. expected'[j + 1] = expected[j + 1]
      BY <1>3, <1>7, <2>1, <3>2
    <3> QED BY <1>3, <2>1, <3>1, <3>3
  <2> QED BY <2>3, <2>4
<1>12. PM!Sound'
  BY <1>1, <1>3, <1>8, <1>10, <1>11, MapAssumption, PM!SimpleStep
<1> QED BY <1>1, <1>2, <1>12

\* The linear search finds the place of a key that is there.
LEMMA MapFind ==
  ASSUME PM!Sound, pc = "idle", NEW k
  PROVE  /\ Map!contains(k) <=> k \in KeysIn(expected)
         /\ Map!contains(k) => /\ Map!find(k) \in 0 .. Len(expected) - 1
                               /\ expected[Map!find(k) + 1][1] = k
                               /\ data[Map!find(k)] = expected[Map!find(k) + 1]
<1>1. /\ size = Len(expected) /\ expected \in Seq(Keys \X Mapped) /\ size \in Nat
      /\ \A i \in 0 .. size - 1 : data[i] = expected[i + 1]
  BY MapVector
<1> DEFINE P(i) == (i = size \/ data[i][1] = k) /\ \A j \in 0 .. i - 1 : data[j][1] # k
<1>2. \E i \in 0 .. size : P(i)
  <2> DEFINE T == {i \in 0 .. size : i = size \/ data[i][1] = k}
  <2>1. T \in SUBSET Nat /\ T # {}
    BY <1>1
  <2>2. PICK m \in T : \A i \in T : m <= i
    <3> HIDE DEF T
    <3> QED BY <2>1, LeastElement
  <2>3. \A j \in 0 .. m - 1 : data[j][1] # k
    BY <1>1, <2>2
  <2> QED BY <2>2, <2>3
<1>3. Map!find(k) \in 0 .. size /\ P(Map!find(k))
  BY <1>2, Zenon DEF Map!find, Map!End
<1>4. Map!contains(k) <=> Map!find(k) # size
  BY DEF Map!contains, Map!End
<1>5. Map!contains(k) => /\ Map!find(k) \in 0 .. size - 1 /\ data[Map!find(k)][1] = k
                         /\ data[Map!find(k)] = expected[Map!find(k) + 1]
  BY <1>1, <1>3, <1>4
<1>6. Map!contains(k) => k \in KeysIn(expected)
  <2> SUFFICES ASSUME Map!contains(k) PROVE \E i \in 1 .. Len(expected) : expected[i][1] = k
    BY DEF KeysIn
  <2>1. Map!find(k) + 1 \in 1 .. Len(expected)
    BY <1>1, <1>5
  <2> QED BY <1>5, <2>1
<1>7. ASSUME k \in KeysIn(expected) PROVE Map!contains(k)
  <2>1. PICK i \in 1 .. Len(expected) : expected[i][1] = k
    BY <1>7 DEF KeysIn
  <2>2. i - 1 \in 0 .. size - 1 /\ data[i - 1][1] = k
    <3>1. i - 1 \in 0 .. size - 1 /\ (i - 1) + 1 = i
      BY <1>1
    <3> QED BY <1>1, <2>1, <3>1
  <2>3. Map!find(k) # size
    BY <1>3, <2>2
  <2> QED BY <1>4, <2>3
<1> QED BY <1>1, <1>5, <1>6, <1>7

\* What the linear search gives a call.
LEMMA MapSearch ==
  ASSUME PM!Sound, pc = "idle", NEW k \in Keys
  PROVE  /\ ~Map!contains(k) => k \notin KeysIn(expected)
         /\ Map!contains(k) =>
              \E i \in 0 .. Len(expected) - 1 :
                /\ i = Map!find(k) /\ i \in 0 .. size - 1 /\ i \in Int
                /\ expected[i + 1][1] = k /\ data[i] = expected[i + 1]
  BY MapFind, MapVector

LEMMA MapStep ==
  ASSUME PM!Sound, Map!Next
  PROVE  PM!Sound' /\ MapCall
<1>1. ASSUME NEW k \in Keys, Map!Lookup(k) PROVE PM!Sound' /\ MapCall
  <2>1. PM!Sound' /\ expected' = expected /\ pc = "idle"
    BY <1>1, MapUnchanged DEF Map!Lookup
  <2>2. CASE Map!contains(k)
    <3>1. PICK i \in 0 .. Len(expected) - 1 :
            i = Map!find(k) /\ expected[i + 1][1] = k /\ data[i] = expected[i + 1]
      BY <2>1, <2>2, MapSearch
    <3>2. Map!Answer(<<"find", k>>, expected[i + 1][2])
      BY <1>1, <2>2, <3>1 DEF Map!Lookup
    <3>3. MapMet(i)
      BY <2>1, <3>1, <3>2 DEF MapMet
    <3> QED BY <2>1, <3>3 DEF MapCall
  <2>3. CASE ~Map!contains(k)
    <3>1. k \notin KeysIn(expected)
      BY <2>1, <2>3, MapSearch
    <3>2. Map!Answer(<<"find", k>>, "end")
      BY <1>1, <2>3 DEF Map!Lookup
    <3>3. MapMissed
      BY <2>1, <3>1, <3>2 DEF MapMissed
    <3> QED BY <2>1, <3>3 DEF MapCall
  <2> QED BY <2>2, <2>3
<1>2. ASSUME NEW k \in Keys, Map!Subscript(k) PROVE PM!Sound' /\ MapCall
  <2>1. CASE Map!contains(k) /\ Map!Unchanged /\ Map!Answer(<<"[]", k>>, data[Map!find(k)][2])
    <3>0. PM!Sound' /\ expected' = expected /\ pc = "idle"
      BY <2>1, MapUnchanged
    <3>1. PICK i \in 0 .. Len(expected) - 1 :
            i = Map!find(k) /\ expected[i + 1][1] = k /\ data[i] = expected[i + 1]
      BY <2>1, <3>0, MapSearch
    <3>2. Map!Answer(<<"[]", k>>, expected[i + 1][2])
      BY <2>1, <3>1
    <3>3. MapMet(i)
      BY <3>0, <3>1, <3>2 DEF MapMet
    <3> QED BY <3>0, <3>3 DEF MapCall
  <2>2. CASE ~Map!contains(k) /\ Map!InsertNew(k, Default) /\ Map!Answer(<<"[]", k>>, Default)
    <3>1. Default \in Mapped
      BY ContainersAssumption
    <3>2. /\ PM!Sound' /\ expected' = Append(expected, <<k, Default>>) /\ pc = "idle"
          /\ size < OtherCapacity
      BY <2>2, <3>1, MapPush
    <3>3. k \notin KeysIn(expected) /\ Len(expected) < OtherCapacity
      BY <2>2, <3>2, MapSearch, MapVector
    <3>4. MapMissed
      BY <2>2, <3>1, <3>2, <3>3 DEF MapMissed
    <3> QED BY <3>2, <3>4 DEF MapCall
  <2> QED BY <1>2, <2>1, <2>2 DEF Map!Subscript
<1>3. ASSUME NEW k \in Keys, Map!erase(k) PROVE PM!Sound' /\ MapCall
  <2>1. CASE Map!contains(k) /\ Map!V!Erase(Map!find(k), Map!find(k) + 1)
                /\ Map!Answer(<<"erase", k>>, 1)
    <3>0. pc = "idle"
      BY <2>1, SameMap DEF PM!Erase, PM!Enter
    <3>1. PICK i \in 0 .. Len(expected) - 1 : i = Map!find(k) /\ i \in Int /\ expected[i + 1][1] = k
      BY <2>1, <3>0, MapSearch
    <3>2. PM!Sound' /\ expected' = SubSeq(expected, 1, i) \o SubSeq(expected, i + 2, Len(expected))
      BY <2>1, <3>1, MapErase
    <3>3. MapMet(i)
      BY <2>1, <3>1, <3>2 DEF MapMet
    <3> QED BY <3>2, <3>3 DEF MapCall
  <2>2. CASE ~Map!contains(k) /\ Map!Unchanged /\ Map!Answer(<<"erase", k>>, 0)
    <3>1. PM!Sound' /\ expected' = expected /\ pc = "idle"
      BY <2>2, MapUnchanged
    <3>2. k \notin KeysIn(expected)
      BY <2>2, <3>1, MapSearch
    <3>3. MapMissed
      BY <2>2, <3>1, <3>2 DEF MapMissed
    <3> QED BY <3>1, <3>3 DEF MapCall
  <2> QED BY <1>3, <2>1, <2>2 DEF Map!erase
<1>4. ASSUME NEW k \in Keys, NEW v \in Mapped, Map!contains(k), Map!SetSecond(Map!find(k), v),
             Map!Answer(<<"at", k, v>>, v) \/ Map!Answer(<<"insert_or_assign", k, v>>, FALSE)
      PROVE  PM!Sound' /\ MapCall
  <2>0. pc = "idle"
    BY <1>4, SameMap DEF Map!SetSecond, PM!Simple
  <2>1. PICK i \in 0 .. Len(expected) - 1 :
          i = Map!find(k) /\ i \in 0 .. size - 1 /\ expected[i + 1][1] = k
    BY <1>4, <2>0, MapSearch
  <2>2. PM!Sound' /\ expected' = [expected EXCEPT ![i + 1][2] = v]
    BY <1>4, <2>1, MapSetSecond
  <2>3. MapMet(i)
    BY <1>4, <2>1, <2>2 DEF MapMet
  <2> QED BY <2>2, <2>3 DEF MapCall
<1>5. ASSUME NEW k \in Keys, NEW v \in Mapped, ~Map!contains(k), Map!InsertNew(k, v),
             Map!Answer(<<"insert", k, v>>, TRUE) \/ Map!Answer(<<"insert_or_assign", k, v>>, TRUE)
      PROVE  PM!Sound' /\ MapCall
  <2>1. PM!Sound' /\ expected' = Append(expected, <<k, v>>) /\ pc = "idle" /\ size < OtherCapacity
    BY <1>5, MapPush
  <2>2. k \notin KeysIn(expected) /\ Len(expected) < OtherCapacity
    BY <1>5, <2>1, MapSearch, MapVector
  <2>3. MapMissed
    BY <1>5, <2>1, <2>2 DEF MapMissed
  <2> QED BY <2>1, <2>3 DEF MapCall
<1>6. ASSUME NEW k \in Keys, NEW v \in Mapped, Map!WriteAt(k, v) PROVE PM!Sound' /\ MapCall
  BY <1>4, <1>6 DEF Map!WriteAt
<1>7. ASSUME NEW k \in Keys, NEW v \in Mapped, Map!insert(k, v) PROVE PM!Sound' /\ MapCall
  <2>1. CASE Map!contains(k) /\ Map!Unchanged
    <3>0. PM!Sound' /\ expected' = expected /\ pc = "idle"
      BY <2>1, MapUnchanged
    <3>1. PICK i \in 0 .. Len(expected) - 1 : expected[i + 1][1] = k
      BY <2>1, <3>0, MapSearch
    <3>2. (~Map!contains(k)) = FALSE
      BY <2>1
    <3>3. Map!Answer(<<"insert", k, v>>, FALSE)
      BY <1>7, <3>2 DEF Map!insert
    <3>4. MapMet(i)
      BY <3>0, <3>1, <3>3 DEF MapMet
    <3> QED BY <3>0, <3>4 DEF MapCall
  <2>2. CASE ~Map!contains(k) /\ Map!InsertNew(k, v)
    <3>1. (~Map!contains(k)) = TRUE
      BY <2>2
    <3>2. Map!Answer(<<"insert", k, v>>, TRUE)
      BY <1>7, <3>1 DEF Map!insert
    <3> QED BY <1>5, <2>2, <3>2
  <2> QED BY <1>7, <2>1, <2>2 DEF Map!insert
<1>8. ASSUME NEW k \in Keys, NEW v \in Mapped, Map!insert_or_assign(k, v)
      PROVE  PM!Sound' /\ MapCall
  <2>1. CASE Map!contains(k) /\ Map!SetSecond(Map!find(k), v)
    <3>1. (~Map!contains(k)) = FALSE
      BY <2>1
    <3>2. Map!Answer(<<"insert_or_assign", k, v>>, FALSE)
      BY <1>8, <3>1 DEF Map!insert_or_assign
    <3> QED BY <1>4, <2>1, <3>2
  <2>2. CASE ~Map!contains(k) /\ Map!InsertNew(k, v)
    <3>1. (~Map!contains(k)) = TRUE
      BY <2>2
    <3>2. Map!Answer(<<"insert_or_assign", k, v>>, TRUE)
      BY <1>8, <3>1 DEF Map!insert_or_assign
    <3> QED BY <1>5, <2>2, <3>2
  <2> QED BY <1>8, <2>1, <2>2 DEF Map!insert_or_assign
<1>9. ASSUME NEW k \in Keys, NEW v \in Mapped, Map!insert_unchecked(k, v)
      PROVE  PM!Sound' /\ MapCall
  <2>1. ~Map!contains(k) /\ Map!InsertNew(k, v) /\ Map!Answer(<<"insert", k, v>>, TRUE)
    BY <1>9 DEF Map!insert_unchecked, Map!InsertNew
  <2> QED BY <1>5, <2>1
<1>10. ASSUME NEW i \in 0 .. size, Map!eraseAt(i) PROVE PM!Sound' /\ MapCall
  <2>1. Map!V!Erase(i, i + 1) /\ i \in Int
    BY <1>10, MapVector DEF Map!eraseAt
  <2>2. /\ PM!Sound' /\ pc = "idle" /\ i \in 0 .. Len(expected) - 1
        /\ expected' = SubSeq(expected, 1, i) \o SubSeq(expected, i + 2, Len(expected))
    BY <2>1, MapErase
  <2>3. data[i] = expected[i + 1]
    BY <2>2, MapVector
  <2>4. Map!Answer(<<"erase", expected[i + 1][1]>>, 1)
    BY <1>10, <2>3 DEF Map!eraseAt
  <2>5. MapMet(i)
    BY <2>2, <2>4 DEF MapMet
  <2> QED BY <2>2, <2>5 DEF MapCall
<1>11. CASE Map!clear
  BY <1>11, MapClear DEF Map!clear, MapCall
<1>12. ASSUME NEW m \in Map!Maps, Map!Assign(m) PROVE PM!Sound' /\ MapCall
  BY <1>12, MapAssign DEF Map!Assign, MapCall
<1>13. CASE Map!V!Loop /\ UNCHANGED <<asked, answer>>
  BY <1>13, MapLoop DEF MapCall
<1> QED BY <1>1, <1>2, <1>3, <1>6, <1>7, <1>8, <1>9, <1>10, <1>11, <1>12, <1>13 DEF Map!Next
-----------------------------------------------------------------------------
(* The invariant, and what follows from it.                                 *)

\* The invariant: the vector is sound, and no key is twice in a set or a map.
ContainersInv ==
  /\ owner \in Owners
  /\ owner = "vector" => (EmptyInside \/ PV!Sound) /\ NothingAsked
  /\ owner = "objects" => (EmptyInside \/ PO!Sound) /\ NothingAsked
  /\ owner = "string" => PT!Sound /\ NothingAsked
  /\ owner = "set" => PS!Sound /\ Distinct(expected)
  /\ owner = "map" => PM!Sound /\ DistinctKeys(expected)

LEMMA ContainersInit == ASSUME Init PROVE ContainersInv
<1>1. CASE owner = "vector" /\ Vector!Init /\ NothingAsked
  BY <1>1, SameVector, Vectors, SetAssumption, MapAssumption, PV!InitIsSound DEF ContainersInv, Owners
<1>2. CASE owner = "objects" /\ Objects!Init /\ NothingAsked
  BY <1>2, SameObjects, Vectors, SetAssumption, MapAssumption, PO!InitIsSound DEF ContainersInv, Owners
<1>3. CASE owner = "string" /\ String!V!Init /\ NothingAsked
  BY <1>3, SameString, Vectors, SetAssumption, MapAssumption, PT!InitIsSound DEF ContainersInv, Owners
<1>4. CASE owner = "set" /\ Set!Init
  BY <1>4, SetInit DEF ContainersInv, Owners
<1>5. CASE owner = "map" /\ Map!Init
  BY <1>5, MapInit DEF ContainersInv, Owners
<1> QED BY <1>1, <1>2, <1>3, <1>4, <1>5 DEF Init

\* A step of a set or a map, and one that is not theirs.
LEMMA SetInvStep ==
  ASSUME PS!Sound, Distinct(expected), Set!Next
  PROVE  PS!Sound' /\ Distinct(expected')
  BY SetStep, SetVector, SetKeepsDistinct

LEMMA MapInvStep ==
  ASSUME PM!Sound, DistinctKeys(expected), Map!Next
  PROVE  PM!Sound' /\ DistinctKeys(expected')
  BY MapStep, MapVector, MapKeepsDistinct

LEMMA ContainersStep == ASSUME ContainersInv, [Next]_vars PROVE ContainersInv'
<1>1. CASE UNCHANGED vars
  <2>1. UNCHANGED <<owner, asked, answer, expected>>
    BY <1>1 DEF vars
  <2>2. /\ ~EmptyInside /\ PV!Sound => PV!Sound'
        /\ ~EmptyInside /\ PO!Sound => PO!Sound'
        /\ PT!Sound => PT!Sound'
        /\ PS!Sound => PS!Sound'
        /\ PM!Sound => PM!Sound'
    <3>1. UNCHANGED PV!vars /\ UNCHANGED PO!vars /\ UNCHANGED PT!vars /\ UNCHANGED PS!vars
          /\ UNCHANGED PM!vars
      BY <1>1 DEF vars, PV!vars, PV!call, PV!rotation, PV!moving, PO!vars, PO!call, PO!rotation,
           PO!moving, PT!vars, PT!call, PT!rotation, PT!moving, PS!vars, PS!call, PS!rotation,
           PS!moving, PM!vars, PM!call, PM!rotation, PM!moving
    <3> QED BY <3>1, Vectors, SetAssumption, MapAssumption, PV!NextIsSound, PO!NextIsSound, PT!NextIsSound, PS!NextIsSound,
               PM!NextIsSound
  <2>3. Distinct(expected) => Distinct(expected')
    BY <2>1
  <2>4. DistinctKeys(expected) => DistinctKeys(expected')
    BY <2>1
  <2> QED BY <2>1, <2>2, <2>3, <2>4 DEF ContainersInv, NothingAsked
<1>2. CASE owner' = owner /\ owner = "vector" /\ Vector!Next /\ UNCHANGED <<asked, answer>>
  BY <1>2, VectorStep DEF ContainersInv, NothingAsked
<1>3. CASE owner' = owner /\ owner = "objects" /\ Objects!Next /\ UNCHANGED <<asked, answer>>
  BY <1>3, ObjectsStep DEF ContainersInv, NothingAsked
<1>4. CASE owner' = owner /\ owner = "string" /\ String!Next /\ UNCHANGED <<asked, answer>>
  BY <1>4, StringStep DEF ContainersInv, NothingAsked
<1>5. CASE owner' = owner /\ owner = "set" /\ Set!Next
  BY <1>5, SetInvStep DEF ContainersInv
<1>6. CASE owner' = owner /\ owner = "map" /\ Map!Next
  BY <1>6, MapInvStep DEF ContainersInv
<1> QED BY <1>1, <1>2, <1>3, <1>4, <1>5, <1>6 DEF Next

LEMMA AlwaysContainersInv == Spec => []ContainersInv
<1>1. Init => ContainersInv
  BY ContainersInit
<1>2. ContainersInv /\ [Next]_vars => ContainersInv'
  BY ContainersStep
<1> QED BY <1>1, <1>2, PTL DEF Spec

LEMMA SoundContainers ==
  ASSUME ~EmptyInside, ContainersInv
  PROVE  LikeSequence /\ RotatesInside /\ Alive
<1>1. CASE PV!Sound
  BY <1>1, Vectors, SetAssumption, MapAssumption, PV!SoundVector
     DEF LikeSequence, RotatesInside, Alive, Vector!LikeSequence, Vector!RotatesInside,
         Vector!Alive, PV!LikeSequence, PV!RotatesInside, PV!Alive, Vector!Elements, PV!Elements
<1>2. CASE PO!Sound
  BY <1>2, Vectors, SetAssumption, MapAssumption, PO!SoundVector
     DEF LikeSequence, RotatesInside, Alive, Vector!LikeSequence, Vector!RotatesInside,
         Vector!Alive, PO!LikeSequence, PO!RotatesInside, PO!Alive, Vector!Elements, PO!Elements
<1>3. CASE PT!Sound
  BY <1>3, Vectors, SetAssumption, MapAssumption, PT!SoundVector
     DEF LikeSequence, RotatesInside, Alive, Vector!LikeSequence, Vector!RotatesInside,
         Vector!Alive, PT!LikeSequence, PT!RotatesInside, PT!Alive, Vector!Elements, PT!Elements
<1>4. CASE PS!Sound
  BY <1>4, Vectors, SetAssumption, MapAssumption, PS!SoundVector
     DEF LikeSequence, RotatesInside, Alive, Vector!LikeSequence, Vector!RotatesInside,
         Vector!Alive, PS!LikeSequence, PS!RotatesInside, PS!Alive, Vector!Elements, PS!Elements
<1>5. CASE PM!Sound
  BY <1>5, Vectors, SetAssumption, MapAssumption, PM!SoundVector
     DEF LikeSequence, RotatesInside, Alive, Vector!LikeSequence, Vector!RotatesInside,
         Vector!Alive, PM!LikeSequence, PM!RotatesInside, PM!Alive, Vector!Elements, PM!Elements
<1> QED BY <1>1, <1>2, <1>3, <1>4, <1>5 DEF ContainersInv, Owners

\* Whatever is inserted, erased, assigned, resized or copied, and wherever: the storage
\* of each container holds, between calls, what a sequence would.  Empty ranges go in at
\* the end only.
THEOREM AlwaysLikeSequence == ASSUME ~EmptyInside PROVE Spec => []LikeSequence
  BY AlwaysContainersInv, SoundContainers, PTL

\* slow_rotate swaps elements of the container only, if no empty range goes in before
\* the end (with one it does not: the run of MCContainersEmpty).
THEOREM AlwaysRotatesInside == ASSUME ~EmptyInside PROVE Spec => []RotatesInside
  BY AlwaysContainersInv, SoundContainers, PTL

\* No element is an object whose destructor ran, in the middle of an erasure neither.
THEOREM AlwaysAlive == ASSUME ~EmptyInside PROVE Spec => []Alive
  BY AlwaysContainersInv, SoundContainers, PTL

LEMMA DictIsHeld == ASSUME ContainersInv PROVE HoldsDict
<1>1. CASE owner = "map"
  <2>1. (IF pc = "idle" THEN Vector!Elements ELSE expected) = expected
    BY <1>1, MapVector DEF ContainersInv, Vector!Elements, Map!V!Elements
  <2> QED BY <1>1, <2>1 DEF Dict, HoldsDict, DictOf
<1>2. CASE owner = "set"
  <2>1. (IF pc = "idle" THEN Vector!Elements ELSE expected) = expected
    BY <1>2, SetVector DEF ContainersInv, Vector!Elements, Set!V!Elements
  <2> QED BY <1>2, <2>1 DEF Dict, HoldsDict, DictOf
<1>3. CASE owner \notin {"map", "set"}
  BY <1>3 DEF Dict, HoldsDict, DictOf
<1> QED BY <1>1, <1>2, <1>3

\* The others answer nothing.
LEMMA StepIsDictionary ==
  ASSUME ContainersInv, ContainersInv', HoldsDict, HoldsDict', [Next]_vars
  PROVE  [Abstract!Next]_<<Dict, asked, answer>>
<1>1. CASE UNCHANGED vars
  <2>1. UNCHANGED <<owner, pc, expected, data, size, asked, answer>>
    BY <1>1 DEF vars
  <2>2. Dict' = Dict
    BY <2>1 DEF HoldsDict, ContainersInv, Owners
  <2> QED BY <2>1, <2>2
<1>2. CASE owner = "map" /\ owner' = owner /\ Map!Next
  <2>1. MapCall
    BY <1>2, MapStep DEF ContainersInv
  <2> QED BY <1>2, <2>1, MapVector, MapIsDictionary DEF ContainersInv
<1>3. CASE owner = "set" /\ owner' = owner /\ Set!Next
  <2>1. SetCall
    BY <1>3, SetStep DEF ContainersInv
  <2> QED BY <1>3, <2>1, SetVector, SetIsDictionary DEF ContainersInv
<1>4. CASE owner \notin {"map", "set"} /\ owner' = owner /\ UNCHANGED <<asked, answer>>
  <2>1. Dict' = Dict
    BY <1>4 DEF HoldsDict
  <2> QED BY <1>4, <2>1
<1> QED BY <1>1, <1>2, <1>3, <1>4 DEF Next

LEMMA InitIsDictionary ==
  ASSUME Init
  PROVE  Abstract!Init
<1>1. ContainersInv /\ HoldsDict
  BY ContainersInit, DictIsHeld
<1>2. asked = <<"none">> /\ answer = "none"
  BY DEF Init, NothingAsked, Set!Init, Map!Init
<1>3. DOMAIN Dict \subseteq Keys /\ \A k \in DOMAIN Dict : Dict[k] \in Mapped \union Keys
  <2>1. CASE owner = "map"
    <3>1. PM!Sound /\ Dict = Map!AsFunction(expected)
      BY <1>1, <2>1 DEF ContainersInv, HoldsDict
    <3>2. expected \in Map!Maps
      <4>1. Map!Init
        BY <2>1 DEF Init
      <4> QED BY <3>1, <4>1, MapVector DEF Map!Init
    <3> QED BY <3>1, <3>2, FunctionOfMap
  <2>2. CASE owner = "set"
    <3>1. expected \in Seq(Keys) /\ Dict = [k \in Set!KeysOf(expected) |-> k]
      BY <1>1, <2>2, SetVector DEF ContainersInv, HoldsDict
    <3>2. Set!KeysOf(expected) \subseteq Keys
      BY <3>1 DEF Set!KeysOf
    <3> QED BY <3>1, <3>2
  <2>3. CASE owner \notin {"map", "set"}
    BY <1>1, <2>3 DEF HoldsDict
  <2> QED BY <2>1, <2>2, <2>3
<1> QED BY <1>2, <1>3 DEF Abstract!Init, Abstract!IsDictionary, Dict

\* The pairs of a map and the keys of a set are a dictionary: each call of find, at,
\* operator[], insert, insert_or_assign, erase, clear and of an assignment is the call of
\* the abstract one, with its answer, for every capacity and all keys and values.
THEOREM AlwaysIsDictionary == Spec => IsDictionary
<1>1. Init => Abstract!Init
  BY InitIsDictionary
<1>2. ContainersInv => HoldsDict
  BY DictIsHeld
<1>3. ContainersInv /\ ContainersInv' /\ HoldsDict /\ HoldsDict' /\ [Next]_vars
        => [Abstract!Next]_<<Dict, asked, answer>>
  BY StepIsDictionary
<1> QED BY <1>1, <1>2, <1>3, AlwaysContainersInv, PTL DEF Spec, IsDictionary, Abstract!Spec, Dict

LEMMA HeldElements ==
  ASSUME ~EmptyInside, ContainersInv, pc = "idle"
  PROVE  /\ Vector!Elements = expected
         /\ owner = "map" => expected \in Seq(Keys \X Mapped) /\ DistinctKeys(expected)
         /\ owner = "set" => expected \in Seq(Keys) /\ Distinct(expected)
         /\ owner = "vector" => expected \in Seq(Values)
         /\ owner = "string" => expected \in Seq(Values) /\ size = Len(expected)
  BY SoundContainers DEF LikeSequence, Vector!LikeSequence, ContainersInv, PV!Sound, PT!Sound,
     PS!Sound, PM!Sound, PT!Resting

LEMMA ComparedContainers ==
  ASSUME ~EmptyInside, Values \subseteq Int, ContainersInv
  PROVE  Comparisons
<1> SUFFICES ASSUME pc = "idle" PROVE Comparisons
  BY DEF Comparisons
<1>1. CASE owner = "map"
  <2>1. \A m \in Map!Maps : Map!Equal(expected, m)
                              <=> Map!AsFunction(expected) = Map!AsFunction(m)
    BY <1>1, HeldElements, MapsAre, MapComparison
  <2> QED BY <1>1, <2>1, HeldElements DEF Comparisons
<1>2. CASE owner = "set"
  <2>1. \A m \in Set!Sets : Set!Equal(expected, m) <=> Set!KeysOf(expected) = Set!KeysOf(m)
    BY <1>2, HeldElements, SetsAre, SetComparison
  <2> QED BY <1>2, <2>1, HeldElements DEF Comparisons
<1>3. CASE owner = "vector"
  <2>1. \A s \in Vector!Ranges :
          /\ Vector!Equal(expected, s) <=> expected = s
          /\ Vector!LessEqual(expected, s) /\ Vector!LessEqual(s, expected) <=> expected = s
          /\ Vector!Less(expected, s) /\ Vector!Less(s, expected) => s = <<>>
    BY <1>3, HeldElements, RangesAre, VectorComparison
  <2> QED BY <1>3, <2>1, HeldElements DEF Comparisons
<1>4. CASE owner = "string"
  <2>1. \A s \in Vector!Ranges : String!starts_with(expected, s)
                                   <=> \E n \in 0 .. size : s = SubSeq(expected, 1, n)
    BY <1>4, HeldElements, RangesAre, StringComparison
  <2> QED BY <1>4, <2>1, HeldElements DEF Comparisons
<1>5. CASE owner \notin {"map", "set", "vector", "string"}
  BY <1>5 DEF Comparisons
<1> QED BY <1>1, <1>2, <1>3, <1>4, <1>5

\* Two maps or sets are equal when they are the same function or set of keys, in
\* whatever order they keep them; <= both ways is ==; starts_with finds the prefixes.
THEOREM AlwaysComparisons ==
  ASSUME ~EmptyInside, Values \subseteq Int PROVE Spec => []Comparisons
  BY AlwaysContainersInv, ComparedContainers, PTL
-----------------------------------------------------------------------------
\* The list is one of keys.
ListTyped == list \in Seq(ListKeys)

\* The list is one of keys.
LEMMA AlwaysListTyped == ListsSpec => []ListTyped
<1>1. ListsInit => ListTyped
  BY EmptySeq DEF ListsInit, ListTyped
<1>2. ListTyped /\ [ListsNext]_list => ListTyped'
  BY DEF ListTyped, ListsNext
<1> QED BY <1>1, <1>2, PTL DEF ListsSpec

\* The keys of marked elements are numbers, as are their places.
LEMMA MarkedAre ==
  ASSUME ListTyped
  PROVE  /\ Marked \in Seq(ToSet(Marked)) /\ Len(Marked) = Len(list) /\ Len(list) \in Nat
         /\ \A i \in 1 .. Len(list) : /\ Marked[i] \in ToSet(Marked)
                                      /\ Marked[i][1] = list[i] /\ Marked[i][2] = i
         /\ \A x \in ToSet(Marked) : /\ x[1] \in Int /\ x[2] \in Int /\ x[1] \in ToSet(list)
                                     /\ \E i \in 1 .. Len(list) : x = Marked[i]
<1> DEFINE n == Len(list)
           m == [i \in DOMAIN list |-> <<list[i], i>>]
<1>1. n \in Nat /\ DOMAIN list = 1 .. n /\ \A i \in 1 .. n : list[i] \in Int
  <2>1. n \in Nat /\ DOMAIN list = 1 .. n /\ \A i \in 1 .. n : list[i] \in ListKeys
    BY ListFacts DEF ListTyped
  <2> QED BY <2>1, MetaprogramAssumption
<1>2. DOMAIN m = 1 .. n /\ \A i \in 1 .. n : m[i] = <<list[i], i>> /\ m[i][1] = list[i] /\ m[i][2] = i
  BY <1>1
<1>3. m = Marked /\ m = [i \in 1 .. n |-> m[i]]
  BY <1>1 DEF Marked
<1> HIDE DEF m, n
<1>4. \A i \in 1 .. n : m[i] \in ToSet(m)
  BY <1>2 DEF ToSet
<1>5. m \in Seq(ToSet(m)) /\ Len(m) = n
  BY <1>1, <1>3, <1>4
<1>6. \A x \in ToSet(m) : \E i \in 1 .. n : x = m[i]
  BY <1>2 DEF ToSet
<1>7. ASSUME NEW x \in ToSet(m) PROVE x[1] \in Int /\ x[2] \in Int /\ x[1] \in ToSet(list)
  <2>1. PICK i \in 1 .. n : x = m[i]
    BY <1>6
  <2>2. list[i] \in ToSet(list)
    BY <1>1 DEF ToSet
  <2> QED BY <1>1, <1>2, <2>1, <2>2
<1> QED BY <1>1, <1>2, <1>3, <1>4, <1>5, <1>6, <1>7 DEF n

\* In which order the sorts put the marked elements: by their keys, the later one of
\* the same key first.
KeyBefore == {p \in ToSet(Marked) \X ToSet(Marked) :
                p[1][1] < p[2][1] \/ (p[1][1] = p[2][1] /\ p[1][2] > p[2][2])}

\* The relations are what sort and Unique ask for.
LEMMA KeyRelations ==
  ASSUME ListTyped
  PROVE  /\ Orders(KeyLess, KeyBefore, ToSet(Marked))
         /\ Sortable(KeyLess, KeyBefore, ToSet(Marked), Marked)
         /\ \A x, y \in ToSet(Marked) : <<x, y>> \in KeyBefore => <<y, x>> \notin KeyBefore
         /\ Classes(SameKey, KeyLess, ToSet(Marked))
<1> DEFINE E == ToSet(Marked)
<1>1. \A x \in E : x[1] \in Int /\ x[2] \in Int
  BY MarkedAre
<1>2. \A x, y \in E : /\ <<x, y>> \in KeyLess <=> x[1] < y[1]
                      /\ <<x, y>> \in SameKey <=> x[1] = y[1]
                      /\ <<x, y>> \in KeyBefore <=> x[1] < y[1] \/ (x[1] = y[1] /\ x[2] > y[2])
  BY DEF KeyLess, SameKey, KeyBefore
<1>3. /\ Marked \in Seq(E) /\ Len(Marked) = Len(list) /\ Len(list) \in Nat
      /\ \A i \in 1 .. Len(list) : Marked[i] \in E /\ Marked[i][2] = i
  BY MarkedAre
<1> HIDE DEF E
<1>4. Orders(KeyLess, KeyBefore, E)
  <2>1. \A x, y, z \in E : <<x, y>> \in KeyBefore /\ <<y, z>> \in KeyBefore => <<x, z>> \in KeyBefore
    BY <1>1, <1>2
  <2>2. \A x, y \in E : <<x, y>> \in KeyBefore => <<y, x>> \notin KeyLess
    BY <1>1, <1>2
  <2>3. \A x, y, z \in E : <<x, z>> \in KeyLess => <<x, y>> \in KeyLess \/ <<y, z>> \in KeyLess
    BY <1>1, <1>2
  <2> QED BY <2>1, <2>2, <2>3 DEF Orders
<1>5. Sortable(KeyLess, KeyBefore, E, Marked)
  <2> SUFFICES ASSUME NEW i \in 1 .. Len(list), NEW j \in 1 .. Len(list), i < j
               PROVE  Fits(KeyLess, KeyBefore, Marked[i], Marked[j])
    BY <1>3 DEF Sortable
  <2>1. Marked[i] \in E /\ Marked[j] \in E /\ Marked[i][2] = i /\ Marked[j][2] = j
    BY <1>3
  <2> QED BY <1>1, <1>2, <2>1 DEF Fits
<1>6. \A x, y \in E : <<x, y>> \in KeyBefore => <<y, x>> \notin KeyBefore
  BY <1>1, <1>2
<1>7. Classes(SameKey, KeyLess, E)
  BY <1>1, <1>2 DEF Classes
<1> QED BY <1>4, <1>5, <1>6, <1>7 DEF E

\* What sort, Sort and Unique make of it.
LEMMA SortsList == ASSUME ListTyped PROVE Sorts
<1> DEFINE E == ToSet(Marked)
           n == Len(list)
           s == sort(KeyLess, Marked)
           z == Sort(KeyLess, Marked)
           u == Unique(SameKey, s)
<1>1. /\ Marked \in Seq(E) /\ Len(Marked) = n /\ n \in Nat
      /\ \A i \in 1 .. n : Marked[i] \in E /\ Marked[i][1] = list[i]
      /\ \A x \in E : x[1] \in Int /\ x[2] \in Int /\ x[1] \in ToSet(list)
  BY MarkedAre
<1>2. \A x, y \in E : /\ <<x, y>> \in KeyLess <=> x[1] < y[1]
                      /\ <<x, y>> \in SameKey <=> x[1] = y[1]
                      /\ <<x, y>> \in KeyBefore <=> x[1] < y[1] \/ (x[1] = y[1] /\ x[2] > y[2])
  BY DEF KeyLess, SameKey, KeyBefore
<1>3. /\ Orders(KeyLess, KeyBefore, E) /\ Sortable(KeyLess, KeyBefore, E, Marked)
      /\ \A x, y \in E : <<x, y>> \in KeyBefore => <<y, x>> \notin KeyBefore
      /\ Classes(SameKey, KeyLess, E)
  BY KeyRelations
<1>4. Firsts(Marked, Len(Marked)) = E
  <2>1. DOMAIN Marked = 1 .. Len(Marked)
    BY <1>1, ListFacts
  <2> QED BY <2>1 DEF Firsts, ToSet
<1> HIDE DEF E, n, s, z, u
<1>5. s \in Seq(E) /\ Len(s) = n /\ ToSet(s) = E /\ InOrder(KeyBefore, s)
  <2>1. SortedFirst(KeyBefore, E, Marked, Len(Marked), s)
    BY <1>3, SortSorts DEF s
  <2> QED BY <1>1, <1>4, <2>1 DEF SortedFirst
<1>6. z = s
  <2>1. SortedFirst(KeyBefore, E, Marked, Len(Marked), z)
    BY <1>3, MplSortSorts DEF z
  <2>2. z \in Seq(E) /\ Len(z) = n /\ ToSet(z) = E /\ InOrder(KeyBefore, z)
    BY <1>1, <1>4, <2>1 DEF SortedFirst
  <2> QED BY <1>3, <1>5, <2>2, SortedOnce
<1>7. DOMAIN s = 1 .. n /\ \A i \in 1 .. n : s[i] \in E
  BY <1>5, ListFacts
<1>8. \A i, j \in DOMAIN s : i < j => s[i][1] < s[j][1] \/ (s[i][1] = s[j][1] /\ s[i][2] > s[j][2])
  <2> SUFFICES ASSUME NEW i \in 1 .. n, NEW j \in 1 .. n, i < j
               PROVE  s[i][1] < s[j][1] \/ (s[i][1] = s[j][1] /\ s[i][2] > s[j][2])
    BY <1>7
  <2>1. <<s[i], s[j]>> \in KeyBefore
    BY <1>5 DEF InOrder
  <2> QED BY <1>2, <1>7, <2>1
<1>9. /\ u \in Seq(E) /\ InOrder(KeyLess, u) /\ ToSet(u) \subseteq ToSet(s)
      /\ \A x \in ToSet(s) : \E y \in ToSet(u) : <<x, y>> \in SameKey
  <2>1. InClasses(SameKey, KeyLess, s)
    <3> SUFFICES ASSUME NEW i \in 1 .. n - 1
                 PROVE  <<s[i], s[i + 1]>> \in SameKey \/ <<s[i], s[i + 1]>> \in KeyLess
      BY <1>5 DEF InClasses
    <3>1. i \in 1 .. n /\ i + 1 \in 1 .. n /\ i < i + 1
      BY <1>1
    <3>2. <<s[i], s[i + 1]>> \in KeyBefore
      BY <1>5, <3>1 DEF InOrder
    <3> QED BY <1>2, <1>7, <3>1, <3>2
  <2>2. u = Unique(SameKey, s) /\ s \in Seq(E) /\ Classes(SameKey, KeyLess, E)
    BY <1>3, <1>5 DEF u
  <2> QED BY <2>1, <2>2, UniqueLeavesOne
<1>10. DOMAIN u = 1 .. Len(u) /\ ToSet(u) \subseteq E /\ \A i \in 1 .. Len(u) : u[i] \in E
  BY <1>5, <1>9, ListFacts
<1>11. \A i, j \in DOMAIN u : i < j => u[i][1] < u[j][1]
  <2> SUFFICES ASSUME NEW i \in 1 .. Len(u), NEW j \in 1 .. Len(u), i < j
               PROVE  u[i][1] < u[j][1]
    BY <1>10
  <2>1. <<u[i], u[j]>> \in KeyLess
    BY <1>9 DEF InOrder
  <2> QED BY <1>2, <1>10, <2>1
<1>12. {u[i][1] : i \in DOMAIN u} = ToSet(list)
  <2>1. \A i \in DOMAIN u : u[i][1] \in ToSet(list)
    BY <1>1, <1>10
  <2>2. ASSUME NEW k \in ToSet(list) PROVE \E i \in DOMAIN u : k = u[i][1]
    <3>1. PICK i \in 1 .. n : k = list[i]
      <4>1. DOMAIN list = 1 .. n
        BY ListFacts DEF ListTyped, n
      <4> QED BY <4>1 DEF ToSet
    <3>2. Marked[i] \in ToSet(s) /\ Marked[i][1] = k
      BY <1>1, <1>5, <3>1
    <3>3. PICK y \in ToSet(u) : <<Marked[i], y>> \in SameKey
      BY <1>9, <3>2
    <3>4. y[1] = k
      BY <1>2, <1>5, <1>10, <3>2, <3>3
    <3> QED BY <3>4 DEF ToSet
  <2> QED BY <2>1, <2>2
<1>13. /\ ToSet(s) = ToSet(Marked) /\ Len(s) = Len(list)
       /\ \A i, j \in DOMAIN s : i < j => s[i][1] < s[j][1] \/ (s[i][1] = s[j][1] /\ s[i][2] > s[j][2])
       /\ Sort(KeyLess, Marked) = s
       /\ \A i, j \in DOMAIN u : i < j => u[i][1] < u[j][1]
       /\ {u[i][1] : i \in DOMAIN u} = ToSet(list) /\ ToSet(u) \subseteq ToSet(s)
  <2>1. ToSet(s) = ToSet(Marked) /\ Len(s) = Len(list) /\ Sort(KeyLess, Marked) = s
    BY <1>5, <1>6 DEF E, n, z
  <2> QED BY <1>8, <1>9, <1>11, <1>12, <2>1
<1> QED BY <1>13, Zenon DEF Sorts, s, u

\* Both sorts give every list in order and Unique one of each key, for any keys and any
\* number of elements taken at once.
THEOREM AlwaysSorts == ListsSpec => []Sorts
  BY AlwaysListTyped, SortsList, PTL
-----------------------------------------------------------------------------
\* CountIf counts the places of the elements with P.
LEMMA Counts ==
  ASSUME NEW X, NEW s \in Seq(X), NEW P
  PROVE  CountIf(P, s) = Cardinality({i \in 1 .. Len(s) : s[i] \in P})
<1> DEFINE n == Len(s)
           C(i) == {j \in 1 .. i : s[j] \in P}
           Fcn(g) == g = [i \in 0 .. n |-> IF i = 0 THEN 0 ELSE g[i - 1] + (IF s[i] \in P THEN 1 ELSE 0)]
           f == CHOOSE g : Fcn(g)
           all == [i \in 0 .. n |-> Cardinality(C(i))]
<1>0. n \in Nat
  OBVIOUS
<1>1. \A i \in 0 .. n : IsFiniteSet(C(i)) /\ Cardinality(C(i)) \in Nat
  <2> SUFFICES ASSUME NEW i \in 0 .. n PROVE IsFiniteSet(C(i)) /\ Cardinality(C(i)) \in Nat
    OBVIOUS
  <2>1. IsFiniteSet(1 .. i)
    BY FS_Interval
  <2>2. C(i) \subseteq 1 .. i
    OBVIOUS
  <2> HIDE DEF C
  <2>3. IsFiniteSet(C(i))
    BY <2>1, <2>2, FS_Subset
  <2> QED BY <2>3, FS_CardinalityType
<1>2. CountIf(P, s) = f[n]
  BY DEF CountIf
<1>3. ASSUME NEW i \in 0 .. n
      PROVE  all[i] = IF i = 0 THEN 0 ELSE all[i - 1] + (IF s[i] \in P THEN 1 ELSE 0)
  <2>0. all[i] = Cardinality(C(i))
    OBVIOUS
  <2>1. CASE i = 0
    <3>1. C(0) = {}
      OBVIOUS
    <3> HIDE DEF C
    <3> QED BY <2>0, <2>1, <3>1, FS_EmptySet
  <2>2. CASE i # 0
    <3>1. i - 1 \in 0 .. n /\ i \in 1 .. i /\ \A j \in 1 .. i : j = i \/ j \in 1 .. i - 1
      BY <2>2
    <3>2. \A j \in 1 .. i - 1 : j \in 1 .. i /\ j # i
      OBVIOUS
    <3>3. all[i - 1] = Cardinality(C(i - 1))
      BY <3>1
    <3>4. IsFiniteSet(C(i - 1)) /\ Cardinality(C(i - 1)) \in Nat
      <4> HIDE DEF C
      <4> QED BY <1>1, <3>1
    <3>5. CASE s[i] \in P
      <4>1. C(i) = C(i - 1) \cup {i} /\ i \notin C(i - 1)
        BY <3>1, <3>2, <3>5
      <4> DEFINE a == C(i - 1)
                 b == C(i)
      <4>2. b = a \cup {i} /\ i \notin a /\ IsFiniteSet(a)
        BY <3>4, <4>1
      <4> HIDE DEF a, b
      <4>3. Cardinality(b) = Cardinality(a) + 1
        BY <4>2, FS_AddElement
      <4>4. Cardinality(C(i)) = Cardinality(C(i - 1)) + 1
        BY <4>3 DEF a, b
      <4> HIDE DEF all, C
      <4> QED BY <2>0, <2>2, <3>3, <3>5, <4>4
    <3>6. CASE s[i] \notin P
      <4>1. C(i) = C(i - 1)
        BY <3>1, <3>2, <3>6
      <4> HIDE DEF all, C
      <4> QED BY <2>0, <2>2, <3>3, <3>4, <3>6, <4>1
    <3> QED BY <3>5, <3>6
  <2> QED BY <2>1, <2>2
<1> HIDE DEF C
<1>4. Fcn(f)
  <2>1. Fcn(all)
    <3>1. all = [i \in 0 .. n |-> all[i]]
      OBVIOUS
    <3> HIDE DEF all
    <3> QED BY <1>3, <3>1
  <2> HIDE DEF Fcn, all
  <2> QED BY <2>1, Zenon
<1> HIDE DEF f
<1>5. \A i \in 0 .. n : f[i] = all[i]
  <2> DEFINE S == {i \in 0 .. n : f[i] = all[i]}
  <2>1. ASSUME NEW i \in 0 .. n, \A j \in 0 .. i - 1 : j \in S PROVE i \in S
    <3>1. f[i] = IF i = 0 THEN 0 ELSE f[i - 1] + (IF s[i] \in P THEN 1 ELSE 0)
      BY <1>4
    <3>2. i # 0 => i - 1 \in 0 .. i - 1
      OBVIOUS
    <3> HIDE DEF Fcn, all
    <3> QED BY <1>3, <2>1, <3>1, <3>2
  <2>2. \A i \in 0 .. n : i \in S
    <3> HIDE DEF S
    <3> QED BY <1>0, <2>1, InductionUp
  <2> QED BY <2>2
<1>6. f[n] = Cardinality(C(n))
  <2>1. n \in 0 .. n
    BY <1>0
  <2> QED BY <1>5, <2>1
<1> QED BY <1>2, <1>6 DEF C

\* The elements other than d, one place after the other.
LEMMA OthersAre ==
  ASSUME NEW X, NEW s \in Seq(X), NEW d
  PROVE  /\ Others(s, d)[0] = <<>>
         /\ \A i \in 1 .. Len(s) :
              Others(s, d)[i] = IF s[i] = d THEN Others(s, d)[i - 1]
                                ELSE Append(Others(s, d)[i - 1], s[i])
         /\ \A i \in 0 .. Len(s) : Others(s, d)[i] \in Seq(X)
<1> DEFINE n == Len(s)
           Fcn(g) == g = [i \in 0 .. n |-> IF i = 0 THEN <<>>
                            ELSE IF s[i] = d THEN g[i - 1] ELSE Append(g[i - 1], s[i])]
           f == CHOOSE g : Fcn(g)
           step == [p \in Seq(X) \X (1 .. n) |-> IF s[p[2]] = d THEN p[1] ELSE Append(p[1], s[p[2]])]
<1>0. n \in Nat /\ (\A i \in 1 .. n : s[i] \in X) /\ <<>> \in Seq(X)
  OBVIOUS
<1>1. Others(s, d) = f
  BY DEF Others
<1>2. step \in [Seq(X) \X (1 .. n) -> Seq(X)]
  <2>1. \A x \in Seq(X), i \in 1 .. n : (IF s[i] = d THEN x ELSE Append(x, s[i])) \in Seq(X)
    BY <1>0, AppendProperties
  <2> QED BY <2>1
<1>3. \A x \in Seq(X), i \in 1 .. n : step[<<x, i>>] = IF s[i] = d THEN x ELSE Append(x, s[i])
  OBVIOUS
<1> HIDE DEF step
<1>4. PICK g \in [0 .. n -> Seq(X)] : RecursTo(n, g, <<>>, step)
  BY <1>0, <1>2, RecursionTo
<1>5. ASSUME NEW i \in 0 .. n
      PROVE  g[i] = IF i = 0 THEN <<>> ELSE IF s[i] = d THEN g[i - 1] ELSE Append(g[i - 1], s[i])
  <2>1. CASE i = 0
    BY <1>4, <2>1 DEF RecursTo
  <2>2. CASE i # 0
    <3>1. i - 1 \in 0 .. n /\ i \in 1 .. n
      BY <2>2
    <3>2. g[i] = step[<<g[i - 1], i>>] /\ g[i - 1] \in Seq(X)
      BY <1>4, <3>1 DEF RecursTo
    <3> QED BY <1>3, <2>2, <3>1, <3>2
  <2> QED BY <2>1, <2>2
<1>6. Fcn(f)
  <2>1. Fcn(g)
    BY <1>5
  <2> HIDE DEF Fcn
  <2> QED BY <2>1, Zenon
<1> HIDE DEF f
<1>7. ASSUME NEW i \in 0 .. n
      PROVE  f[i] = IF i = 0 THEN <<>> ELSE IF s[i] = d THEN f[i - 1] ELSE Append(f[i - 1], s[i])
  BY <1>6
<1> HIDE DEF Fcn
<1>8. \A i \in 0 .. n : f[i] \in Seq(X)
  <2> DEFINE S == {i \in 0 .. n : f[i] \in Seq(X)}
  <2>1. ASSUME NEW i \in 0 .. n, \A j \in 0 .. i - 1 : j \in S PROVE i \in S
    <3>1. i # 0 => i - 1 \in 0 .. i - 1 /\ i \in 1 .. n
      OBVIOUS
    <3>2. CASE i = 0
      BY <1>0, <1>7, <3>2
    <3>3. CASE i # 0
      <4>1. f[i - 1] \in Seq(X) /\ s[i] \in X
        BY <1>0, <2>1, <3>1, <3>3
      <4>2. Append(f[i - 1], s[i]) \in Seq(X)
        BY <4>1, AppendProperties
      <4> QED BY <1>7, <3>3, <4>1, <4>2
    <3> QED BY <3>2, <3>3
  <2>2. \A i \in 0 .. n : i \in S
    <3> HIDE DEF S
    <3> QED BY <1>0, <2>1, InductionUp
  <2> QED BY <2>2
<1>9. f[0] = <<>>
  <2>1. 0 \in 0 .. n
    BY <1>0
  <2> QED BY <1>7, <2>1
<1>10. \A i \in 1 .. n : f[i] = IF s[i] = d THEN f[i - 1] ELSE Append(f[i - 1], s[i])
  <2>1. \A i \in 1 .. n : i \in 0 .. n /\ i # 0
    OBVIOUS
  <2> QED BY <1>7, <2>1
<1> QED BY <1>1, <1>8, <1>9, <1>10

\* remove_if keeps them.
LEMMA Removes ==
  ASSUME NEW X, NEW s \in Seq(X), NEW d
  PROVE  remove_if({d}, s) = Others(s, d)[Len(s)]
<1> DEFINE n == Len(s)
           ss == [i \in 1 .. n |-> IF s[i] \in {d} THEN <<>> ELSE <<s[i]>>]
           o == Others(s, d)
<1>0. n \in Nat /\ DOMAIN s = 1 .. n /\ (\A i \in 1 .. n : s[i] \in X)
  OBVIOUS
<1>1. /\ ss \in Seq(Seq(X)) /\ Len(ss) = n
      /\ \A i \in 1 .. n : ss[i] = IF s[i] = d THEN <<>> ELSE <<s[i]>>
  <2>1. \A i \in 1 .. n : (IF s[i] \in {d} THEN <<>> ELSE <<s[i]>>) \in Seq(X)
    BY <1>0
  <2> QED BY <1>0, <2>1
<1>2. remove_if({d}, s) = FlattenSeq(ss)
  BY <1>0 DEF remove_if, append
<1> HIDE DEF ss
<1>3. PICK f \in [0 .. n -> Seq(X)] : Flattens(ss, f) /\ FlattenSeq(ss) = f[n]
  BY <1>1, FlattensTo
<1>4. /\ o[0] = <<>>
      /\ \A i \in 1 .. n : o[i] = IF s[i] = d THEN o[i - 1] ELSE Append(o[i - 1], s[i])
      /\ \A i \in 0 .. n : o[i] \in Seq(X)
  BY OthersAre, Zenon
<1> HIDE DEF o
<1> DEFINE S == {i \in 0 .. n : f[i] = o[i]}
<1>5. 0 \in S
  BY <1>0, <1>3, <1>4 DEF Flattens
<1>6. \A i \in 1 .. n : i - 1 \in S => i \in S
  <2> SUFFICES ASSUME NEW i \in 1 .. n, f[i - 1] = o[i - 1] PROVE f[i] = o[i]
    <3>1. \A i \in 1 .. n : i \in 0 .. n
      OBVIOUS
    <3> QED BY <3>1
  <2>1. f[i] = f[i - 1] \o ss[i] /\ i - 1 \in 0 .. n /\ s[i] \in X
    <3>1. i \in 1 .. Len(ss) /\ i - 1 \in 0 .. n
      BY <1>1
    <3>2. f[i] = f[i - 1] \o ss[i]
      BY <1>3, <3>1, Zenon DEF Flattens
    <3> QED BY <1>0, <3>1, <3>2
  <2> DEFINE x == o[i - 1]
  <2>2. x \in Seq(X)
    BY <1>4, <2>1
  <2> HIDE DEF x
  <2>3. x \o <<>> = x /\ x \o <<s[i]>> = Append(x, s[i])
    BY <2>1, <2>2
  <2>4. f[i] = x \o ss[i] /\ o[i] = IF s[i] = d THEN x ELSE Append(x, s[i])
    BY <1>4, <2>1 DEF x
  <2> QED BY <1>1, <2>3, <2>4
<1>7. n \in S
  <2>1. n \in 0 .. n
    BY <1>0
  <2> HIDE DEF S
  <2> QED BY <1>0, <1>5, <1>6, <2>1, InductionTo
<1> QED BY <1>2, <1>3, <1>7 DEF o
-----------------------------------------------------------------------------
\* The places up to i where a group begins.
Starts(s, d, i) == {j \in 1 .. i : s[j] # d /\ (j = 1 \/ s[j - 1] = d)}

\* They are finitely many.
LEMMA StartsAre ==
  ASSUME NEW s, NEW d, NEW i \in Nat
  PROVE  IsFiniteSet(Starts(s, d, i)) /\ Cardinality(Starts(s, d, i)) \in Nat
<1>1. IsFiniteSet(1 .. i)
  BY FS_Interval
<1>2. Starts(s, d, i) \subseteq 1 .. i
  BY DEF Starts
<1>3. IsFiniteSet(Starts(s, d, i))
  BY <1>1, <1>2, FS_Subset
<1> QED BY <1>3, FS_CardinalityType

\* A place more, and where it begins a group a group more.
LEMMA StartsMore ==
  ASSUME NEW s, NEW d, NEW i \in Nat \ {0}
  PROVE  Cardinality(Starts(s, d, i))
           = Cardinality(Starts(s, d, i - 1))
               + (IF s[i] # d /\ (i = 1 \/ s[i - 1] = d) THEN 1 ELSE 0)
<1> DEFINE a == Starts(s, d, i - 1)
           b == Starts(s, d, i)
<1>1. i - 1 \in Nat /\ i \in 1 .. i /\ \A j \in 1 .. i : j = i \/ j \in 1 .. i - 1
  OBVIOUS
<1>2. \A j \in 1 .. i - 1 : j \in 1 .. i /\ j # i
  OBVIOUS
<1>3. IsFiniteSet(a) /\ Cardinality(a) \in Nat
  BY <1>1, StartsAre
<1>4. CASE s[i] # d /\ (i = 1 \/ s[i - 1] = d)
  <2>1. b = a \cup {i} /\ i \notin a
    BY <1>1, <1>2, <1>4 DEF Starts
  <2> HIDE DEF a, b
  <2>2. Cardinality(b) = Cardinality(a) + 1
    BY <1>3, <2>1, FS_AddElement
  <2> QED BY <1>4, <2>2 DEF a, b
<1>5. CASE ~(s[i] # d /\ (i = 1 \/ s[i - 1] = d))
  <2>1. b = a
    BY <1>1, <1>2, <1>5 DEF Starts
  <2> HIDE DEF a, b
  <2>2. Cardinality(b) = Cardinality(a) + 0
    BY <1>3, <2>1
  <2> QED BY <1>5, <2>2 DEF a, b
<1> QED BY <1>4, <1>5

\* What a state of split has of the list up to i.
Grouped(s, d, r, i) ==
  /\ FlattenSeq(r.out) \o r.cur = Others(s, d)[i]
  /\ \A j \in 1 .. Len(r.out) : r.out[j] # <<>>
  /\ Len(r.out) + (IF r.cur = <<>> THEN 0 ELSE 1) = Cardinality(Starts(s, d, i))
  /\ r.cur = <<>> <=> i = 0 \/ s[i] = d

\* Groups closed are groups open put behind the others.
ClosedGroups(Y, out, cur, gs) ==
  /\ gs \in Seq(Seq(Y)) /\ FlattenSeq(gs) = FlattenSeq(out) \o cur /\ FlattenSeq(gs) \in Seq(Y)
  /\ \A j \in 1 .. Len(gs) : gs[j] # <<>>
  /\ Len(gs) = Len(out) + (IF cur = <<>> THEN 0 ELSE 1)
  /\ \A j \in 1 .. Len(out) : gs[j] = out[j]

\* They are.
LEMMA Closes ==
  ASSUME NEW Y, NEW out \in Seq(Seq(Y)), NEW cur \in Seq(Y), NEW gs, gs = EndGroup(out, cur),
         \A j \in 1 .. Len(out) : out[j] # <<>>
  PROVE  ClosedGroups(Y, out, cur, gs)
<1>1. FlattenSeq(out) \in Seq(Y) /\ Len(out) \in Nat
  BY FlattenedElements
<1>2. CASE cur = <<>>
  <2>1. gs = out
    BY <1>2 DEF EndGroup
  <2> DEFINE x == FlattenSeq(out)
  <2>2. x \in Seq(Y)
    BY <1>1
  <2> HIDE DEF x
  <2>3. x \o <<>> = x
    BY <2>2
  <2> QED BY <1>1, <1>2, <2>1, <2>3 DEF x, ClosedGroups
<1>3. CASE cur # <<>>
  <2>1. gs = Append(out, cur)
    BY <1>3 DEF EndGroup
  <2>2. /\ gs \in Seq(Seq(Y)) /\ Len(gs) = Len(out) + 1 /\ gs[Len(out) + 1] = cur
        /\ \A j \in 1 .. Len(out) : gs[j] = out[j]
    BY <2>1, AppendProperties
  <2>3. \A j \in 1 .. Len(gs) : gs[j] # <<>>
    <3>1. \A j \in 1 .. Len(gs) : j \in 1 .. Len(out) \/ j = Len(out) + 1
      BY <1>1, <2>2
    <3> QED BY <1>3, <2>2, <3>1
  <2>4. FlattenSeq(gs) = FlattenSeq(out) \o cur
    BY <2>1, FlattenedAppend
  <2>5. FlattenSeq(gs) \in Seq(Y)
    BY <2>2, FlattenedElements
  <2> QED BY <1>3, <2>2, <2>3, <2>4, <2>5 DEF ClosedGroups
<1> QED BY <1>2, <1>3

\* What a step makes of the state r at the element t.
Stepped(Y, d, t, r, q) ==
  /\ q \in SplitState(Y)
  /\ t = d => q.out = EndGroup(r.out, r.cur) /\ q.cur = <<>>
  /\ t # d => q.out = r.out /\ q.cur = Append(r.cur, t)

\* It does.
LEMMA SplitSteps ==
  ASSUME NEW X, NEW d, NEW t \in X, NEW r \in SplitState(X \ {d}), NEW q, q = SplitStep(r, t, d)
  PROVE  Stepped(X \ {d}, d, t, r, q)
<1>1. q \in SplitState(X \ {d})
  BY SplitStepType
<1>2. t = d => q.out = EndGroup(r.out, r.cur) /\ q.cur = <<>>
  BY DEF SplitStep
<1>3. t # d => q.out = r.out /\ q.cur = Append(r.cur, t)
  BY DEF SplitStep, SplitState
<1> QED BY <1>1, <1>2, <1>3, Zenon DEF Stepped

\* A step has one element more.
LEMMA GroupedStep ==
  ASSUME NEW X, NEW s \in Seq(X), NEW d, NEW i \in 1 .. Len(s),
         NEW r \in SplitState(X \ {d}), Grouped(s, d, r, i - 1),
         NEW q, q = SplitStep(r, s[i], d)
  PROVE  Grouped(s, d, q, i)
<1> DEFINE Y == X \ {d}
           t == s[i]
           o == Others(s, d)
           c == Cardinality(Starts(s, d, i))
           b == Cardinality(Starts(s, d, i - 1))
<1>0. i \in Nat \ {0} /\ i - 1 \in Nat /\ t \in X /\ i # 0
  OBVIOUS
<1>1. /\ q \in SplitState(Y)
      /\ t = d => q.out = EndGroup(r.out, r.cur) /\ q.cur = <<>>
      /\ t # d => q.out = r.out /\ q.cur = Append(r.cur, t)
  <2>1. q = SplitStep(r, t, d)
    OBVIOUS
  <2> HIDE DEF t
  <2>2. Stepped(X \ {d}, d, t, r, q)
    BY <1>0, <2>1, SplitSteps
  <2> QED BY <2>2 DEF Stepped
<1>2. r.out \in Seq(Seq(Y)) /\ r.cur \in Seq(Y)
  BY DEF SplitState
<1>3. /\ FlattenSeq(r.out) \o r.cur = o[i - 1]
      /\ \A j \in 1 .. Len(r.out) : r.out[j] # <<>>
      /\ Len(r.out) + (IF r.cur = <<>> THEN 0 ELSE 1) = b
      /\ r.cur = <<>> <=> i - 1 = 0 \/ s[i - 1] = d
  BY DEF Grouped
<1>4. c = b + (IF t # d /\ (i = 1 \/ s[i - 1] = d) THEN 1 ELSE 0) /\ b \in Nat
  <2>1. b \in Nat
    BY <1>0, StartsAre
  <2>2. c = b + (IF t # d /\ (i = 1 \/ s[i - 1] = d) THEN 1 ELSE 0)
    BY <1>0, StartsMore
  <2> QED BY <2>1, <2>2
<1>5. o[i] = IF t = d THEN o[i - 1] ELSE Append(o[i - 1], t)
  BY OthersAre
<1> HIDE DEF c, b, o, Y
<1>6. CASE t = d
  <2> DEFINE gs == EndGroup(r.out, r.cur)
  <2>1. /\ gs \in Seq(Seq(Y)) /\ FlattenSeq(gs) = FlattenSeq(r.out) \o r.cur /\ FlattenSeq(gs) \in Seq(Y)
        /\ \A j \in 1 .. Len(gs) : gs[j] # <<>>
        /\ Len(gs) = Len(r.out) + (IF r.cur = <<>> THEN 0 ELSE 1)
    <3>1. ClosedGroups(Y, r.out, r.cur, gs)
      BY <1>2, <1>3, Closes
    <3> HIDE DEF gs
    <3> QED BY <3>1 DEF ClosedGroups
  <2> HIDE DEF gs
  <2>2. q.out = gs /\ q.cur = <<>>
    BY <1>1, <1>6 DEF gs
  <2> DEFINE x == FlattenSeq(gs)
  <2>3. x \in Seq(Y)
    BY <2>1
  <2> HIDE DEF x
  <2>4. x \o <<>> = x
    BY <2>3
  <2>5. x = o[i]
    BY <1>3, <1>5, <1>6, <2>1 DEF x
  <2>6. Len(gs) \in Nat /\ Len(gs) + 0 = c
    BY <1>3, <1>4, <1>6, <2>1
  <2>7. FlattenSeq(q.out) \o q.cur = o[i]
    BY <2>2, <2>4, <2>5 DEF x
  <2>8. Len(q.out) + (IF q.cur = <<>> THEN 0 ELSE 1) = c
    BY <2>2, <2>6
  <2>9. \A j \in 1 .. Len(q.out) : q.out[j] # <<>>
    BY <2>1, <2>2
  <2>10. q.cur = <<>> <=> i = 0 \/ s[i] = d
    BY <1>6, <2>2
  <2> QED BY <2>7, <2>8, <2>9, <2>10 DEF Grouped, c, o
<1>7. CASE t # d
  <2>1. q.out = r.out /\ q.cur = Append(r.cur, t)
    BY <1>1, <1>7
  <2> DEFINE x == FlattenSeq(r.out)
             y == r.cur
             n == Len(r.out)
  <2>2. x \in Seq(Y) /\ y \in Seq(Y) /\ t \in Y /\ n \in Nat
    <3>1. x \in Seq(Y)
      BY <1>2, FlattenedElements
    <3> HIDE DEF x
    <3> QED BY <1>0, <1>2, <1>7, <3>1 DEF Y
  <2>3. x \o y = o[i - 1] /\ o[i] = Append(o[i - 1], t)
    BY <1>3, <1>5, <1>7
  <2>4. n + (IF y = <<>> THEN 0 ELSE 1) = b /\ (y = <<>> <=> i = 1 \/ s[i - 1] = d)
    <3>1. i - 1 = 0 <=> i = 1
      BY <1>0
    <3> QED BY <1>3, <3>1
  <2> HIDE DEF x, y, n
  <2>5. x \o Append(y, t) = Append(x \o y, t) /\ Append(y, t) # <<>>
    <3> HIDE DEF t
    <3>1. Append(y, t) # <<>>
      <4>1. Len(Append(y, t)) = Len(y) + 1 /\ Len(y) \in Nat /\ Len(<<>>) = 0
        BY <2>2
      <4> DEFINE z == Append(y, t)
      <4>2. Len(z) # 0
        BY <4>1
      <4> HIDE DEF z
      <4> QED BY <4>1, <4>2 DEF z
    <3> DEFINE u == x \o Append(y, t)
               v == Append(x \o y, t)
    <3>2. /\ u \in Seq(Y) /\ Len(u) = Len(x) + Len(y) + 1
          /\ v \in Seq(Y) /\ Len(v) = Len(x) + Len(y) + 1
          /\ Len(x) \in Nat /\ Len(y) \in Nat
      BY <2>2
    <3>3. \A k \in 1 .. Len(x) + Len(y) + 1 : u[k] = v[k]
      BY <2>2
    <3> HIDE DEF u, v
    <3>4. u = v
      BY <3>2, <3>3, SameList
    <3> QED BY <3>1, <3>4 DEF u, v
  <2>6. n + 1 = c
    <3>1. CASE y = <<>>
      BY <1>4, <1>7, <2>2, <2>4, <3>1
    <3>2. CASE y # <<>>
      BY <1>4, <1>7, <2>2, <2>4, <3>2
    <3> QED BY <3>1, <3>2
  <2>7. q.cur = Append(y, t) /\ FlattenSeq(q.out) = x /\ Len(q.out) = n
    BY <2>1 DEF x, y, n
  <2>8. FlattenSeq(q.out) \o q.cur = o[i]
    BY <2>3, <2>5, <2>7
  <2>9. Len(q.out) + (IF q.cur = <<>> THEN 0 ELSE 1) = c
    BY <2>5, <2>6, <2>7
  <2>10. \A j \in 1 .. Len(q.out) : q.out[j] # <<>>
    BY <1>3, <2>1
  <2>11. q.cur = <<>> <=> i = 0 \/ s[i] = d
    BY <1>0, <1>7, <2>5, <2>7
  <2> QED BY <2>8, <2>9, <2>10, <2>11 DEF Grouped, c, o
<1> QED BY <1>6, <1>7

\* All states are of that kind.
LEMMA AlwaysGrouped ==
  ASSUME NEW X, NEW s \in Seq(X), NEW d, NEW f, Splits(s, d, f)
  PROVE  \A i \in 0 .. Len(s) : f[i] \in SplitState(X \ {d}) /\ Grouped(s, d, f[i], i)
<1> DEFINE n == Len(s)
           S == {i \in 0 .. n : Grouped(s, d, f[i], i)}
<1>0. n \in Nat
  OBVIOUS
<1>1. \A i \in 0 .. n : f[i] \in SplitState(X \ {d})
  BY SplitType
<1>2. 0 \in S
  <2> DEFINE r == f[0]
  <2>1. r = [out |-> <<>>, cur |-> <<>>]
    BY DEF Splits
  <2>2. r.out = <<>> /\ r.cur = <<>>
    BY <2>1
  <2> HIDE DEF r
  <2>3. FlattenSeq(<<>>) = <<>> /\ <<>> \o <<>> = <<>> /\ Len(<<>>) = 0
    BY DEF FlattenSeq
  <2>4. Others(s, d)[0] = <<>>
    BY OthersAre
  <2>5. Cardinality(Starts(s, d, 0)) = 0
    <3>1. Starts(s, d, 0) = {}
      BY DEF Starts
    <3> QED BY <3>1, FS_EmptySet
  <2>6. Grouped(s, d, r, 0)
    BY <2>2, <2>3, <2>4, <2>5 DEF Grouped
  <2> QED BY <1>0, <2>6 DEF r
<1>3. \A i \in 1 .. n : i - 1 \in S => i \in S
  <2> SUFFICES ASSUME NEW i \in 1 .. n, Grouped(s, d, f[i - 1], i - 1)
               PROVE  Grouped(s, d, f[i], i)
    <3>1. \A i \in 1 .. n : i \in 0 .. n
      OBVIOUS
    <3> QED BY <3>1
  <2> DEFINE r == f[i - 1]
             q == f[i]
  <2>1. r \in SplitState(X \ {d}) /\ Grouped(s, d, r, i - 1) /\ q = SplitStep(r, s[i], d)
    <3>1. i - 1 \in 0 .. n
      OBVIOUS
    <3> QED BY <1>1, <3>1 DEF Splits
  <2> HIDE DEF r, q
  <2>2. Grouped(s, d, q, i)
    BY <2>1, GroupedStep
  <2> QED BY <2>2 DEF q
<1>4. \A i \in 0 .. n : i \in S
  <2> HIDE DEF S
  <2> QED BY <1>0, <1>2, <1>3, InductionTo
<1> QED BY <1>1, <1>4

\* a is what b begins with.
Begins(a, b) == Len(a) <= Len(b) /\ \A j \in 1 .. Len(a) : b[j] = a[j]

\* What split gives begins with the groups closed on the way.
LEMMA GroupsBegin ==
  ASSUME NEW X, NEW s \in Seq(X), NEW d, NEW f, Splits(s, d, f),
         NEW gs, gs = EndGroup(f[Len(s)].out, f[Len(s)].cur)
  PROVE  \A i \in 0 .. Len(s) : Begins(f[i].out, gs)
<1> DEFINE n == Len(s)
           Y == X \ {d}
           S == {i \in 0 .. n : Begins(f[i].out, gs)}
<1>0. n \in Nat /\ n \in Int /\ 0 \in Int
  OBVIOUS
<1>1. \A i \in 0 .. n : /\ f[i].out \in Seq(Seq(Y)) /\ f[i].cur \in Seq(Y)
                        /\ \A j \in 1 .. Len(f[i].out) : f[i].out[j] # <<>>
  <2>1. \A i \in 0 .. n : f[i] \in SplitState(Y) /\ Grouped(s, d, f[i], i)
    BY AlwaysGrouped
  <2> HIDE DEF Y
  <2> QED BY <2>1 DEF SplitState, Grouped
<1> HIDE DEF Y
<1>2. ASSUME NEW i \in 0 .. n, \A j \in i + 1 .. n : j \in S PROVE i \in S
  <2> DEFINE a == f[i].out
             c == f[i].cur
             g == EndGroup(a, c)
  <2>1. a \in Seq(Seq(Y)) /\ c \in Seq(Y) /\ \A j \in 1 .. Len(a) : a[j] # <<>>
    BY <1>1
  <2> HIDE DEF a, c, g
  <2>2. /\ Len(g) = Len(a) + (IF c = <<>> THEN 0 ELSE 1)
        /\ \A j \in 1 .. Len(a) : g[j] = a[j]
    <3>1. ClosedGroups(Y, a, c, g)
      BY <2>1, Closes DEF g
    <3> QED BY <3>1 DEF ClosedGroups
  <2>3. Len(a) \in Nat /\ Len(a) <= Len(g)
    BY <2>1, <2>2
  <2>4. CASE i = n
    <3>1. gs = g
      BY <2>4 DEF g, a, c
    <3>2. Begins(a, gs)
      BY <2>2, <2>3, <3>1 DEF Begins
    <3> QED BY <3>2 DEF a
  <2>5. CASE i # n
    <3> DEFINE b == f[i + 1].out
    <3>1. i + 1 \in 1 .. n /\ i + 1 \in i + 1 .. n /\ (i + 1) - 1 = i
      BY <1>0, <2>5
    <3>2. Begins(b, gs)
      BY <1>2, <3>1
    <3>3. b = a \/ b = g
      <4>1. f[i + 1] = SplitStep(f[i], s[i + 1], d)
        BY <3>1 DEF Splits
      <4>2. f[i] \in SplitState(X \ {d}) /\ s[i + 1] \in X
        <5>1. \A j \in 0 .. n : f[j] \in SplitState(X \ {d})
          BY SplitType
        <5>2. \A j \in 1 .. n : s[j] \in X
          OBVIOUS
        <5> QED BY <3>1, <5>1, <5>2
      <4>3. b = a \/ b = EndGroup(f[i].out, f[i].cur)
        <5> DEFINE r == f[i]
                   q == f[i + 1]
                   t == s[i + 1]
        <5>1. r \in SplitState(X \ {d}) /\ t \in X /\ q = SplitStep(r, t, d)
          BY <4>1, <4>2
        <5> HIDE DEF r, q, t
        <5>2. q.out = EndGroup(r.out, r.cur) \/ q.out = r.out
          <6>1. Stepped(X \ {d}, d, t, r, q)
            BY <5>1, SplitSteps
          <6> QED BY <6>1 DEF Stepped
        <5> QED BY <5>2 DEF r, q, a
      <4> QED BY <4>3 DEF g, a, c
    <3> HIDE DEF b
    <3>4. Len(b) \in Nat /\ Len(a) <= Len(b) /\ \A j \in 1 .. Len(a) : b[j] = a[j]
      <4>1. Len(g) \in Nat
        BY <2>2, <2>3
      <4> QED BY <2>2, <2>3, <3>3, <4>1
    <3>5. Len(gs) \in Nat
      <4>1. f[n].out \in Seq(Seq(Y)) /\ f[n].cur \in Seq(Y) /\ \A j \in 1 .. Len(f[n].out) : f[n].out[j] # <<>>
        <5>1. n \in 0 .. n
          BY <1>0
        <5> QED BY <1>1, <5>1
      <4>2. gs \in Seq(Seq(Y))
        <5> DEFINE a1 == f[n].out
                   c1 == f[n].cur
        <5>1. a1 \in Seq(Seq(Y)) /\ c1 \in Seq(Y) /\ gs = EndGroup(a1, c1)
              /\ \A j \in 1 .. Len(a1) : a1[j] # <<>>
          BY <4>1
        <5> HIDE DEF a1, c1
        <5>2. ClosedGroups(Y, a1, c1, gs)
          BY <5>1, Closes
        <5> QED BY <5>2 DEF ClosedGroups
      <4> QED BY <4>2
    <3>6. Begins(a, gs)
      <4>1. \A j \in 1 .. Len(a) : j \in 1 .. Len(b)
        BY <2>3, <3>4
      <4>2. Len(a) <= Len(gs)
        BY <2>3, <3>2, <3>4, <3>5 DEF Begins
      <4> QED BY <3>2, <3>4, <4>1, <4>2 DEF Begins
    <3> QED BY <3>6 DEF a
  <2> QED BY <2>4, <2>5
<1>3. \A i \in 0 .. n : i \in S
  <2> HIDE DEF S
  <2> QED BY <1>0, <1>2, InductionDown
<1> QED BY <1>3
-----------------------------------------------------------------------------
\* What split gives lies between the delimiters, in order.
LEMMA SplitsList ==
  ASSUME NEW X, list \in Seq(X), NEW d
  PROVE  SplitsAt(d)
<1> DEFINE n == Len(list)
           gs == split(list, d)
           o == Others(list, d)
           Y == X \ {d}
<1>0. n \in Nat /\ n \in 0 .. n /\ DOMAIN list = 1 .. n
  OBVIOUS
<1>1. PICK f : Splits(list, d, f) /\ gs = EndGroup(f[n].out, f[n].cur)
  BY <1>0, SplitRuns
<1>2. \A i \in 0 .. n : f[i] \in SplitState(Y) /\ Grouped(list, d, f[i], i)
  BY <1>1, AlwaysGrouped
<1>3. \A i \in 0 .. n : Begins(f[i].out, gs)
  <2> HIDE DEF gs
  <2> QED BY <1>1, GroupsBegin
<1> HIDE DEF gs, Y
<1>4. \A i \in 0 .. n :
        /\ f[i].out \in Seq(Seq(Y)) /\ f[i].cur \in Seq(Y)
        /\ FlattenSeq(f[i].out) \o f[i].cur = o[i]
        /\ \A j \in 1 .. Len(f[i].out) : f[i].out[j] # <<>>
        /\ Len(f[i].out) + (IF f[i].cur = <<>> THEN 0 ELSE 1) = Cardinality(Starts(list, d, i))
        /\ f[i].cur = <<>> <=> i = 0 \/ list[i] = d
  <2> HIDE DEF o
  <2> QED BY <1>2 DEF Grouped, SplitState, o
<1> HIDE DEF o
<1>5. /\ gs \in Seq(Seq(Y)) /\ FlattenSeq(gs) = o[n]
      /\ \A j \in 1 .. Len(gs) : gs[j] # <<>>
      /\ Len(gs) = Cardinality(Starts(list, d, n))
  <2> DEFINE a == f[n].out
             c == f[n].cur
  <2>1. /\ a \in Seq(Seq(Y)) /\ c \in Seq(Y) /\ FlattenSeq(a) \o c = o[n]
        /\ \A j \in 1 .. Len(a) : a[j] # <<>>
        /\ Len(a) + (IF c = <<>> THEN 0 ELSE 1) = Cardinality(Starts(list, d, n))
        /\ gs = EndGroup(a, c)
    BY <1>0, <1>1, <1>4
  <2> HIDE DEF a, c, n
  <2>2. ClosedGroups(Y, a, c, gs)
    BY <2>1, Closes
  <2> QED BY <2>1, <2>2 DEF ClosedGroups
<1>6. ASSUME NEW i \in 1 .. n, list[i] = d
      PROVE  \E m \in 0 .. Len(gs) : FlattenSeq(SubSeq(gs, 1, m)) = o[i]
  <2> DEFINE a == f[i].out
             m == Len(a)
             b == SubSeq(gs, 1, m)
  <2>1. /\ a \in Seq(Seq(Y)) /\ FlattenSeq(a) \o <<>> = o[i] /\ Begins(a, gs)
    <3>1. i \in 0 .. n
      OBVIOUS
    <3>2. f[i].cur = <<>> /\ FlattenSeq(f[i].out) \o f[i].cur = o[i]
      BY <1>4, <1>6, <3>1
    <3> QED BY <1>3, <1>4, <3>1, <3>2
  <2> HIDE DEF a
  <2>2. m \in 0 .. Len(gs) /\ \A j \in 1 .. m : gs[j] = a[j]
    BY <1>5, <2>1 DEF Begins
  <2>3. b = a
    <3>1. b \in Seq(Seq(Y)) /\ Len(b) = m /\ \A j \in 1 .. m : b[j] = gs[j]
      BY <1>5, <2>2
    <3> HIDE DEF b
    <3> DEFINE Z == Seq(Y)
    <3>2. b \in Seq(Z) /\ a \in Seq(Z) /\ Len(b) = Len(a) /\ \A j \in 1 .. Len(b) : b[j] = a[j]
      BY <2>1, <2>2, <3>1
    <3> HIDE DEF Z
    <3> QED BY <3>2, SameList
  <2>4. FlattenSeq(a) = o[i]
    <3> DEFINE x == FlattenSeq(a)
    <3>1. x \in Seq(Y)
      BY <2>1, FlattenedElements
    <3> HIDE DEF x
    <3>2. x \o <<>> = x
      BY <3>1
    <3> QED BY <2>1, <3>2 DEF x
  <2> HIDE DEF b, m
  <2> QED BY <2>2, <2>3, <2>4 DEF b
<1>7. DOMAIN gs = 1 .. Len(gs)
  BY <1>5
<1>8. Starts(list, d, n) = {i \in DOMAIN list : list[i] # d /\ (i = 1 \/ list[i - 1] = d)}
  BY <1>0 DEF Starts
<1> HIDE DEF n
<1> QED BY <1>0, <1>5, <1>6, <1>7, <1>8 DEF SplitsAt, flatten, append, gs, o, n

\* A list from a place on.
LEMMA FromIs ==
  ASSUME NEW X, NEW s \in Seq(X), NEW j \in 1 .. Len(s) + 1
  PROVE  Len(From(s, j)) = Len(s) - j + 1 /\ (From(s, j) = <<>> <=> j = Len(s) + 1)
<1>1. Len(From(s, j)) = Len(s) - j + 1 /\ Len(s) \in Nat /\ From(s, j) \in Seq(X)
  BY DEF From
<1> DEFINE a == From(s, j)
<1> HIDE DEF a
<1>2. a = <<>> <=> Len(a) = 0
  BY <1>1 DEF a
<1> QED BY <1>1, <1>2 DEF a

\* What every way to look for k finds.
LEMMA FindsList ==
  ASSUME NEW X, list \in Seq(X), ListsAssumption
  PROVE  Finds
<1> SUFFICES ASSUME NEW k \in ListKeys
             PROVE  LET found  == find({k}, list)
                        places == {i \in DOMAIN list : list[i] = k}
                    IN  /\ SplitsAt(k)
                        /\ found = <<>> <=> places = {}
                        /\ Has(list, k) <=> places # {}
                        /\ CountIf({k}, list) = Cardinality(places)
                        /\ remove_if({k}, list) = Others(list, k)[Len(list)]
                        /\ places = {} => Find({k}, list) = -1 /\ Get({k}, list, "none") = "none"
                        /\ places # {} =>
                             LET n == Position(list, found)
                             IN  /\ n + 1 \in places /\ \A i \in places : n + 1 <= i
                                 /\ Find({k}, list) = n
                                 /\ at_c(list, n) = k /\ Get({k}, list, "none") = k
                                 /\ RemoveRange(list, n, n + 1) = RemoveAt(list, n + 1)
                        /\ RepeatC(Len(list), k) = [i \in DOMAIN list |-> k]
  BY DEF Finds
<1> DEFINE n == Len(list)
           P == {k}
           found == find(P, list)
           places == {i \in DOMAIN list : list[i] = k}
<1>0. n \in Nat /\ DOMAIN list = 1 .. n
  OBVIOUS
<1>1. SplitsAt(k)
  BY SplitsList
<1>2. CountIf(P, list) = Cardinality(places)
  <2>1. places = {i \in 1 .. n : list[i] \in P}
    BY <1>0
  <2>2. CountIf(P, list) = Cardinality({i \in 1 .. n : list[i] \in P})
    BY Counts
  <2> HIDE DEF places
  <2> QED BY <2>1, <2>2
<1>3. remove_if(P, list) = Others(list, k)[n]
  BY Removes
<1>4. RepeatC(n, k) = [i \in DOMAIN list |-> k]
  <2>1. filled_list(k, n) = Repeated(n, k)
    BY <1>0, Filled
  <2> QED BY <1>0, <2>1 DEF RepeatC, Repeated
<1> HIDE DEF P
<1>5. PICK r : FirstPlaces(P, list, r)
  BY <1>0, FirstsAre
<1> DEFINE j == r[1]
<1>6. j \in 1 .. n + 1 /\ First(P, list, 1, j)
  <2>1. 1 \in 1 .. n + 1
    BY <1>0
  <2> QED BY <1>5, <2>1 DEF FirstPlaces
<1>7. found = From(list, j)
  <2>1. Unroll \in Nat \ {0}
    BY DEF ListsAssumption
  <2> QED BY <1>5, <2>1, FindsRest
<1>8. Find(P, list) = IF j = n + 1 THEN -1 ELSE j - 1
  BY <1>5, FindsPlace
<1> HIDE DEF j, found
<1>9. Len(found) = n - j + 1 /\ (found = <<>> <=> j = n + 1)
  BY <1>6, <1>7, FromIs
<1>10. Position(list, found) = j - 1
  BY <1>0, <1>6, <1>9 DEF Position
<1>11. places = {} <=> j = n + 1
  <2>1. CASE j = n + 1
    <3>1. \A l \in 1 .. n : l \in 1 .. j - 1
      BY <1>0, <2>1
    <3>2. \A l \in 1 .. n : list[l] # k
      BY <1>6, <3>1 DEF First, P
    <3> QED BY <1>0, <2>1, <3>2
  <2>2. CASE j # n + 1
    <3>1. j \in 1 .. n /\ j <= n
      BY <1>0, <1>6, <2>2
    <3>2. list[j] = k
      BY <1>6, <3>1 DEF First, P
    <3> QED BY <1>0, <2>2, <3>1, <3>2
  <2> QED BY <2>1, <2>2
<1>12. Has(list, k) <=> places # {}
  <2>1. Has(list, k) <=> Find(P, list) # -1
    BY DEF Has, P
  <2>2. j - 1 # -1
    BY <1>6
  <2> HIDE DEF places
  <2> QED BY <1>8, <1>11, <2>1, <2>2
<1>13. ASSUME places = {} PROVE Find(P, list) = -1 /\ Get(P, list, "none") = "none"
  <2>1. Find(P, list) = -1
    BY <1>8, <1>11, <1>13
  <2> QED BY <2>1 DEF Get
<1>14. ASSUME places # {}
       PROVE  /\ (j - 1) + 1 \in places /\ \A i \in places : (j - 1) + 1 <= i
              /\ Find(P, list) = j - 1
              /\ at_c(list, j - 1) = k /\ Get(P, list, "none") = k
              /\ RemoveRange(list, j - 1, (j - 1) + 1) = RemoveAt(list, (j - 1) + 1)
  <2>1. j \in 1 .. n /\ j # n + 1 /\ (j - 1) + 1 = j /\ j - 1 # -1 /\ j <= n
    BY <1>0, <1>6, <1>11, <1>14
  <2>2. list[j] = k
    BY <1>6, <2>1 DEF First, P
  <2>3. \A i \in 1 .. n : list[i] = k => j <= i
    <3> SUFFICES ASSUME NEW i \in 1 .. n, list[i] = k, ~(j <= i) PROVE FALSE
      OBVIOUS
    <3>1. i \in 1 .. j - 1
      BY <2>1
    <3> QED BY <1>6, <3>1 DEF First, P
  <2>4. Find(P, list) = j - 1
    BY <1>8, <2>1
  <2>5. At(list, j - 1) = k /\ at_c(list, j - 1) = k /\ RemoveRange(list, j - 1, j) = RemoveAt(list, j)
    BY <2>1, <2>2, AtPlace
  <2>6. Get(P, list, "none") = k
    BY <2>1, <2>4, <2>5 DEF Get
  <2>7. j \in places /\ \A i \in places : j <= i
    BY <1>0, <2>1, <2>2, <2>3
  <2> QED BY <2>1, <2>4, <2>5, <2>6, <2>7
<1>15. found = <<>> <=> places = {}
  BY <1>9, <1>11
<1> HIDE DEF places
<1> DEFINE m == Position(list, found)
<1>16. places # {} =>
         /\ m + 1 \in places /\ \A i \in places : m + 1 <= i
         /\ Find(P, list) = m
         /\ at_c(list, m) = k /\ Get(P, list, "none") = k
         /\ RemoveRange(list, m, m + 1) = RemoveAt(list, m + 1)
  <2> HIDE DEF m
  <2>1. m = j - 1
    BY <1>10 DEF m
  <2> QED BY <1>14, <2>1
<1> QED BY <1>1, <1>2, <1>3, <1>4, <1>12, <1>13, <1>15, <1>16 DEF P, found, places

\* What is looked for in a list is found where it is first, by every way to look for it;
\* split, remove_if and repeat keep the rest in its order.
THEOREM AlwaysFinds == ListsSpec => []Finds
<1>1. ListTyped => Finds
  <2> SUFFICES ASSUME ListTyped PROVE Finds
    OBVIOUS
  <2> QED BY ListsAssumption, FindsList DEF ListTyped
<1> QED BY <1>1, AlwaysListTyped, PTL
-----------------------------------------------------------------------------
\* The number whose digits d stand at the places P of n, digit by digit.
Digitwise(n, b, P, d, w) ==
  /\ w[0] = 0
  /\ \A i \in 1 .. n : w[i] = IF i \in P THEN w[i - 1] * b + d[i] ELSE w[i - 1]

\* There is one.
LEMMA NumberIs ==
  ASSUME NEW n \in Nat, NEW b \in Nat, NEW P, NEW d \in [1 .. n -> Nat]
  PROVE  \E w : w \in [0 .. n -> Nat] /\ Digitwise(n, b, P, d, w)
<1> DEFINE step == [p \in Nat \X (1 .. n) |-> IF p[2] \in P THEN p[1] * b + d[p[2]] ELSE p[1]]
<1>1. step \in [Nat \X (1 .. n) -> Nat]
  <2>1. \A x \in Nat, i \in 1 .. n : x * b + d[i] \in Nat
    OBVIOUS
  <2> QED BY <2>1
<1>2. PICK w \in [0 .. n -> Nat] : RecursTo(n, w, 0, step)
  <2> HIDE DEF step
  <2> QED BY <1>1, RecursionTo
<1>3. ASSUME NEW i \in 1 .. n
      PROVE  w[i] = IF i \in P THEN w[i - 1] * b + d[i] ELSE w[i - 1]
  <2>1. i - 1 \in 0 .. n
    OBVIOUS
  <2>2. w[i] = step[<<w[i - 1], i>>] /\ w[i - 1] \in Nat
    <3> HIDE DEF step
    <3> QED BY <1>2, <2>1 DEF RecursTo
  <2>3. step[<<w[i - 1], i>>] = IF i \in P THEN w[i - 1] * b + d[i] ELSE w[i - 1]
    BY <2>2
  <2> HIDE DEF step
  <2> QED BY <2>2, <2>3
<1>4. w[0] = 0
  <2> HIDE DEF step
  <2> QED BY <1>2 DEF RecursTo
<1> QED BY <1>3, <1>4 DEF Digitwise

\* A digit at a place counts as often as the base to the number of digits behind it says.
DigitsBehind(n, P, i) == {j \in i + 1 .. n : j \in P}

\* power has the powers of the base b and sum the sums of the first digits at their places.
Adds(n, b, P, d, w, power, added) ==
  /\ n \in Nat /\ b \in Nat /\ d \in [1 .. n -> Nat]
  /\ w \in [0 .. n -> Nat] /\ Digitwise(n, b, P, d, w)
  /\ power \in [Nat -> Nat] /\ power[0] = 1 /\ \A k \in Nat : power[k + 1] = b * power[k]
  /\ added[0] = 0
  /\ \A i \in 1 .. n :
       added[i] = IF i \in P THEN added[i - 1] + d[i] * power[Cardinality(DigitsBehind(n, P, i))]
                ELSE added[i - 1]

\* The sum is the number.
LEMMA PlaceValues ==
  ASSUME NEW n, NEW b, NEW P, NEW d, NEW w, NEW power, NEW added,
         Adds(n, b, P, d, w, power, added)
  PROVE  added[n] = w[n]
<1>0. /\ n \in Nat /\ b \in Nat /\ d \in [1 .. n -> Nat]
      /\ w \in [0 .. n -> Nat] /\ Digitwise(n, b, P, d, w)
      /\ power \in [Nat -> Nat] /\ power[0] = 1 /\ \A k \in Nat : power[k + 1] = b * power[k]
      /\ added[0] = 0
      /\ \A i \in 1 .. n :
           added[i] = IF i \in P THEN added[i - 1] + d[i] * power[Cardinality(DigitsBehind(n, P, i))]
                    ELSE added[i - 1]
  BY DEF Adds
<1> USE <1>0
<1> DEFINE B(i) == DigitsBehind(n, P, i)
           c(i) == Cardinality(B(i))
           S == {i \in 0 .. n : added[i] = w[i] * power[c(i)]}
<1>1. \A i \in 0 .. n : IsFiniteSet(B(i)) /\ c(i) \in Nat
  <2> SUFFICES ASSUME NEW i \in 0 .. n PROVE IsFiniteSet(B(i)) /\ c(i) \in Nat
    OBVIOUS
  <2>1. IsFiniteSet(i + 1 .. n)
    BY FS_Interval
  <2>2. B(i) \subseteq i + 1 .. n
    BY DEF DigitsBehind
  <2>3. IsFiniteSet(B(i))
    BY <2>1, <2>2, FS_Subset
  <2> QED BY <2>3, FS_CardinalityType
<1>2. 0 \in S
  <2>0. 0 \in 0 .. n
    OBVIOUS
  <2>1. c(0) \in Nat
    BY <1>1, <2>0
  <2>2. w[0] = 0
    BY DEF Digitwise
  <2>3. \A k \in Nat : 0 * k = 0
    OBVIOUS
  <2> HIDE DEF c
  <2>4. power[c(0)] \in Nat
    BY <2>1
  <2> QED BY <2>0, <2>2, <2>3, <2>4
<1>3. \A i \in 1 .. n : i - 1 \in S => i \in S
  <2> SUFFICES ASSUME NEW i \in 1 .. n, added[i - 1] = w[i - 1] * power[c(i - 1)]
               PROVE  added[i] = w[i] * power[c(i)]
    <3>1. \A i \in 1 .. n : i \in 0 .. n
      OBVIOUS
    <3> HIDE DEF c
    <3> QED BY <3>1
  <2>1. i \in 0 .. n /\ i - 1 \in 0 .. n /\ (i - 1) + 1 = i
    OBVIOUS
  <2>2. \A j \in i .. n : j = i \/ j \in i + 1 .. n
    OBVIOUS
  <2>3. i \in i .. n /\ \A j \in i + 1 .. n : j \in i .. n /\ j # i
    OBVIOUS
  <2>4. CASE i \in P
    <3>1. B(i - 1) = B(i) \cup {i} /\ i \notin B(i)
      BY <2>1, <2>2, <2>3, <2>4 DEF DigitsBehind
    <3>2. c(i - 1) = c(i) + 1
      <4> DEFINE X == B(i)
                 Y == B(i - 1)
      <4>1. IsFiniteSet(X) /\ Y = X \cup {i} /\ i \notin X
        BY <1>1, <2>1, <3>1
      <4> HIDE DEF X, Y
      <4>2. Cardinality(Y) = Cardinality(X) + 1
        BY <4>1, FS_AddElement
      <4> QED BY <4>2 DEF X, Y
    <3> DEFINE p == power[c(i)]
               x == w[i - 1]
               e == d[i]
    <3>3. power[c(i - 1)] = b * p /\ p \in Nat
      BY <1>1, <2>1, <3>2
    <3>4. w[i] = x * b + e /\ added[i] = x * (b * p) + e * p
      <4>1. added[i] = added[i - 1] + d[i] * power[c(i)]
        BY <2>4
      <4>2. w[i] = w[i - 1] * b + d[i]
        BY <2>4 DEF Digitwise
      <4> HIDE DEF c
      <4> QED BY <3>3, <4>1, <4>2
    <3>5. x \in Nat /\ e \in Nat
      BY <2>1
    <3> HIDE DEF p, x, e
    <3>6. \A k, l, m, o \in Nat : (k * l + o) * m = k * (l * m) + o * m
      OBVIOUS
    <3>7. w[i] * p = added[i]
      BY <3>3, <3>4, <3>5, <3>6
    <3> QED BY <3>7 DEF p
  <2>5. CASE i \notin P
    <3>1. B(i - 1) = B(i)
      BY <2>1, <2>2, <2>3, <2>5 DEF DigitsBehind
    <3>2. w[i] = w[i - 1] /\ added[i] = added[i - 1]
      BY <2>5 DEF Digitwise
    <3> QED BY <3>1, <3>2
  <2> QED BY <2>4, <2>5
<1>4. n \in S
  <2>1. n \in 0 .. n
    OBVIOUS
  <2> HIDE DEF S
  <2> QED BY <1>2, <1>3, <2>1, InductionTo
<1>5. c(n) = 0
  <2>1. n + 1 .. n = {}
    OBVIOUS
  <2>2. B(n) = {}
    BY <2>1 DEF DigitsBehind
  <2> QED BY <2>2, FS_EmptySet
<1>6. added[n] = w[n] * power[c(n)]
  BY <1>4
<1> HIDE DEF c
<1>7. w[n] \in Nat
  OBVIOUS
<1>8. added[n] = w[n] * 1
  BY <1>5, <1>6
<1> QED BY <1>7, <1>8

\* The same in a word that wraps at m, once the first digit is there.
Wrapping(n, b, P, d, w, m, v) ==
  /\ n \in Nat /\ b \in Nat /\ d \in [1 .. n -> Nat]
  /\ w \in [0 .. n -> Nat] /\ Digitwise(n, b, P, d, w)
  /\ m \in Nat /\ m > 0 /\ n >= 1 /\ 1 \in P /\ d[1] < m
  /\ v[1] = d[1]
  /\ \A i \in 2 .. n : v[i] = IF i \in P THEN (v[i - 1] * b + d[i]) % m ELSE v[i - 1]

\* What wraps at every digit is what is left of the number in the end.
LEMMA WrappedDigits ==
  ASSUME NEW n, NEW b, NEW P, NEW d, NEW w, NEW m, NEW v, Wrapping(n, b, P, d, w, m, v)
  PROVE  v[n] = w[n] % m
<1>0. /\ n \in Nat /\ b \in Nat /\ d \in [1 .. n -> Nat]
      /\ w \in [0 .. n -> Nat] /\ Digitwise(n, b, P, d, w)
      /\ m \in Nat /\ m > 0 /\ n >= 1 /\ 1 \in P /\ d[1] < m
  BY DEF Wrapping
<1> USE <1>0
<1> DEFINE S == {i \in 0 .. n - 1 : v[i + 1] = w[i + 1] % m}
<1>1. 0 \in S
  <2>1. w[1] = w[1 - 1] * b + d[1] /\ 1 - 1 = 0 /\ 1 \in 1 .. n
    BY DEF Digitwise
  <2>2. w[0] * b = 0 /\ d[1] \in 0 .. m - 1
    BY DEF Digitwise
  <2> DEFINE x == w[1]
             q == 0
             e == d[1]
  <2>3. x = m * q + e /\ q \in Nat /\ e \in 0 .. m - 1
    BY <2>1, <2>2
  <2> HIDE DEF x, q, e
  <2>4. x % m = e
    BY <2>3, LeavesOne
  <2> QED BY <2>4 DEF x, e, Wrapping
<1>2. \A x, e \in Nat : ((x % m) * b + e) % m = (x * b + e) % m
  BY DigitMore
<1>3. \A i \in 1 .. n - 1 : i - 1 \in S => i \in S
  <2> SUFFICES ASSUME NEW i \in 1 .. n - 1, v[i] = w[i] % m PROVE v[i + 1] = w[i + 1] % m
    <3>1. \A i \in 1 .. n - 1 : i \in 0 .. n - 1 /\ (i - 1) + 1 = i
      OBVIOUS
    <3> QED BY <3>1
  <2> DEFINE j == i + 1
  <2>1. j \in 2 .. n /\ j \in 1 .. n /\ j - 1 = i /\ i \in 0 .. n
    OBVIOUS
  <2> HIDE DEF j
  <2>2. CASE j \in P
    <3>1. v[j] = (v[i] * b + d[j]) % m /\ w[j] = w[i] * b + d[j] /\ w[i] \in Nat /\ d[j] \in Nat
      BY <2>1, <2>2 DEF Digitwise, Wrapping
    <3>2. ((w[i] % m) * b + d[j]) % m = (w[i] * b + d[j]) % m
      BY <3>1, <1>2, Zenon
    <3> QED BY <3>1, <3>2 DEF j
  <2>3. CASE j \notin P
    BY <2>1, <2>3 DEF Digitwise, Wrapping, j
  <2> QED BY <2>2, <2>3
<1>4. n - 1 \in S
  <2>1. n - 1 \in Nat /\ n - 1 \in 0 .. n - 1
    OBVIOUS
  <2> HIDE DEF S
  <2> QED BY <1>1, <1>3, <2>1, InductionTo
<1> QED BY <1>4

\* The same where a number from h on is none, for which m stands.
Stopping(n, b, P, d, w, m, h, v) ==
  /\ n \in Nat /\ b \in Nat /\ b >= 1 /\ d \in [1 .. n -> Nat]
  /\ w \in [0 .. n -> Nat] /\ Digitwise(n, b, P, d, w)
  /\ m \in Nat /\ h \in Nat /\ h <= m /\ n >= 1 /\ 1 \in P /\ d[1] < h
  /\ v[1] = d[1]
  /\ \A i \in 2 .. n : v[i] = IF i \notin P THEN v[i - 1]
                              ELSE IF v[i - 1] * b + d[i] < h THEN v[i - 1] * b + d[i] ELSE m

\* Once it is none it stays so, and the number stays too large.
LEMMA StoppedDigits ==
  ASSUME NEW n, NEW b, NEW P, NEW d, NEW w, NEW m, NEW h, NEW v, Stopping(n, b, P, d, w, m, h, v)
  PROVE  v[n] = IF w[n] < h THEN w[n] ELSE m
<1>0. /\ n \in Nat /\ b \in Nat /\ b >= 1 /\ d \in [1 .. n -> Nat]
      /\ w \in [0 .. n -> Nat] /\ Digitwise(n, b, P, d, w)
      /\ m \in Nat /\ h \in Nat /\ h <= m /\ n >= 1 /\ 1 \in P /\ d[1] < h
  BY DEF Stopping
<1> USE <1>0
<1> DEFINE S == {i \in 0 .. n - 1 : v[i + 1] = IF w[i + 1] < h THEN w[i + 1] ELSE m}
<1>1. 0 \in S
  <2>1. w[1] = w[1 - 1] * b + d[1] /\ 1 - 1 = 0 /\ 1 \in 1 .. n
    BY DEF Digitwise
  <2>2. w[0] * b = 0 /\ d[1] \in Nat
    BY <2>1 DEF Digitwise
  <2>3. w[1] = d[1] /\ v[1] = d[1]
    BY <2>1, <2>2 DEF Stopping
  <2> QED BY <2>3
<1>2. \A x, e \in Nat : x >= h => x * b + e >= h /\ x * b + e \in Nat
  <2> SUFFICES ASSUME NEW x \in Nat, NEW e \in Nat, x >= h
               PROVE  x * b + e >= h /\ x * b + e \in Nat
    OBVIOUS
  <2>1. PICK c \in Nat : b = 1 + c
    <3>1. b - 1 \in Nat /\ b = 1 + (b - 1)
      OBVIOUS
    <3> QED BY <3>1
  <2>2. x * b = x + x * c /\ x * c \in Nat
    BY <2>1
  <2> QED BY <2>2
<1>3. \A i \in 1 .. n - 1 : i - 1 \in S => i \in S
  <2> SUFFICES ASSUME NEW i \in 1 .. n - 1, v[i] = IF w[i] < h THEN w[i] ELSE m
               PROVE  v[i + 1] = IF w[i + 1] < h THEN w[i + 1] ELSE m
    <3>1. \A i \in 1 .. n - 1 : i \in 0 .. n - 1 /\ (i - 1) + 1 = i
      OBVIOUS
    <3> QED BY <3>1
  <2> DEFINE j == i + 1
  <2>1. j \in 2 .. n /\ j \in 1 .. n /\ j - 1 = i /\ i \in 0 .. n /\ w[i] \in Nat /\ d[j] \in Nat
    OBVIOUS
  <2> HIDE DEF j
  <2>2. CASE j \in P
    <3>1. /\ v[j] = IF v[i] * b + d[j] < h THEN v[i] * b + d[j] ELSE m
          /\ w[j] = w[i] * b + d[j]
      BY <2>1, <2>2 DEF Digitwise, Stopping
    <3>2. CASE w[i] < h
      BY <3>1, <3>2 DEF j
    <3>3. CASE ~(w[i] < h)
      <4>1. v[i] = m /\ w[i] >= h /\ m >= h
        BY <2>1, <3>3
      <4>2. w[i] * b + d[j] >= h /\ m * b + d[j] >= h
            /\ w[i] * b + d[j] \in Nat /\ m * b + d[j] \in Nat
        BY <1>2, <2>1, <4>1
      <4> DEFINE y == w[i] * b + d[j]
                 z == m * b + d[j]
      <4>3. y >= h /\ z >= h /\ y \in Nat /\ z \in Nat /\ w[j] = y
            /\ v[j] = IF z < h THEN z ELSE m
        BY <3>1, <4>1, <4>2
      <4> HIDE DEF y, z
      <4>4. ~(w[j] < h) /\ v[j] = m
        BY <4>3
      <4> QED BY <4>4 DEF j
    <3> QED BY <3>2, <3>3
  <2>3. CASE j \notin P
    <3>1. v[j] = v[i] /\ w[j] = w[i]
      BY <2>1, <2>3 DEF Digitwise, Stopping
    <3> QED BY <3>1 DEF j
  <2> QED BY <2>2, <2>3
<1>4. n - 1 \in S
  <2>1. n - 1 \in Nat /\ n - 1 \in 0 .. n - 1
    OBVIOUS
  <2> HIDE DEF S
  <2> QED BY <1>1, <1>3, <2>1, InductionTo
<1> QED BY <1>4
-----------------------------------------------------------------------------
\* The base and the characters behind the prefix.
LEMMA DigitsAre ==
  ASSUME NEW X, NEW s \in Seq(X)
  PROVE  Base(s) \in {2, 8, 10, 16} /\ Digits(s) \in Seq(X)
<1>1. Base(s) \in {2, 8, 10, 16}
  BY DEF Base
<1>2. Base(s) = 8 => s # <<>>
  BY DEF Base
<1>3. SubSeq(s, 3, Len(s)) \in Seq(X) /\ (s # <<>> => Tail(s) \in Seq(X))
  OBVIOUS
<1> QED BY <1>1, <1>2, <1>3 DEF Digits

\* Every character has a number, the separator one no base has.
LEMMA DigitOf ==
  ASSUME LiteralsAssumption
  PROVE  /\ \A c : to_digit(c) \in Nat
         /\ to_digit(Separator) = Wide
         /\ Wide \in Nat /\ Wide > 0
<1>1. Wide \in Nat /\ Wide > 0
  BY DEF LiteralsAssumption
<1>2. \A c : to_digit(c) \in Nat
  BY <1>1 DEF to_digit
<1>3. to_digit("'") = Wide
  BY DEF to_digit
<1> QED BY <1>1, <1>2, <1>3 DEF Separator

\* A step gives a number.
LEMMA ParseStepType ==
  ASSUME LiteralsAssumption, NEW signed \in BOOLEAN, NEW b \in Nat, NEW v \in Nat, NEW c
  PROVE  ParseStep(signed, b, v, c) \in Nat
<1> DEFINE d == to_digit(c)
           e == v * b + d
<1>1. d \in Nat /\ Wide \in Nat /\ Wide > 0
  BY DigitOf
<1>2. e \in Nat
  <2> HIDE DEF d
  <2> QED BY <1>1
<1> HIDE DEF d, e
<1>3. Within(signed, e) \in Nat
  <2>1. e % Wide \in Nat
    BY <1>1, <1>2
  <2> QED BY <1>1, <1>2, <2>1 DEF Within
<1> QED BY <1>3 DEF ParseStep, d, e

\* What parse computes, one digit after the other.
LEMMA Parsed ==
  ASSUME LiteralsAssumption, NEW s, NEW X, NEW ds \in Seq(X), ds = Digits(s), ds # <<>>,
         NEW b \in Nat, b = Base(s), NEW signed \in BOOLEAN
  PROVE  \E v : /\ v[1] = to_digit(ds[1])
                /\ \A i \in 2 .. Len(ds) : v[i] = ParseStep(signed, b, v[i - 1], ds[i])
                /\ parse(s, signed) = v[Len(ds)]
<1> DEFINE t == Tail(ds)
           k == Len(t)
           h == to_digit(Head(ds))
           step == [p \in Nat \X (1 .. k) |-> ParseStep(signed, b, p[1], t[p[2]])]
           Fcn(g) == g = [x \in SUBSET DOMAIN t |->
                            IF x = {} THEN h ELSE ParseStep(signed, b, g[x \ {Max(x)}], t[Max(x)])]
           it == CHOOSE g : Fcn(g)
<1>1. /\ k \in Nat /\ k = Len(ds) - 1 /\ DOMAIN t = 1 .. k
      /\ \A i \in 1 .. k : t[i] = ds[i + 1]
  OBVIOUS
<1>2. h \in Nat /\ Head(ds) = ds[1]
  <2>1. Head(ds) = ds[1]
    OBVIOUS
  <2> QED BY <2>1, DigitOf
<1>3. step \in [Nat \X (1 .. k) -> Nat]
  <2>1. \A v \in Nat, i \in 1 .. k : ParseStep(signed, b, v, t[i]) \in Nat
    BY <1>1, ParseStepType
  <2> HIDE DEF t, k
  <2> QED BY <2>1
<1>4. \A v \in Nat, i \in 1 .. k : step[<<v, i>>] = ParseStep(signed, b, v, t[i])
  <2> HIDE DEF t, k
  <2> QED OBVIOUS
<1> HIDE DEF t, k, h, step
<1>5. \E g : Fcn(g)
  <2>1. PICK g \in [SUBSET (1 .. k) -> Nat] : FoldsUp(k, g, h, step)
    BY <1>1, <1>2, <1>3, FoldingUp
  <2>2. ASSUME NEW x \in SUBSET (1 .. k)
        PROVE  g[x] = IF x = {} THEN h ELSE ParseStep(signed, b, g[x \ {Max(x)}], t[Max(x)])
    <3>1. CASE x = {}
      BY <2>1, <3>1 DEF FoldsUp
    <3>2. CASE x # {}
      <4>1. Max(x) \in 1 .. k
        BY <1>1, <3>2, MaxIn
      <4>2. g[x \ {Max(x)}] \in Nat
        <5>1. x \ {Max(x)} \in SUBSET (1 .. k)
          OBVIOUS
        <5> QED BY <5>1
      <4>3. g[x] = step[<<g[x \ {Max(x)}], Max(x)>>]
        BY <2>1, <3>2 DEF FoldsUp
      <4> QED BY <1>4, <3>2, <4>1, <4>2, <4>3
    <3> QED BY <3>1, <3>2
  <2>3. Fcn(g)
    BY <1>1, <2>2
  <2> QED BY <2>3
<1>6. parse(s, signed) = it[DOMAIN t]
  BY DEF parse, FoldLeft, MapThenFoldSet, t, h
<1>7. Fcn(it)
  <2> HIDE DEF Fcn
  <2> QED BY <1>5, Zenon
<1> HIDE DEF it
<1> DEFINE v == [i \in 1 .. Len(ds) |-> it[1 .. i - 1]]
<1>8. Len(ds) >= 1 /\ Len(ds) \in Nat
  OBVIOUS
<1>9. v[1] = to_digit(ds[1])
  <2>1. 1 .. 1 - 1 = {} /\ 1 \in 1 .. Len(ds)
    BY <1>8
  <2>2. v[1] = it[{}]
    BY <2>1
  <2>3. it[{}] = h
    BY <1>7
  <2> QED BY <2>2, <2>3, <1>2 DEF h
<1>10. ASSUME NEW i \in 2 .. Len(ds) PROVE v[i] = ParseStep(signed, b, v[i - 1], ds[i])
  <2> DEFINE m == i - 1
             x == 1 .. m
  <2>1. /\ m \in Nat /\ m \in 1 .. k /\ m \in 1 .. Len(ds) /\ i \in 1 .. Len(ds)
        /\ m \in x /\ x \in SUBSET x /\ x \in SUBSET (1 .. k) /\ x \ {m} = 1 .. m - 1 /\ m + 1 = i
    BY <1>1, <1>8
  <2>2. v[i] = it[x] /\ v[m] = it[1 .. m - 1]
    BY <2>1
  <2> HIDE DEF v
  <2>3. Max(x) = m
    <3> HIDE DEF m
    <3>1. x \in SUBSET (1 .. m) /\ m \in Nat /\ m \in x
      BY <2>1
    <3> QED BY <3>1, LastIsMax
  <2>4. it[x] = ParseStep(signed, b, it[x \ {Max(x)}], t[Max(x)])
    <3>1. x # {} /\ x \in SUBSET DOMAIN t
      BY <1>1, <2>1
    <3> HIDE DEF x
    <3> QED BY <1>7, <3>1
  <2>5. t[m] = ds[i]
    BY <1>1, <2>1
  <2> HIDE DEF m, x
  <2>6. v[i] = ParseStep(signed, b, v[m], ds[i])
    BY <2>1, <2>2, <2>3, <2>4, <2>5
  <2> QED BY <2>6 DEF m
<1>11. parse(s, signed) = v[Len(ds)]
  <2>1. DOMAIN t = 1 .. Len(ds) - 1 /\ Len(ds) \in 1 .. Len(ds)
    BY <1>1, <1>8
  <2> QED BY <1>6, <2>1
<1> HIDE DEF v
<1> QED BY <1>9, <1>10, <1>11
-----------------------------------------------------------------------------
\* The powers of the base.
PowersOf(b) == CHOOSE f : f = [k \in Nat |-> IF k = 0 THEN 1 ELSE b * f[k - 1]]

\* They are defined.
LEMMA Powers ==
  ASSUME NEW b \in Nat, NEW power, power = PowersOf(b)
  PROVE  /\ power \in [Nat -> Nat] /\ power[0] = 1
         /\ \A k \in Nat : power[k + 1] = b * power[k]
<1> DEFINE Fcn(f) == f = [k \in Nat |-> IF k = 0 THEN 1 ELSE b * f[k - 1]]
           step == [p \in Nat \X Nat |-> b * p[1]]
<1>1. \E f : Fcn(f)
  <2>1. step \in [Nat \X Nat -> Nat] /\ 1 \in Nat
    OBVIOUS
  <2>2. \A x, k \in Nat : step[<<x, k>>] = b * x
    OBVIOUS
  <2> HIDE DEF step
  <2>3. PICK f \in [Nat -> Nat] : Recurs(f, 1, step)
    BY <2>1, Recursion
  <2>4. ASSUME NEW k \in Nat PROVE f[k] = IF k = 0 THEN 1 ELSE b * f[k - 1]
    <3>1. CASE k = 0
      BY <2>3, <3>1 DEF Recurs
    <3>2. CASE k # 0
      <4>1. k - 1 \in Nat /\ (k - 1) + 1 = k
        BY <3>2
      <4>2. f[(k - 1) + 1] = step[<<f[k - 1], k - 1>>]
        BY <2>3, <4>1, Zenon DEF Recurs
      <4>3. step[<<f[k - 1], k - 1>>] = b * f[k - 1]
        BY <2>2, <4>1
      <4> QED BY <3>2, <4>1, <4>2, <4>3
    <3> QED BY <3>1, <3>2
  <2> QED BY <2>4
<1>2. Fcn(power)
  <2> HIDE DEF Fcn
  <2>1. power = CHOOSE f : Fcn(f)
    BY DEF Fcn, PowersOf
  <2> QED BY <1>1, <2>1, Zenon
<1>3. power[0] = 1
  BY <1>2
<1>4. \A k \in Nat : power[k + 1] = b * power[k]
  <2>1. \A k \in Nat : k + 1 \in Nat /\ k + 1 # 0 /\ (k + 1) - 1 = k
    OBVIOUS
  <2> QED BY <1>2, <2>1
<1>5. Nat \subseteq {k \in Nat : power[k] \in Nat}
  <2> DEFINE S == {k \in Nat : power[k] \in Nat}
  <2>1. 0 \in S
    BY <1>3
  <2>2. \A k \in Nat : k \in S => k + 1 \in S
    BY <1>4
  <2> HIDE DEF S
  <2>3. Nat \subseteq S
    BY <2>1, <2>2, Induction
  <2> QED BY <2>3 DEF S
<1> QED BY <1>2, <1>3, <1>4, <1>5

\* What ExactValue adds up.
SumOf(n, ds, power) ==
  CHOOSE f : f = [i \in 0 .. n |->
    IF i = 0 THEN 0
    ELSE IF ds[i] = Separator THEN f[i - 1]
    ELSE f[i - 1] + to_digit(ds[i]) * power[Cardinality({j \in i + 1 .. n : ds[j] # Separator})]]

AddsDigits(n, ds, power, added) ==
  /\ added[0] = 0
  /\ \A i \in 1 .. n :
       added[i] = IF ds[i] = Separator THEN added[i - 1]
                ELSE added[i - 1] + to_digit(ds[i])
                       * power[Cardinality({j \in i + 1 .. n : ds[j] # Separator})]

\* They are defined.
LEMMA Summed ==
  ASSUME NEW n \in Nat, NEW ds, NEW power, power \in [Nat -> Nat], LiteralsAssumption,
         NEW added, added = SumOf(n, ds, power)
  PROVE  AddsDigits(n, ds, power, added)
<1> DEFINE e(i) == to_digit(ds[i]) * power[Cardinality({j \in i + 1 .. n : ds[j] # Separator})]
           Fcn(f) == f = [i \in 0 .. n |->
                            IF i = 0 THEN 0 ELSE IF ds[i] = Separator THEN f[i - 1] ELSE f[i - 1] + e(i)]
           step == [p \in Nat \X (1 .. n) |-> IF ds[p[2]] = Separator THEN p[1] ELSE p[1] + e(p[2])]
<1>1. \A i \in 1 .. n : e(i) \in Nat
  <2> SUFFICES ASSUME NEW i \in 1 .. n PROVE e(i) \in Nat
    OBVIOUS
  <2> DEFINE B == {j \in i + 1 .. n : ds[j] # Separator}
             c == Cardinality(B)
             t == to_digit(ds[i])
  <2>1. IsFiniteSet(i + 1 .. n)
    BY FS_Interval
  <2>2. B \subseteq i + 1 .. n
    OBVIOUS
  <2>3. c \in Nat
    <3> HIDE DEF B
    <3>1. IsFiniteSet(B)
      BY <2>1, <2>2, FS_Subset
    <3> QED BY <3>1, FS_CardinalityType
  <2>4. t \in Nat
    BY DigitOf
  <2>5. t * power[c] \in Nat
    <3> HIDE DEF c, t
    <3>1. power[c] \in Nat
      BY <2>3
    <3> QED BY <2>4, <3>1
  <2> QED BY <2>5
<1> HIDE DEF e
<1>2. \E f : Fcn(f)
  <2>1. step \in [Nat \X (1 .. n) -> Nat] /\ 0 \in Nat
    <3>1. \A x \in Nat, i \in 1 .. n : (IF ds[i] = Separator THEN x ELSE x + e(i)) \in Nat
      BY <1>1
    <3> QED BY <3>1
  <2>2. \A x \in Nat, i \in 1 .. n : step[<<x, i>>] = IF ds[i] = Separator THEN x ELSE x + e(i)
    OBVIOUS
  <2> HIDE DEF step
  <2>3. PICK f \in [0 .. n -> Nat] : RecursTo(n, f, 0, step)
    BY <2>1, RecursionTo
  <2>4. ASSUME NEW i \in 0 .. n
        PROVE  f[i] = IF i = 0 THEN 0 ELSE IF ds[i] = Separator THEN f[i - 1] ELSE f[i - 1] + e(i)
    <3>1. CASE i = 0
      BY <2>3, <3>1 DEF RecursTo
    <3>2. CASE i # 0
      <4>1. i - 1 \in 0 .. n /\ i \in 1 .. n
        BY <3>2
      <4>2. f[i] = step[<<f[i - 1], i>>] /\ f[i - 1] \in Nat
        BY <2>3, <4>1 DEF RecursTo
      <4> QED BY <2>2, <3>2, <4>1, <4>2
    <3> QED BY <3>1, <3>2
  <2> QED BY <2>4
<1>3. Fcn(added)
  <2>1. added = CHOOSE f : Fcn(f)
    BY DEF e, SumOf
  <2> HIDE DEF Fcn
  <2> QED BY <1>2, <2>1, Zenon
<1>4. \A i \in 1 .. n : added[i] = IF ds[i] = Separator THEN added[i - 1] ELSE added[i - 1] + e(i)
  <2>1. \A i \in 1 .. n : i \in 0 .. n /\ i # 0
    OBVIOUS
  <2> QED BY <1>3, <2>1
<1>5. added[0] = 0
  <2>1. 0 \in 0 .. n
    OBVIOUS
  <2> QED BY <1>3, <2>1
<1> QED BY <1>4, <1>5 DEF e, AddsDigits

\* parse is what is left of the number in unsigned long long, and the number itself in
\* long long, where it is one.
LEMMA ParsedValue ==
  ASSUME LiteralsAssumption, NEW X, literal \in Seq(X), Parses(literal), NEW signed \in BOOLEAN
  PROVE  ExactValue \in Nat /\ parse(literal, signed) = Within(signed, ExactValue)
<1> DEFINE ds == Digits(literal)
           n == Len(ds)
           b == Base(literal)
           P == {i \in 1 .. n : ds[i] # Separator}
           d == [i \in 1 .. n |-> IF i \in P THEN to_digit(ds[i]) ELSE 0]
<1>1. ds \in Seq(X) /\ b \in {2, 8, 10, 16} /\ b \in Nat
  <2>1. b \in {2, 8, 10, 16} /\ ds \in Seq(X)
    BY DigitsAre, Zenon
  <2> HIDE DEF b
  <2>2. b \in Nat
    BY <2>1
  <2> QED BY <2>1, <2>2
<1>2. ds # <<>> /\ to_digit(Head(ds)) < b
  BY DEF Parses
<1>4. PICK v : /\ v[1] = to_digit(ds[1])
               /\ \A i \in 2 .. n : v[i] = ParseStep(signed, b, v[i - 1], ds[i])
               /\ parse(literal, signed) = v[n]
  <2> HIDE DEF ds, b
  <2> QED BY <1>1, <1>2, Parsed DEF ds, b
<1> HIDE DEF ds, b
<1>5. n \in Nat /\ n >= 1 /\ Head(ds) = ds[1]
  BY <1>1, <1>2
<1> HIDE DEF n
<1>6. d \in [1 .. n -> Nat]
  <2>1. \A i \in 1 .. n : (IF i \in P THEN to_digit(ds[i]) ELSE 0) \in Nat
    BY DigitOf
  <2> HIDE DEF P
  <2> QED BY <2>1
<1> DEFINE half == Wide \div 2
<1>7. Wide \in Nat /\ Wide > 0 /\ half \in Nat /\ b <= half /\ half <= Wide /\ b >= 1
  BY <1>1 DEF LiteralsAssumption
<1> HIDE DEF half
<1>8. 1 \in P /\ d[1] = to_digit(ds[1]) /\ d[1] < half
  <2> DEFINE c == to_digit(ds[1])
  <2>1. c \in Nat /\ (ds[1] = Separator => c = Wide)
    BY DigitOf
  <2>2. c < b
    BY <1>2, <1>5
  <2>3. c < half
    <3> HIDE DEF c
    <3> QED BY <1>1, <1>7, <2>1, <2>2
  <2>4. 1 \in P
    <3>1. c # Wide
      <4> HIDE DEF c
      <4> QED BY <1>7, <2>1, <2>3
    <3> QED BY <1>5, <2>1, <3>1
  <2>5. d[1] = c
    <3>1. 1 \in 1 .. n
      BY <1>5
    <3> HIDE DEF P, c
    <3>2. d[1] = IF 1 \in P THEN to_digit(ds[1]) ELSE 0
      BY <3>1
    <3> QED BY <2>4, <3>2 DEF c
  <2> HIDE DEF d, P
  <2> QED BY <2>3, <2>4, <2>5
<1>9. PICK w : w \in [0 .. n -> Nat] /\ Digitwise(n, b, P, d, w)
  <2> HIDE DEF d, P
  <2> QED BY <1>1, <1>5, <1>6, NumberIs
<1>10. ASSUME NEW i \in 2 .. n
       PROVE  v[i] = IF i \in P THEN Within(signed, v[i - 1] * b + d[i]) ELSE v[i - 1]
  <2>1. i \in 1 .. n /\ v[i] = ParseStep(signed, b, v[i - 1], ds[i])
    BY <1>4, <1>5
  <2>2. CASE i \in P
    <3>1. ds[i] # Separator
      BY <2>2
    <3>2. d[i] = to_digit(ds[i])
      <4> HIDE DEF P
      <4> QED BY <2>1, <2>2
    <3> HIDE DEF d, P
    <3> QED BY <2>1, <2>2, <3>1, <3>2 DEF ParseStep
  <2>3. CASE i \notin P
    <3>1. ds[i] = Separator
      BY <2>1, <2>3
    <3> HIDE DEF d, P
    <3> QED BY <2>1, <2>3, <3>1 DEF ParseStep
  <2> QED BY <2>2, <2>3
<1>11. v[n] = Within(signed, w[n])
  <2> HIDE DEF d, P
  <2>0. d[1] \in Nat
    BY <1>5, <1>6
  <2>1. CASE ~signed
    <3>1. \A e : Within(signed, e) = e % Wide
      BY <2>1 DEF Within
    <3>2. \A i \in 2 .. n : v[i] = IF i \in P THEN (v[i - 1] * b + d[i]) % Wide ELSE v[i - 1]
      BY <1>10, <3>1
    <3>3. d[1] < Wide
      BY <1>7, <1>8, <2>0
    <3>4. Wrapping(n, b, P, d, w, Wide, v)
      BY <1>1, <1>4, <1>5, <1>6, <1>7, <1>8, <1>9, <3>2, <3>3 DEF Wrapping
    <3> QED BY <3>1, <3>4, WrappedDigits
  <2>2. CASE signed
    <3>1. \A e : Within(signed, e) = IF e < half THEN e ELSE Wide
      BY <2>2 DEF Within, half
    <3>2. \A i \in 2 .. n :
            v[i] = IF i \notin P THEN v[i - 1]
                   ELSE IF v[i - 1] * b + d[i] < half THEN v[i - 1] * b + d[i] ELSE Wide
      BY <1>10, <3>1
    <3>3. Stopping(n, b, P, d, w, Wide, half, v)
      BY <1>1, <1>4, <1>5, <1>6, <1>7, <1>8, <1>9, <3>2 DEF Stopping
    <3> QED BY <3>1, <3>3, StoppedDigits
  <2> QED BY <2>1, <2>2
<1> DEFINE power == PowersOf(b)
           added == SumOf(n, ds, power)
<1>3. ExactValue = added[n]
  BY DEF ExactValue, SumOf, PowersOf, ds, b, n
<1> HIDE DEF added
<1>12. /\ power \in [Nat -> Nat] /\ power[0] = 1
       /\ \A k \in Nat : power[k + 1] = b * power[k]
  BY <1>1, Powers
<1>13. AddsDigits(n, ds, power, added)
  <2> HIDE DEF power
  <2> QED BY <1>5, <1>12, Summed DEF added
<1> HIDE DEF power
<1>14. ASSUME NEW i \in 1 .. n
       PROVE  added[i] = IF i \in P THEN added[i - 1] + d[i] * power[Cardinality(DigitsBehind(n, P, i))]
                       ELSE added[i - 1]
  <2> DEFINE B == {j \in i + 1 .. n : ds[j] # Separator}
  <2>1. B = DigitsBehind(n, P, i)
    <3>1. \A j \in i + 1 .. n : j \in 1 .. n
      BY <1>5
    <3> QED BY <3>1 DEF DigitsBehind
  <2>2. i \in P => d[i] = to_digit(ds[i])
    <3> HIDE DEF P
    <3> QED OBVIOUS
  <2>3. i \in P <=> ds[i] # Separator
    OBVIOUS
  <2>4. added[i] = IF ds[i] = Separator THEN added[i - 1]
                 ELSE added[i - 1] + to_digit(ds[i]) * power[Cardinality(B)]
    BY <1>13 DEF AddsDigits
  <2> HIDE DEF d, P, B
  <2> QED BY <2>1, <2>2, <2>3, <2>4
<1>15. added[n] = w[n]
  <2> HIDE DEF d, P
  <2>1. Adds(n, b, P, d, w, power, added)
    BY <1>1, <1>5, <1>6, <1>9, <1>12, <1>13, <1>14 DEF Adds, AddsDigits
  <2> QED BY <2>1, PlaceValues
<1>16. w[n] \in Nat
  BY <1>5, <1>9
<1> QED BY <1>3, <1>4, <1>11, <1>15, <1>16

\* What is written has characters of those there are.
LiteralTyped == literal \in Seq(Characters)

\* There are none else.
LEMMA AlwaysLiteralTyped == LiteralSpec => []LiteralTyped
<1>1. LiteralInit => LiteralTyped
  BY DEF LiteralInit, LiteralTyped
<1>2. LiteralTyped /\ [LiteralNext]_literal => LiteralTyped'
  BY DEF LiteralNext, LiteralTyped
<1> QED BY <1>1, <1>2, PTL DEF LiteralSpec

\* A literal of C++ gives the parser digits, unless a separator follows a first 0.
LEMMA LiteralsParse ==
  ASSUME LiteralsAssumption, NEW X, NEW s \in Seq(X), IsLiteral(s), ~SeparatedZero(s)
  PROVE  Parses(s)
<1> DEFINE ds == IF Base(s) = 8 THEN s ELSE Digits(s)
           b == Base(s)
<1>1. /\ Digits(s) \in Seq(X) /\ ds \in Seq(X) /\ ds # <<>>
      /\ \A i \in DOMAIN ds : ds[i] = Separator \/ to_digit(ds[i]) < b
      /\ ds[1] # Separator
  <2>1. Digits(s) \in Seq(X)
    BY DigitsAre, Zenon
  <2>2. ds \in Seq(X)
    BY <2>1
  <2>3. /\ ds # <<>>
        /\ \A i \in DOMAIN ds : IF ds[i] = Separator THEN i > 1 /\ ds[i - 1] # Separator
                                                     ELSE to_digit(ds[i]) < b
    BY DEF IsLiteral
  <2> HIDE DEF ds, b
  <2>4. 1 \in DOMAIN ds /\ ~(1 > 1)
    BY <2>2, <2>3
  <2>5. ds[1] # Separator
    BY <2>3, <2>4
  <2> QED BY <2>1, <2>2, <2>3, <2>5
<1>2. CASE b # 8
  <2>1. ds = Digits(s)
    BY <1>2
  <2> HIDE DEF ds, b
  <2>2. 1 \in DOMAIN ds /\ Head(ds) = ds[1]
    BY <1>1
  <2> QED BY <1>1, <2>1, <2>2 DEF Parses, b
<1>3. CASE b = 8
  <2>1. Len(s) > 1 /\ s[1] = "0" /\ Digits(s) = Tail(s) /\ ds = s
    BY <1>3 DEF Base, Digits
  <2>2. s[2] # Separator
    BY <2>1 DEF SeparatedZero
  <2> HIDE DEF ds, b
  <2>3. /\ Tail(s) # <<>> /\ Head(Tail(s)) = s[2] /\ 2 \in DOMAIN s
        /\ \A i \in DOMAIN Tail(s) : Tail(s)[i] = s[i + 1] /\ i + 1 \in DOMAIN s
    <3>1. Len(s) \in Nat /\ Len(s) > 1 /\ DOMAIN s = 1 .. Len(s) /\ s # <<>>
      BY <2>1
    <3>2. /\ Tail(s) \in Seq(X) /\ Len(Tail(s)) = Len(s) - 1 /\ DOMAIN Tail(s) = 1 .. Len(s) - 1
          /\ \A i \in 1 .. Len(s) - 1 : Tail(s)[i] = s[i + 1]
      BY <3>1
    <3>3. Tail(s) # <<>> /\ Head(Tail(s)) = Tail(s)[1]
      <4> DEFINE t == Tail(s)
      <4>1. t \in Seq(X) /\ Len(t) >= 1
        BY <3>1, <3>2
      <4> HIDE DEF t
      <4>2. t # <<>> /\ Head(t) = t[1]
        BY <4>1
      <4> QED BY <4>2 DEF t
    <3>4. Tail(s)[1] = s[2]
      <4>1. 1 \in 1 .. Len(s) - 1 /\ 1 + 1 = 2
        BY <3>1
      <4>2. Tail(s)[1] = s[1 + 1]
        BY <3>2, <4>1, Zenon
      <4> QED BY <4>1, <4>2
    <3>5. \A i \in 1 .. Len(s) - 1 : i + 1 \in 1 .. Len(s)
      BY <3>1
    <3> QED BY <3>1, <3>2, <3>3, <3>4, <3>5
  <2> QED BY <1>1, <2>1, <2>2, <2>3 DEF Parses, b
<1> QED BY <1>2, <1>3

\* For every width of long long, every range of the type and every literal of C++, in
\* every base and with separators: the number that is written and no other, and a number
\* in the range compiles, with the exceptions LiteralValue names.
THEOREM AlwaysLiteralValue == LiteralSpec => []LiteralValue
<1>1. LiteralTyped => LiteralValue
  <2> DEFINE x == ExactValue
  <2> SUFFICES ASSUME LiteralTyped, NEW signed \in BOOLEAN
               PROVE  /\ Compiles(literal, signed) /\ (signed \/ x < Wide) =>
                           parse(literal, signed) = x
                      /\ IsLiteral(literal) /\ ~SeparatedZero(literal) /\ x <= Largest(signed) =>
                           Compiles(literal, signed)
    BY DEF LiteralValue
  <2>0. LiteralsAssumption
    BY LiteralsAssumption
  <2>1. /\ Wide \in Nat /\ Most \in 0 .. Wide - 1 /\ Wide >= 32 /\ Wide % 2 = 0
        /\ Largest(signed) \in Nat /\ Largest(signed) < Wide
        /\ signed => Largest(signed) < Wide \div 2 /\ Wide \div 2 \in Nat
    BY <2>0 DEF LiteralsAssumption, Largest
  <2>2. ASSUME Parses(literal)
        PROVE  x \in Nat /\ parse(literal, signed) = Within(signed, x)
    BY <2>0, <2>2, ParsedValue DEF LiteralTyped
  <2> HIDE DEF x
  <2>3. ASSUME Compiles(literal, signed), signed \/ x < Wide
        PROVE  parse(literal, signed) = x
    <3>1. x \in Nat /\ parse(literal, signed) = Within(signed, x) /\ Within(signed, x) <= Largest(signed)
      BY <2>2, <2>3 DEF Compiles
    <3>2. CASE signed
      <4>1. Within(signed, x) # Wide
        BY <2>1, <3>1
      <4> QED BY <3>1, <3>2, <4>1 DEF Within
    <3>3. CASE ~signed
      <4>1. x < Wide /\ x % Wide = x
        BY <2>1, <2>3, <3>1, <3>3
      <4> QED BY <3>1, <3>3, <4>1 DEF Within
    <3> QED BY <3>2, <3>3
  <2>4. ASSUME IsLiteral(literal), ~SeparatedZero(literal), x <= Largest(signed)
        PROVE  Compiles(literal, signed)
    <3>1. Parses(literal)
      BY <2>0, <2>4, LiteralsParse DEF LiteralTyped
    <3>2. x \in Nat /\ parse(literal, signed) = Within(signed, x)
      BY <2>2, <3>1
    <3>3. Within(signed, x) = x
      <4>1. CASE signed
        <5>1. x < Wide \div 2
          <6> DEFINE h == Wide \div 2
                     l == Largest(signed)
          <6>1. h \in Nat /\ l \in Nat /\ l < h /\ x <= l /\ x \in Nat
            BY <2>1, <2>4, <3>2, <4>1, Zenon
          <6> HIDE DEF h, l
          <6>2. x < h
            BY <6>1
          <6> QED BY <6>2 DEF h
        <5> QED BY <4>1, <5>1 DEF Within
      <4>2. CASE ~signed
        <5>1. x % Wide = x
          BY <2>1, <2>4, <3>2
        <5> QED BY <4>2, <5>1 DEF Within
      <4> QED BY <4>1, <4>2
    <3> QED BY <2>4, <3>1, <3>2, <3>3 DEF Compiles
  <2> QED BY <2>3, <2>4
<1> QED BY <1>1, AlwaysLiteralTyped, PTL
=============================================================================
