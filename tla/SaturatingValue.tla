-------------------------- MODULE SaturatingValue ---------------------------
(***************************************************************************)
(* Kvasir::SaturatingValue (Util/SaturatingValue.hpp): a number of a       *)
(* built-in type that stays between min and max.                           *)
(***************************************************************************)
EXTENDS Integers

CONSTANTS
  TypeMin, TypeMax,   \* the range of ValueType
  min, max,           \* the template arguments
  Operands            \* numbers added and subtracted, of a type of their own

ASSUME SaturatingAssumption ==
  /\ TypeMin \in Int /\ TypeMax \in Int /\ min \in Int /\ max \in Int
  /\ TypeMin <= min /\ min <= max /\ max <= TypeMax
  /\ Operands \subseteq Int

VARIABLES
  value,
  sum                 \* what the value should be

valueVars == <<value, sum>>

clamped(x) == IF x < min THEN min ELSE IF x > max THEN max ELSE x

Overflows(x) == x < TypeMin \/ x > TypeMax

\* What is assigned, at first and later.
ValueInit == \E x \in Operands : ~Overflows(x) /\ value = clamped(x) /\ sum = value

Increment ==
  /\ value' = IF value # max THEN value + 1 ELSE value
  /\ sum' = clamped(sum + 1)

Decrement ==
  /\ value' = IF value # min THEN value - 1 ELSE value
  /\ sum' = clamped(sum - 1)

\* Mutant: every overflow is one at the top.
AddedTop(x) == IF Overflows(value + x) THEN max ELSE clamped(value + x)

\* operator+=: the sign of the operand tells which end an overflow passed.
Added(x) == IF Overflows(value + x) THEN IF x > 0 THEN max ELSE min ELSE clamped(value + x)

Subtracted(x) == IF Overflows(value - x) THEN IF x < 0 THEN max ELSE min ELSE clamped(value - x)

Add(x) == value' = Added(x) /\ sum' = clamped(sum + x)

Subtract(x) == value' = Subtracted(x) /\ sum' = clamped(sum - x)

ValueNext == Increment \/ Decrement \/ \E x \in Operands : Add(x) \/ Subtract(x)

ValueSpec == ValueInit /\ [][ValueNext]_valueVars
-----------------------------------------------------------------------------
\* Whatever is added, also where the built-in addition wraps, the value is the exact
\* sum brought into the range.
Saturates == value = sum /\ value \in min .. max
=============================================================================
