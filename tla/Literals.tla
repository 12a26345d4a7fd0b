------------------------------ MODULE Literals ------------------------------
(***************************************************************************)
(* The integer literals 0x12_u8, 5_i16, ... of Util/literals.hpp: their    *)
(* characters are parsed in the widest type and checked against the range  *)
(* of the literal's own.                                                   *)
(***************************************************************************)
EXTENDS Integers, FiniteSets, SequencesExt

CONSTANTS
  Wide,        \* 2 to the bits of long long
  Most,        \* the largest value of the literal's type if it is unsigned
  Characters,  \* of the literals, strings of one character
  MaxDigits    \* bound on their number

ASSUME LiteralsAssumption ==
  /\ Wide \in Nat /\ Wide >= 32 /\ Wide % 2 = 0   \* every digit is a long long
  /\ Most \in 0 .. Wide - 1
  /\ MaxDigits \in Nat

VARIABLE literal   \* the characters, as far as they are written

Separator == "'"

\* to_digit by digit_category; what is no digit does not compile.
to_digit(c) ==
  CASE c = "0" -> 0 [] c = "1" -> 1 [] c = "2" -> 2 [] c = "3" -> 3 [] c = "4" -> 4
    [] c = "5" -> 5 [] c = "6" -> 6 [] c = "7" -> 7 [] c = "8" -> 8 [] c = "9" -> 9
    [] c \in {"a", "A"} -> 10 [] c \in {"b", "B"} -> 11 [] c \in {"c", "C"} -> 12
    [] c \in {"d", "D"} -> 13 [] c \in {"e", "E"} -> 14 [] c \in {"f", "F"} -> 15
    [] OTHER -> Wide

Prefixed(s, cs) == Len(s) > 1 /\ s[1] = "0" /\ s[2] \in cs

\* parse_base: the longest matching prefix decides.
Base(s) ==
  CASE Prefixed(s, {"x", "X"}) -> 16
    [] Prefixed(s, {"b", "B"}) -> 2
    [] Len(s) > 1 /\ s[1] = "0" /\ ~Prefixed(s, {"x", "X", "b", "B"}) -> 8
    [] OTHER -> 10

Digits(s) ==
  IF Base(s) \in {2, 16} THEN SubSeq(s, 3, Len(s)) ELSE IF Base(s) = 8 THEN Tail(s) ELSE s

\* The first digit is taken before separators are looked for.
Parses(s) ==
  LET ds == Digits(s)
  IN  /\ ds # <<>> /\ to_digit(Head(ds)) < Base(s)
      /\ \A i \in DOMAIN ds : ds[i] = Separator \/ to_digit(ds[i]) < Base(s)

\* A result in long long or unsigned long long: where a signed one overflows, there is
\* no constant, for which Wide stands, and the literal does not compile.
Within(signed, n) ==
  IF ~signed THEN n % Wide ELSE IF n < Wide \div 2 THEN n ELSE Wide

\* Mutant: a separator counts as a zero.
ParseStepShifts(signed, base, v, c) ==
  Within(signed, v * base + (IF c = Separator THEN 0 ELSE to_digit(c)))

\* parse_loop for one character.
ParseStep(signed, base, v, c) ==
  IF c = Separator THEN v ELSE Within(signed, v * base + to_digit(c))

parse(s, signed) ==
  LET ds == Digits(s)
  IN  FoldLeft(LAMBDA v, c : ParseStep(signed, Base(s), v, c), to_digit(Head(ds)), Tail(ds))

\* std::numeric_limits<T>::max()
Largest(signed) == IF signed THEN Most \div 2 ELSE Most

\* parse_signed and parse_unsigned with validate_value and the digits' assertions.
Compiles(s, signed) == Parses(s) /\ parse(s, signed) <= Largest(signed)

LiteralInit == literal = <<>>

LiteralNext == \E c \in Characters : Len(literal) < MaxDigits /\ literal' = Append(literal, c)

LiteralSpec == LiteralInit /\ [][LiteralNext]_literal
-----------------------------------------------------------------------------
(* Literals as C++ has them.                                                *)

\* A separator stands between two digits; the 0 of an octal literal is one of them.
IsLiteral(s) ==
  LET ds == IF Base(s) = 8 THEN s ELSE Digits(s)
  IN  /\ ds # <<>> /\ ds[Len(ds)] # Separator
      /\ \A i \in DOMAIN ds :
           IF ds[i] = Separator THEN i > 1 /\ ds[i - 1] # Separator
                                ELSE to_digit(ds[i]) < Base(s)

\* 0'7
SeparatedZero(s) == Len(s) > 1 /\ s[1] = "0" /\ s[2] = Separator

\* The number: each digit times the base to the number of the digits behind it,
\* separators and prefix left out.
ExactValue ==
  LET ds == Digits(literal)
      behind(i) == {j \in i + 1 .. Len(ds) : ds[j] # Separator}
      power[n \in Nat] == IF n = 0 THEN 1 ELSE Base(literal) * power[n - 1]
      sum[i \in 0 .. Len(ds)] ==
        IF i = 0 THEN 0
        ELSE IF ds[i] = Separator THEN sum[i - 1]
        ELSE sum[i - 1] + to_digit(ds[i]) * power[Cardinality(behind(i))]
  IN  sum[Len(ds)]
-----------------------------------------------------------------------------
\* A literal that compiles is the number that is written, unless it is unsigned and the
\* number too large for unsigned long long, and every literal of C++ with a number in the
\* range of its type does compile, unless a separator follows the 0 of an octal one: to
\* the parser (detail/constant_parser.hpp:122) the digits begin behind that 0.
LiteralValue ==
  \A signed \in BOOLEAN :
    /\ Compiles(literal, signed) /\ (signed \/ ExactValue < Wide) =>
         parse(literal, signed) = ExactValue
    /\ IsLiteral(literal) /\ ~SeparatedZero(literal) /\ ExactValue <= Largest(signed) =>
         Compiles(literal, signed)

\* "integer literal overflow" (literals.hpp:20): what is too large for an unsigned type
\* does not compile.
OverflowRefused == Compiles(literal, FALSE) => ExactValue <= Largest(FALSE)
=============================================================================
