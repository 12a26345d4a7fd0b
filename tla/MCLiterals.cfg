\* Six bits for unsigned long long, four for the type.
CONSTANTS
  Wide = 64
  Most = 15
  Characters <- MCCharacters
  MaxDigits = 5
SPECIFICATION LiteralSpec
INVARIANT OverflowRefused
CHECK_DEADLOCK FALSE
