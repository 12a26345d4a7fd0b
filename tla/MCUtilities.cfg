\* Each value type, container and list algorithm by itself.  Five slots: every split
\* of a rotation of up to five elements, with all contents that tell the places of the
\* elements apart.  Three slots for three keys.
SPECIFICATION UtilitiesSpec
CONSTANTS
  N = 3
  Fields <- MCFields
  Messages <- MCMessages
  Assigned <- MCAssigned
  TypeMin <- MCTypeMin
  TypeMax = 3
  min <- MCMin
  max = 3
  Operands <- MCOperands
  Callables = {f, g}
  Nothing = Nothing
  Unroll = 2
  ListKeys = {1, 2, 3}
  MaxLen = 8
  Wide = 64
  Most = 15
  Characters <- MCCharacters
  MaxDigits = 5
  Capacity = 5
  OtherCapacity = 3
  Values = {0, 1}
  Zero = 0
  Gone = gone
  EmptyInside = FALSE
  Keys = {k1, k2, k3}
  DefaultKey = k1
  Mapped = {x, y}
  Default = x
INVARIANTS AsLaidOut Saturates CallsWhatIsMeant Sorts Finds LiteralValue
INVARIANTS LikeSequence RotatesInside Alive Comparisons
PROPERTY IsDictionary
CHECK_DEADLOCK FALSE
