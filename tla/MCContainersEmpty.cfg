\* An empty range may be inserted before the end.
CONSTANTS
  Capacity = 3
  OtherCapacity = 2
  Values = {0, 1}
  Zero = 0
  Gone = gone
  EmptyInside = TRUE
  Keys = {k1, k2}
  DefaultKey = k1
  Mapped = {x, y}
  Default = x
SPECIFICATION Spec
INVARIANT RotatesInside
CHECK_DEADLOCK FALSE
