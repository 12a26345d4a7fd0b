\* The assertion of submitQueued_ in main.
SPECIFICATION FairSpec
CONSTANTS
  Requests = {r1, r2}
  Timeout = 2
  ErrorThreshold = 2
INVARIANT NeverInFlightOnSubmit
CHECK_DEADLOCK FALSE
