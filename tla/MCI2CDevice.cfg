\* A driver that holds three requests, callbacks that submit again without bound.
SPECIFICATION FairSpec
CONSTANTS
  Requests = {r1, r2, r3}
  Timeout = 2
  ErrorThreshold = 2
   
PROPERTIES InFlightEnds IdleAgain ErrorsReset
CHECK_DEADLOCK FALSE
