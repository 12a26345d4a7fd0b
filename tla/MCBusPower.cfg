CONSTANTS
  N = 2
  PowerOff = 5
  PowerOn = 1
  MaxErrors = 5
  MaxResets = 5
  MaxFails = 2
SPECIFICATION PowerFairSpec
INVARIANTS Exclusive OwnerReset Settled
PROPERTIES PowerComesBack BusComesBack
