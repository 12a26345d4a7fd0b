\* Calls of up to three arguments that do not clear a toggle bit beside a
\* runtime write of its register.
SPECIFICATION Spec
CONSTANTS
  SequencePoint = SequencePoint
  MaxArgs = 3
  Unroll = 8
  Bits <- MCBits
  Regs <- MCRegs
  WIIZ <- MCWIIZ
  WIIO <- MCWIIO
  Kind <- MCKind
  Calls <- MCCalls
  Programs <- MCPrograms
  Powerup <- MCPowerup
INVARIANTS AppliedCorrectly MergedOnce ReadsSeeEarlierGroups
PROPERTIES Frame FlagsOnlyOnPurpose
CHECK_DEADLOCK FALSE
