\* Calls that clear a toggle bit beside a runtime write of its register.
SPECIFICATION Spec
CONSTANTS
  SequencePoint = SequencePoint
  MaxArgs = 2
  Unroll = 8
  Bits <- MCBits
  Regs <- MCRegs
  WIIZ <- MCWIIZ
  WIIO <- MCWIIO
  Kind <- MCKind
  Calls <- MCToggleCalls
  Programs <- MCTogglePrograms
  Powerup <- MCPowerup
INVARIANT ToggleEndsCleared
CHECK_DEADLOCK FALSE
