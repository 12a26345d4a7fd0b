\* Every call of up to two arguments, a read beside a write of its register included.
SPECIFICATION Spec
CONSTANTS
  SequencePoint = SequencePoint
  MaxArgs = 2
  Unroll = 8
  Bits <- MCBits
  Regs <- MCRegs
  WIIZ <- MCWIIZ
  WIIO <- MCWIIO
  Kind <- MCKind
  Calls <- MCCalls
  Programs <- MCPrograms
  Powerup <- MCPowerup
INVARIANT ReadsObservePreWrite
CHECK_DEADLOCK FALSE
