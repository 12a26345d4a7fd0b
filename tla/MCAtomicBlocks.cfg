CONSTANTS
  Levels = 1
  MaxDepth = 3
  Words <- Bits
  Zero = 0
  Plus <- MCPlus
  Requests <- MCRequests
SPECIFICATION FairSpec
INVARIANTS Guarded MaskKept
PROPERTIES Atomic InterruptsComeBack
