\* The ignoring policy, ranges up to the whole ring.
SPECIFICATION FairSpec
CONSTANTS
  Size = 3
  Values = {z, v}
  Zero = z
  MaxBatch = 2
  AssertOnOverflow = FALSE
INVARIANT NoDataRace
PROPERTIES IsFifo FrontStable DrainProgress
