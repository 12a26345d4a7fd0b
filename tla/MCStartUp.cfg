\* Two modules, one fault and two interrupts.  A cycle counter of three bits wraps
\* within a few runs, and is 0 at an entry in some of them.
CONSTANTS
  Modules = 2
  Begin <- MCBegin
  End = 2
  Faults <- MCFaults
  Configs <- HandledConfigs
  MaxRuns = 2
  None = None
  CounterWrap = 8
  Gaps = {4, 7}
  Durations = {1, 3}
  MaxCalls = 3
SPECIFICATION BothSpec
INVARIANTS HandlersFindAllSet OwnHandler Counted Exact Covers
CHECK_DEADLOCK FALSE
