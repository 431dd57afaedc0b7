CONSTANTS
  Reads = {r1}
  Writes = {w1}
  Unknown = {u1}
  KeepLast = 1
  MaxIterations = 3
  MaxCalls = 3
SPECIFICATION FairSpec
INVARIANTS
  EveryCallAnswered
PROPERTIES
  WritesRunLast
  RunEnds
CHECK_DEADLOCK FALSE
