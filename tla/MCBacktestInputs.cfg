CONSTANTS
  Tickers = {"T", "B"}
  LastBar = 6
  Start = 4
  Recent = 5
  Watched = {"T"}
  Listings <- MCListings
  Revisions <- MCRevisions
  Absent = Absent
  MaxRefreshes = 1
  Jobs = {j1, j2}
  Policies <- MCPolicies
  Pairs <- MCPairs
  MaxLoads = 2
SYMMETRY Symmetry
SPECIFICATION Spec
INVARIANTS
  SamePastSameDecisions
  ReadyWithItsWarmup
  AloneIsAccepted
CHECK_DEADLOCK FALSE
