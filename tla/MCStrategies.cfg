CONSTANTS
  Ids = {s1, s2}
  Configs <- MCConfigs
  Updates <- MCUpdates
  Percents = {0, 50, 100}
  MaxEdits = 5
  Jobs = {j1, j2}
  MaxAsks = 3
  MaxDecisions = 2
SYMMETRY Symmetry
SPECIFICATION Spec
INVARIANTS
  StoredQuantIsExecutable
  FrozenPolicyRuns
CHECK_DEADLOCK FALSE
