CONSTANTS
  Jobs = {j1, j2}
  Snapshots = {s1, s2}
  Null = Null
  Watched = {j1, j2}
  MaxDecisions = 1
  MaxWorkers = 2
  MaxCrashes = 1
  MaxFaults = 0
  MaxIntruders = 1
SYMMETRY Symmetry
SPECIFICATION Spec
INVARIANTS
  CompletedIsVerifiable
  AnswersStand
  ReplayFidelity
PROPERTIES
  WriteOnce
