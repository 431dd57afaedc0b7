CONSTANTS
  Jobs = {j1, j2}
  Snapshots = {s1}
  Null = Null
  Watched = {}
  MaxDecisions = 2
  MaxWorkers = 1
  MaxCrashes = 1
  MaxFaults = 1
  MaxIntruders = 0
SPECIFICATION FairSpec
INVARIANTS
  EvidenceHasSnapshot
PROPERTIES
  OpenJobsSettle
