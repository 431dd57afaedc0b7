CONSTANTS
  Reports = {r1, r2}
  Generations = {g1}
  Scans = {s1}
  Analyses <- MCAnalyses
  Workers = 1
  MaxCrashes = 1
  MaxIntruders = 1
  MaxFaults = 2
SPECIFICATION FairSpec
INVARIANTS
  CompletedHasItsPdf
  GeneratedOnce
PROPERTIES
  JobsKeepTheirLifecycle
  JobsSettle
CHECK_DEADLOCK FALSE
