CONSTANTS
  Manual = {m1, m2}
  Cron = {c1}
  Polled = {p1, p2}
  NoRun = NoRun
  MaxClock = 1
  MaxCrashes = 1
  MaxFaults = 1
  MaxEdits = 1
SYMMETRY Symmetry
SPECIFICATION Spec
INVARIANTS
  ManualRunsExclude
  OncePerPeriod
PROPERTIES
  ReleasedByItsRun
CHECK_DEADLOCK FALSE
