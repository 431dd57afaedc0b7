CONSTANTS
  MaxAlerts = 3
  Checks = {c1, c2, c3}
  MaxAlertCrashes = 1
SYMMETRY Symmetry
SPECIFICATION AlertSpec
INVARIANTS
  NotifiedOncePerLife
  SentIsMarked
CHECK_DEADLOCK FALSE
