CONSTANTS
  Manual = {m1}
  Cron = {}
  Polled = {}
  NoRun = NoRun
  MaxClock = 1
  MaxCrashes = 1
  MaxFaults = 0
  MaxEdits = 0
SPECIFICATION FairSpec
PROPERTIES
  RunningEnds
CHECK_DEADLOCK FALSE
