CONSTANTS
  MaxToolRounds = 1
  Targets <- MCTargets
  Positions <- MCPositions
  Reviewers = {v1}
  Clients = {c1, c2}
  Faults = 2
SPECIFICATION FairSpec
INVARIANTS
  DecidedOnAllReports
  EveryListenerIsTold
PROPERTIES
  LongsAreReviewed
  TradedAsDecided
  OutcomeStands
  StreamsEnd
CHECK_DEADLOCK FALSE
