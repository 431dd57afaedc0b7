CONSTANTS
  Ticker = a
  Tickers = {a}
  Prices <- MCPrices
  Limits = {}
  Quantities <- MCQuantities
  Clients = {}
  NoClient = NoClient
  InitialCash = 9
  Scale = 10
  Commission = 1
  Slippage = 1
  MaxPosition = 9
  AllowShort = FALSE
  NextOpen = TRUE
  MaxOrders = 4
  MaxBars = 4
  Targets <- MCTargets
  MaxStale = 1
  MaxMissing = 1
SPECIFICATION ReportSpec
INVARIANTS
  SizedOrdersFill
  ExecutedOnTheNextBar
  TargetReachedFromBelow
  LedgerReconciles
  ClosedTradesAreRoundTrips
  FiguresAreRight
  DecisionsAccountedFor
CHECK_DEADLOCK FALSE
