CONSTANTS
  Tickers = {a}
  Prices = {1, 2}
  Limits <- MCLimits
  Quantities = {1, 2}
  Clients = {c}
  NoClient = NoClient
  InitialCash = 4
  Scale = 10
  Commission = 1
  Slippage = 1
  MaxPosition = 8
  AllowShort = FALSE
  NextOpen = FALSE
  MaxOrders = 3
  MaxBars = 2
SPECIFICATION BrokerSpec
INVARIANTS
  CashNeverNegative
  NoShortPositions
PROPERTIES
  SettledForever
  CapHoldsAfterMarketFill
