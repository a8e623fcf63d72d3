CONSTANTS
  Seconds <- MCSeconds
  Delays <- MCDelays
  Tickers <- MCTickers
  Required <- MCRequired
  MaxBatch = 2
SPECIFICATION MarketSpec
INVARIANTS
  LatePricesAreTight
  PricesAreAskedFor
PROPERTIES
  SilentSocketsClose
