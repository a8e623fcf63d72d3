SPECIFICATION FairSpec
CONSTANTS
  binance = binance
  kraken = kraken
  kucoin = kucoin
  upbit = upbit
  Reported = {100, 103, 110, 150}
  gate = gate
  probit = probit
  Crowded = {100, 104, 107}
  Polar = {100, 107}
  Inputs <- SomeInputs
  NewPrices = {0, 101, 150}
  Trust <- TrustOf
  Tier <- TierOf
  Decay <- DecayOf
  Cent = 5
  MaxRevisions = 1
  HonestCount = 4
  Markets = {50, 100, 200}
  Mistakes <- MistakesOf
  MinPrice = 60
  MaxPrice = 1000
  HistoricalWindow = 10
  CrossSourceWindow = 2
  MaxDisturbances = 1
INVARIANTS
  PriceWithinSources
  OrderDoesNotMatter
  OneBadSourceIsIsolated
PROPERTIES
  MovesAreAccepted
