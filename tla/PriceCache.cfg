SPECIFICATION FairSpec
CONSTANTS
  Feeds = {f1, f2}
  Rounds = {r1}
  Current = Current
  MaxSize = 2
  EvictDivisor = 2
  MaxEvicted = 1
  InitialTtl = 2
  LeastTtl = 1
  RoundTtl = 4
  AccessGap = 0
  Fills = {p1}
  MaxVersion = 2
  MaxAccesses = 1
  MaxIdle = 1
INVARIANTS
  SizeBounded
PROPERTIES
  IsPriceBoard
  StalePricesEnd
CHECK_DEADLOCK FALSE
