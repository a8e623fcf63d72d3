SPECIFICATION CcxtFairSpec
CONSTANTS
  e1 = e1
  e2 = e2
  s1 = s1
  s2 = s2
  Exchanges = {e1, e2}
  Pairs = {s1, s2}
  Lists <- MCLists
  Batching = {e1}
  Single = {e2}
  SymbolLimit <- MCSymbolLimit
  Threshold = 1
  MaxCalls = 4
  MaxErrors = 1
INVARIANTS
  WatchedIsWatched
PROPERTIES
  LoopsEnd
CHECK_DEADLOCK FALSE
