SPECIFICATION FairSpec
CONSTANTS
  Adapters = {a1}
  Total = 20
  Early = 17
  MaxTries = 2
  MaxCalls = 2
  MaxChecks = 1
INVARIANTS
  SourcesAreKnown
  CompletionIsHonest
PROPERTIES
  CompletionIsAnnounced
  StartsAndStopsEnd
CHECK_DEADLOCK FALSE
