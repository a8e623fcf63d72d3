SPECIFICATION FairSpec
CONSTANTS
  f1 = f1
  f2 = f2
  Feeds <- TwoFeeds
  Requests = {r1}
  FeedLists <- Lists
  MaxTries = 2
  NoFeed = NoFeed
INVARIANTS
  LockHasWork
  CurrentAnswersOwnValues
PROPERTIES
  RequestsEnd
