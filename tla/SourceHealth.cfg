SPECIFICATION UnionSpec
CONSTANTS
  MaxLoops = 3
  Retries = 1
  MaxErrors = 1
  s1 = s1
  s2 = s2
  Sources = {s1, s2}
  Cooldown = 3
  ReconnectDelay = 1
  MaxDelay = 12
  MaxAttempts = 2
  TryLimit = 1
  MaxFailovers = 2
  MaxTimers = 2
INVARIANTS
  AlwaysRetried
  HealthIsHonest
  OneReconnection
PROPERTIES
  RetriesDieOut
  RecoveryGoesQuiet
CHECK_DEADLOCK FALSE
