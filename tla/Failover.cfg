SPECIFICATION FailoverFairSpec
CONSTANTS
  Feeds = {f1}
  Primaries = {p1}
  Backups = {b1}
  UnhealthyThreshold = 2
  RecoveryThreshold = 1
  MaxFailures = 2
  MaxSuccesses = 1
  NoSource = NoSource
PROPERTIES
  FailedActivationsAreMarked
CHECK_DEADLOCK FALSE
