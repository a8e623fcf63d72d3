SPECIFICATION UnionSpec
CONSTANTS
  Services = {s1}
  Requests = {r1, r2}
  Timers = {t1, t2}
  NoTimer = NoTimer
  FailureThreshold = 2
  SuccessThreshold = 2
  RecoveryTimeout = 1
  GracePeriod = 1
  StuckTimeout = 2
  Feeds = {f1}
  Primaries = {p1}
  Backups = {b1}
  UnhealthyThreshold = 2
  RecoveryThreshold = 1
  MaxFailures = 2
  MaxSuccesses = 1
  NoSource = NoSource
  Pairs = {n1, n2, n3}
  Calls = {c1, c2}
  BatchSize = 2
  Slots = {slot1, slot2}
  MaxAttempts = 2
  Watched = {s1}
  Batch = 1
  Day = 2
  Retention = 3
INVARIANTS
  OpenWillRecover
  NoPrimaryIsForgotten
  TrackedIsStreamed
  QuietAfterCleanup
  AlertsExpire
  CriticalIsCurrent
PROPERTIES
  TurnsAreEarned
CHECK_DEADLOCK FALSE
