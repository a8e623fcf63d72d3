SPECIFICATION FairSpec
CONSTANTS
  Sockets = {k1, k2}
  Symbols = {btc}
  Orchestrator = orch
  Connectors = {manager}
  Subscriber = subscriber
  NoSocket = NoSocket
  MaxRetries = 1
  MaxAttempts = 2
INVARIANTS
  NeverStranded
  ShutdownIsFinal
PROPERTIES
  Reopens
