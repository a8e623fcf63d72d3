SPECIFICATION RequestsFairSpec
CONSTANTS
  Clients = {c1}
  GlobalLimit = 2
  ControllerLimit = 1
  Window = 1
  Requests = {r1}
  MaxRetries = 1
  FailureThreshold = 2
  SuccessThreshold = 1
INVARIANTS
  AdmittedWithinLimit
PROPERTIES
  EveryRequestIsAnswered
