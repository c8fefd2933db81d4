SPECIFICATION Spec
CONSTANTS
  Callers = {p1}
  Stops = {"stop", "retryable", "overflow"}
  Resumes = {}
  Keeps = {"all"}
  MaxRetries = 1
  MaxSent = 1
  MaxCalls = 1
  MaxExtras = 0
INVARIANT RecoveryRetries
CHECK_DEADLOCK FALSE
