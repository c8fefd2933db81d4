SPECIFICATION Spec
CONSTANTS
  Runs = {r1}
  MaxTurns = 0
  MaxCalls = 0
  MaxMessages = 1
  MaxCompacts = 0
  Overlap = FALSE
  HooksThrow = FALSE
INVARIANT AbortReachesTheRun
CHECK_DEADLOCK FALSE
