SPECIFICATION Spec
CONSTANTS
  Runs = {r1, r2}
  MaxTurns = 0
  MaxCalls = 0
  MaxMessages = 3
  MaxCompacts = 0
  Overlap = TRUE
  HooksThrow = FALSE
INVARIANT DeferredWrittenOnce
CHECK_DEADLOCK FALSE
