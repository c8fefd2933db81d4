\* Disciplined callers: two runs with a tool call, three messages or writes.
SPECIFICATION Spec
CONSTANTS
  Runs = {r1, r2}
  MaxTurns = 1
  MaxCalls = 1
  MaxMessages = 3
  MaxCompacts = 0
  Overlap = FALSE
  HooksThrow = FALSE
SYMMETRY RunSymmetry
INVARIANTS EveryMessageOnce DeferredWrittenOnce TranscriptIsLinear RequestIsSession
  AbortIsBarrier
CHECK_DEADLOCK FALSE
