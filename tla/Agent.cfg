\* The throwing instance: parallel calls, and listeners that throw at any event.
SPECIFICATION MCSpec
CONSTANTS
  Runs = {r1, r2}
  MaxTurns = 1
  MaxCalls = 2
  MaxMessages = 1
  ListenersThrow = TRUE
  Resumes = FALSE
INVARIANTS RequestIsTranscript NothingLostOrDoubled CallsAnswered PendingCalls
PROPERTIES EndIsLast RunsEnd
CHECK_DEADLOCK FALSE
