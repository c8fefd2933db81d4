\* Hooks and listeners that throw at any event, and a compaction.
SPECIFICATION FairSpec
CONSTANTS
  Runs = {r1, r2}
  MaxTurns = 0
  MaxCalls = 0
  MaxMessages = 2
  MaxCompacts = 1
  Overlap = FALSE
  HooksThrow = TRUE
INVARIANTS TypeOK PhaseGuardsTheLoop
PROPERTIES OperationsSettle AbortSettles
CHECK_DEADLOCK FALSE
