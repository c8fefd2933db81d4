\* The busy instance: a new session, two messages, and two tool calls, bash results,
\* aborts or compactions.
SPECIFICATION MCSpec
CONSTANTS
  Callers = {p1}
  Stops = {"stop", "toolUse", "retryable"}
  Resumes = {}
  Keeps = {"recent"}
  MaxRetries = 1
  MaxSent = 2
  MaxCalls = 1
  MaxExtras = 2
INVARIANTS TranscriptIsSaved EveryMessageOnce MirrorIsFaithful ResultsFollowCalls FailuresBounded
PROPERTY PromptsSettle
CHECK_DEADLOCK FALSE
