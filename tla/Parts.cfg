\* Two callers of the storage, with failing and torn writes, crashes and
\* reopening; a manager of two files; three calls of the tools; one reviewed file;
\* two instances that share credentials; a client of the RPC mode.
SPECIFICATION PartsSpec
CONSTANTS
  Writers = {w1, w2}
  Labels = {"x"}
  MaxEntries = 3
  MaxWindow = 1
  Calls = {c1, c2, c3}
  Paths = {"/real/a", "/link/a"}
  Files = {"a"}
  FileOf <- LinkedFile
  RealPath <- RealFile
  Instances = {"i1", "i2"}
  Requests = {"c1", "c2"}
  InstanceOf <- OwnInstance
  Providers = {"oauth", "key"}
  OAuthProviders = {"oauth"}
  Given = 2
  InitialFile <- TokenAndKey
  MaxIssued = 3
  LabelTexts = {"x"}
  MaxSessions = 2
  MaxFileEntries = 3
  WritesFail = TRUE
  Commands = {"q1", "q2"}
  Waiters = {"w1"}
  Observers = {}
  MaxEvents = 1
  MaxStarts = 2
  ReviewedFiles = {"f"}
  Lines = {"bad"}
  Twins = {}
  Matches <- MatchesBad
  PlainRules = {}
  MaxLines = 3
INVARIANTS TypeOK DiskRefersBack CommittedIsPersisted LeafKnown ReopenRestores PathsEnd
  FileMirrorsMemory  OneCallPerKey EditsAreSerial TokensSpentOnce ChangesAreKept
  NoMissedViolation
PROPERTIES AppendContinuesBranch ImplementsSessionLog LinesSurvive ForkKeepsLabels CallsSettle
  NobodyForgotten
CHECK_DEADLOCK FALSE
