\* Writes that never fail.
SPECIFICATION ManagerSpec
CONSTANTS
  LabelTexts = {"x"}
  MaxSessions = 2
  MaxFileEntries = 4
  WritesFail = FALSE
PROPERTY ForkKeepsContext
CHECK_DEADLOCK FALSE
