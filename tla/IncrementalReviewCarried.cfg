SPECIFICATION ReviewSpec
CONSTANTS
  ReviewedFiles = {"f"}
  Lines = {"bad", "good"}
  Twins = {}
  Matches <- MatchesBad
  PlainRules = {"plain"}
  MaxLines = 2
INVARIANT CarriedIssuesUnchanged
