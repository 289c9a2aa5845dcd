SPECIFICATION FairSpec
CONSTANTS
  Callers = {c1}
  Parser = parser
  Checker = checker
  MaxCalls = 4
  Faults = {"silent"}
  None = None
CHECK_DEADLOCK FALSE
PROPERTY ServesCommands
