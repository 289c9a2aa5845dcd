SPECIFICATION FairSpec
CONSTANTS
  Callers = {c1, c2}
  Parser = parser
  Checker = checker
  MaxCalls = 2
  Faults = {"silent"}
  None = None
CHECK_DEADLOCK FALSE
INVARIANT OneInFlight
PROPERTY WrittenFinishes
