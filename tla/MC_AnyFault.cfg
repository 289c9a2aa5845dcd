SPECIFICATION Spec
SYMMETRY CallerSymmetry
CONSTANTS
  Callers = {c1, c2}
  Parser = parser
  Checker = checker
  MaxCalls = 2
  Faults = {"silent", "late", "write", "stop", "preempt"}
  None = None
CHECK_DEADLOCK FALSE
CONSTRAINT CallsBound
INVARIANTS
  TypeOK
  NothingDropped
  RunAtMostOnce
  AtMostOneBlocks
  OwnUnlessTimeout
