SPECIFICATION FairSpec
CONSTANTS
  MaxBlocks = 3
  MaxUpgrades = 2
  Faults = {"read", "raw", "frame", "find"}
CHECK_DEADLOCK FALSE
INVARIANTS
  TypeOK
  BlocksInOrder
  FindAlone
  AtMostOneStrayRead
  AtMostOneLateParse
PROPERTIES
  ErrorReported
  EveryBlockParsed
  ThreadsEnd
