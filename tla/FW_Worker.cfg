SPECIFICATION FairSpec
CONSTANTS
  total = 7
  max_data_len = 3
  EraseUnit = 3
  Faults = {"loss", "write", "hook", "stop"}
CHECK_DEADLOCK FALSE
INVARIANTS
  TypeOK
  ImageComplete
  CopiesSuffice
PROPERTIES
  WorkEnds
