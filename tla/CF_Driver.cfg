SPECIFICATION Spec
CONSTANTS
  Header = 3
  Traffics <- MCTraffics
  Consumers = {"provider", "can"}
  valid_base_len = 2
  MaxChunk = 3
  MaxCuts = 2
  MaxEarly = 1
  Kinds = 9
  MaxLost = 7
  MaxEpochs = 3
  None = None
  MaxTries = 5
CHECK_DEADLOCK FALSE
INVARIANTS
  FramesInStep
  SkipsBounded
  RowOfOneEpoch
  RowsKept
PROPERTIES
  CorrectionsResume
