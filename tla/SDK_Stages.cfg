SPECIFICATION SdkSpec
CONSTANTS
  Blocks = 3
  MaxTries = 2
  SdkFaults = {"loss", "late", "stop"}
CHECK_DEADLOCK FALSE
INVARIANTS
  InStep
PROPERTIES
  SdkEnded
