SPECIFICATION FairSpec
CONSTANTS
  MaxBlocks = 2
  MaxUpgrades = 0
  Faults = {"read", "find"}
CHECK_DEADLOCK FALSE
PROPERTY ParserReturnsOnException
