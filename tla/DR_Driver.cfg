SPECIFICATION Spec
CONSTANTS
  Interfaces = {"uart", "assigned", "ethernet"}
  MaxCenters = 3
  MaxUpgrades = 2
  MaxFaults = 2
CHECK_DEADLOCK FALSE
INVARIANTS
  DriverListens
  OneUser
  LogKept
PROPERTIES
  Reconnects
  CommandReturns
