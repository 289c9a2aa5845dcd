SPECIFICATION Spec
CONSTANTS
  Interfaces = {"uart"}
  MaxCenters = 2
  MaxUpgrades = 1
  MaxFaults = 1
CHECK_DEADLOCK FALSE
PROPERTIES
  UpgradeAnswered
