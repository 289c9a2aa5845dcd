SPECIFICATION Spec
CONSTANTS
  total = 7
  max_data_len = 3
  EraseUnit = 3
  Faults = {"loss", "late"}
CHECK_DEADLOCK FALSE
INVARIANTS
  UpgradesFirmware
