SPECIFICATION SessionSpec
CONSTANTS
  Sessions <- MCSessions
  Registrations <- MCRegistrations
  BEFORE_ALL = BEFORE_ALL
  AFTER_ALL = AFTER_ALL
  FIRMWARE = FIRMWARE
  None = None
  Size = 1
  Faults = {"error", "raise"}
  Blocks = 2
  MaxTries = 1
  SdkFaults = {"loss"}
  MaxJumps = 2
  LinkFaults = {"loss", "late"}
CHECK_DEADLOCK FALSE
INVARIANTS
  CalledInTurn
  FinishMeansAll
  FinishOnce
  BarAddsUp
  WrittenInBoot
  EveryPartInstalled
  BackInApplication
PROPERTIES
  SessionEnds
