SPECIFICATION Spec
CONSTANTS
  Switches <- AllSwitches
  Buttons = {"a"}
  Targets <- AllTargets
  None = "none"
  MaxNodes = 2
  Databases <- FirstStays
  MaxPushes = 2
  MaxPairs = 1
  TooLong <- NothingLong
  Devices <- AllDevices
  MaxRoutes = 2
PROPERTY OwnTargets
