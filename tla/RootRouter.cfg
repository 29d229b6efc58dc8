SPECIFICATION FairSpec
CONSTANTS
  Switches <- AllSwitches
  Buttons = {"a"}
  Targets <- AllTargets
  None = "none"
  MaxNodes = 2
  Databases <- TwoDatabases
  MaxPushes = 2
  MaxPairs = 1
  TooLong <- TypesOfSecond
  Devices <- AllDevices
  MaxRoutes = 2
INVARIANTS TypeOK ListedRouted EventsRouted PushesApplied
PROPERTIES EventEnds
