SPECIFICATION Spec
CONSTANTS
  Nodes = {"r1", "r2", "s1"}
  Relays = {"r1", "r2"}
  Outputs = {"x", "y", "z"}
  A = A
  B = B
  Roots = {A, B}
  Nowhere = "nowhere"
  MaxFirmware = 1
  MaxNodes = 2
  MaxQueue = 2
  PingPongNumber = 2
  Board <- BoardOf
  Letter <- LetterOf
  Firmware <- FirstFirmware
  FirstTimes <- TimesInFlash
  Pushes <- OneTable
  MaxInputs = 2
  MaxFaults = 1
INVARIANTS TypeOK StatesArrive SyncRepairs AutoOffArrives UpdateReaches PingsAccounted UpToDateIsNewest
SYMMETRY Same
CHECK_DEADLOCK FALSE
