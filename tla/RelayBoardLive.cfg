SPECIFICATION FairSpec
CONSTANTS
  NumRelays = 1
  MaxAutoOff = 2
  Commands <- LiveCommands
  DefaultPeriod = 1
  TimerQueueLen = 1
  TxQueueLen = 1
INVARIANTS ToggleNeverMisses OffStays
PROPERTIES AutoOffHappens SavedEventually
