SPECIFICATION Spec
CONSTANTS
  NumRelays = 1
  MaxAutoOff = 2
  Commands <- RaceCommands
  DefaultPeriod = 1
  TimerQueueLen = 10
  TxQueueLen = 4
PROPERTIES TimerNeverLost
