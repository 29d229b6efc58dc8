SPECIFICATION Spec
CONSTANTS
  NumRelays = 2
  MaxAutoOff = 2
  Commands <- TwoRelayCommands
  DefaultPeriod = 1
  TimerQueueLen = 2
  TxQueueLen = 1
INVARIANT TypeOK
PROPERTIES ReportKept CoverageKept
