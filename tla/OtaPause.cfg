SPECIFICATION FairSpec
CONSTANTS
  MaxFailures = 3
  WifiRetries = 2
PROPERTY PauseEnds
