SPECIFICATION FairSpec
CONSTANTS
  MaxFailures = 3
  WifiRetries = 2
INVARIANT TypeOK
PROPERTIES RollbackEarned UpdateRestarts
