SPECIFICATION FairSpec
CONSTANTS
  Timeout = 1
  MaxRecoveries = 1
  Scenarios <- BmcRestarts
PROPERTY RestartSeen
CHECK_DEADLOCK FALSE
