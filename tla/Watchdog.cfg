SPECIFICATION FairSpec
CONSTANTS
  Timeout = 1
  MaxRecoveries = 1
  Scenarios <- MCScenarios
INVARIANTS TypeOK BootRecordHonest
PROPERTIES NoPhantomReset HealthyHostKept NoRecoveryLoop BootRecorded
CHECK_DEADLOCK FALSE
