SPECIFICATION FairSpec
CONSTANTS
  v1 = v1
  v2 = v2
  c1 = c1
  c2 = c2
  WordBits = 2
  KeyIds = {0, 1}
  Values = {v1, v2}
  Contents = {c1, c2}
  PchSvn = 3
  Factory <- MCFactory
  Payloads <- MCPayloads
  Scenarios <- MCScenarios
INVARIANTS TypeOK WrittenOnce SealHonest StatusHonest
PROPERTIES BootAdmitted DoneIsMine LockedIsFrozen FloorExact UpdateAboveFloor CancelledStaysOut CommandAnswered
CHECK_DEADLOCK FALSE
