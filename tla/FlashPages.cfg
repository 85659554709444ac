SPECIFICATION Spec
CONSTANTS
  b0 = b0
  b1 = b1
  Pages = 48
  PagesPerChunk = 2
  PagesPerSector = 4
  ChunksPerWord = 2
  PfmStart = 4
  PfmPages = 2
  RecoveryStart = 16
  StagingStart = 24
  CpldStaging = 8
  CpldRecovery = 10
  Images <- MCImages
  Updates = {b0, b1}
  Layout <- MCLayout
  Scenarios <- MCScenarios
  HostPages = {2, 9, 17, 25, 33, 41}
INVARIANTS CopiesExact BootsComplete RulesExact
PROPERTIES FailsafePages OnlyOpened
