SPECIFICATION FairSpec
CONSTANTS
  old = old
  new = new
  bad = bad
  NoImage = NoImage
  Cert = Cert
  Images <- MCImages
  Svn <- MCSvn
  Hanging <- MCHanging
  JunkSvns <- MCJunkSvns
  MaxFailed = 2
  Budgets <- MCBudgets
INVARIANTS TypeOK SomeCopyComplete SvnFloorCovered RecoveryBoots
PROPERTIES PromotesOnlyWhatRan UpdateNeverRollsBack UpdateSettles BmcRunsAgain
