SPECIFICATION Spec
CONSTANTS
  old = old
  new = new
  bad = bad
  NoImage = NoImage
  Cert = Cert
  Images <- MCImages
  Svn <- MCSvn
  Hanging <- MCHanging
  JunkSvns <- MCJunkSvns
  MaxFailed = 2
  Budgets <- OnePowerLoss
PROPERTY PromotesRunningImage
