SPECIFICATION FairSpec
CONSTANTS
  old = old
  new = new
  bad = bad
  NoImage = NoImage
  Cert = Cert
  Images <- MCImages
  Svn <- MCSvn
  Hanging = {}
  JunkSvns <- MCJunkSvns
  MaxFailed = 2
  Budgets <- PowerAndTrips
PROPERTY RomRecoveryEnds
