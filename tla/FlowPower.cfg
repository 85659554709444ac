SPECIFICATION Spec
CONSTANTS
  b0 = b0
  b1 = b1
  bh = bh
  p0 = p0
  p1 = p1
  ph = ph
  Bad = Bad
  Cert = Cert
  Images <- Both
  Svn <- MCSvn
  Hanging <- MCHanging
  JunkSvns = {0, 2}
  MaxFailed = 2
  BmcIntents = {{"BA"}, {"BR"}, {"PR"}, {"PR","CR"}, {"BA","atReset"}}
  PchIntents = {{"PA"}}
  OobCapsules <- OobNew
  Staged <- Anything
  Forces = {"off", "on"}
  Limits <- PowerOob
INVARIANTS NoRegionLost SvnFloorCovered
PROPERTIES FailsafeFlash BootsAuthentic
