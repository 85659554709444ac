SPECIFICATION Spec
CONSTANTS
  b0 = b0
  b1 = b1
  bh = bh
  p0 = p0
  p1 = p1
  ph = ph
  Bad = Bad
  Cert = Cert
  Images <- BmcUpdates
  Svn <- MCSvn
  Hanging <- MCHanging
  JunkSvns = {0, 2}
  MaxFailed = 2
  BmcIntents = {{"BR", "CR"}}
  PchIntents = {}
  OobCapsules = {}
  Staged <- Anything
  Forces = {"off"}
  Limits <- Quiet
PROPERTY BootedBeforePromoted
