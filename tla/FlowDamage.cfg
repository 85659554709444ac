SPECIFICATION Spec
CONSTANTS
  b0 = b0
  b1 = b1
  bh = bh
  p0 = p0
  p1 = p1
  ph = ph
  Bad = Bad
  Cert = Cert
  Images <- Fixed
  Svn <- MCSvn
  Hanging <- MCHanging
  JunkSvns = {0}
  MaxFailed = 2
  BmcIntents = {}
  PchIntents = {{"PA"}}
  OobCapsules = {}
  Staged <- Anything
  Forces = {"off"}
  Limits <- Damage
INVARIANT LockdownIsLast
PROPERTY PchNeedsBmc
CHECK_DEADLOCK FALSE
