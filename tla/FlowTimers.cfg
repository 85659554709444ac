SPECIFICATION FairSpec
CONSTANTS
  b0 = b0
  b1 = b1
  bh = bh
  p0 = p0
  p1 = p1
  ph = ph
  Bad = Bad
  Cert = Cert
  Images <- AllHang
  Svn <- MCSvn
  Hanging <- MCHanging
  JunkSvns = {0, 2}
  MaxFailed = 2
  BmcIntents = {{"BR"}, {"BR","CR"}, {"BA","atReset"}, {"PR","CA"}}
  PchIntents = {{"PA"}, {"PR"}}
  OobCapsules <- OobHang
  Staged <- StageHang
  Forces = {"off"}
  Limits <- Timers
INVARIANT TypeOK
PROPERTIES ResetsEnd HangHandled PendingSettles
CHECK_DEADLOCK FALSE
