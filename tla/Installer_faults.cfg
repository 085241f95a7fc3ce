CONSTANTS
  Unreadable = Unreadable
  p1 = p1  p2 = p2  p3 = p3
  c1 = c1  c2 = c2  d1 = d1
  r1 = r1  r2 = r2
  k1 = k1  k2 = k2
  Paths = {p1, p2}
  Text <- BrokenText
  Contents = {c1, c2}
  Documents = {}
  Ids = {r1, r2}
  Clients = {k1}
  NoFile = NoFile
  NoPath = NoPath
  NoHash = NoHash
  NoCall = NoCall
  NoClient = NoClient
  SizeOf <- MCSizeOf
  Faults = {"timeout", "readFail", "guardCrash", "installerCrash", "openFail", "reloadFail", "dbFail", "fapolicydRestart"}
  MaxFaults = 1
CONSTRAINT P2Stays
SPECIFICATION Spec
SYMMETRY Symmetry
INVARIANTS
  TypeOK
  OnlyGrantedTrusted
PROPERTIES
  
  DecisionsStand
  TrustSpec
