CONSTANTS
  Unreadable = Unreadable
  p1 = p1  p2 = p2  p3 = p3
  c1 = c1  c2 = c2  d1 = d1
  r1 = r1  r2 = r2
  k1 = k1  k2 = k2
  Paths = {p1, p2, p3}
  Text <- QuotingText
  Contents = {c1, c2, d1}
  Documents = {d1}
  Ids = {r1, r2}
  Clients = {k1}
  NoFile = NoFile
  NoPath = NoPath
  NoHash = NoHash
  NoCall = NoCall
  NoClient = NoClient
  SizeOf <- MCSizeOf
  Faults = {"openFail"}
  MaxFaults = 1
CONSTRAINT P3Stays
SPECIFICATION Spec
SYMMETRY Symmetry
INVARIANTS
  RegistryAgrees
PROPERTIES
  OthersKeepTrust
