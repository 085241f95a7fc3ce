CONSTANTS
  p1 = p1  p2 = p2
  c1 = c1  c2 = c2  d1 = d1
  r1 = r1  r2 = r2
  w1 = w1  w2 = w2
  Paths = {p1}
  Contents = {c1}
  Documents = {}
  Ids = {r1}
  Clients = {w1, w2}
  NoFile = NoFile
  NoPath = NoPath
  NoHash = NoHash
  NoCall = NoCall
  NoClient = NoClient
  Text <- PlainText
  SizeOf <- MCSizeOf
  Faults = {"timeout", "guardCrash", "installerCrash", "reloadFail", "readFail", "openFail", "writeFail"}
  MaxFaults = 1
SPECIFICATION FairApprovalsSpec
INVARIANTS
  WindowTypeOK
  FreshList
PROPERTIES
  ClicksReturn
  HandlersEnd
