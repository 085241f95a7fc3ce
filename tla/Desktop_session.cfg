CONSTANTS
  app = app  net = net
  dad = dad  window = window
  Apps = {app}
  Settings = {net}
  Clients = {dad, window}
  NoClient = NoClient
  Window = window
  NoPage = NoPage
  Modes = {"light", "dark"}
  Named = FALSE
  Faults = {"timeout", "crash", "readFail", "writeFail"}
  MaxFaults = 1
SPECIFICATION DesktopSpec
INVARIANTS
  DesktopTypeOK
  AnsweredStands
  BannerMatches
PROPERTIES
  PolicySpec
  PageOpens
  ChoiceShown
