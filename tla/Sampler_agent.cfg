CONSTANTS
  Interval = 2
  Requests = {r1, r2}
  NoRequest = none
  Screen = screen
  MaxCrashes = 1
  Windows = {chat, game}
  NoApp = noapp
  NoLine = noline
SPECIFICATION AgentSpec
INVARIANTS
  TypeOK
  OneSample
  OwnScreenshot
  AnswerIsCurrent
PROPERTIES
  Spacing
  SamplesEnd
  SamplesGoOn
