CONSTANTS
  Throws = Throws
  WindowSize = 1
  WindowMinutes = 2
  Gap = 1
  Screens <- MCScreens
  Visions <- ShippedVisions
  Settings <- MCSettings
  AgentReads = TRUE
SPECIFICATION Spec
PROPERTY StoredSeverityMatches
