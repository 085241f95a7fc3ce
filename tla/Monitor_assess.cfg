CONSTANTS
  Throws = Throws
  WindowSize = 2
  WindowMinutes = 3
  Gap = 1
  Screens <- MCScreens
  Visions <- MCVisions
  Settings <- MCSettings
  AgentReads = TRUE
SPECIFICATION Spec
INVARIANTS
  TypeOK
  GroomingExact
  RepeatExact
  DroppedExactly
