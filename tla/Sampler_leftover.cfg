CONSTANTS
  Interval = 2
  Requests = {r1, r2}
  NoRequest = none
  Screen = screen
  MaxCrashes = 0
SPECIFICATION Spec
INVARIANT NothingLeft
