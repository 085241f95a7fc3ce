CONSTANTS
  u1 = u1  u2 = u2  u3 = u3
  d1 = d1  d2 = d2
  Users = {u1, u2, u3}
  GroupNames = {u3}
  Digits = {d1}
  Passwords = {w1}
  MinPin = 1
  MaxPin = 1
  PinLength = 1
  NoUser = NoUser
  NoSecret = NoSecret
  NoLogin = NoLogin
  Faults = {}
  MaxFaults = 0
SPECIFICATION SetupSpec
INVARIANTS
  HandedOver
CHECK_DEADLOCK FALSE
