CONSTANTS
  mum = mum  kid = kid  tot = tot
  d1 = d1  d2 = d2
  Users = {mum, kid, tot}
  Profile <- MCProfile
  Digits = {d1, d2}
  PadLength = 2
  MaxEntry = 4
  MaxReads = 2
  NoUser = NoUser
SPECIFICATION FairGreeterSpec
INVARIANTS
  GreeterTypeOK
  PadNeverStuck
  CardMatches
PROPERTIES
  FullPadDrains
