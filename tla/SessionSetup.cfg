SPECIFICATION Spec
CONSTANTS
  c1 = c1
  c2 = c2
  s1 = s1
  s2 = s2
  regional = regional
  global = global
  u1 = u1
  u2 = u2
  Clients <- MCClients
  Sessions <- MCSessions
  Arns <- MCArns
  Regions <- MCRegions
  Uris <- MCUris
  Account <- MCAccount
  ArnRegion <- MCArnRegion
  UsEast1 = "us-east-1"
  Malformed = Malformed
  None = None
  MaxSetup = 3
  MaxCalls = 3
SYMMETRY Symmetry
CHECK_DEADLOCK FALSE
INVARIANTS
  RegionIsRight
  DestinationIsUsable
  OneRequester
  AnswerIsRight
