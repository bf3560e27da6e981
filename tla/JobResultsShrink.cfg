SPECIFICATION Spec
CONSTANTS
  c1 = c1
  c2 = c2
  Clients <- MCClients
  Prefetch = Prefetch
  Nobody = Nobody
  MaxPrograms = 2
  MaxCalls = 1
  ExclusiveConfigure = FALSE
CHECK_DEADLOCK FALSE
INVARIANT IndexStaysValid
