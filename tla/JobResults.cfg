SPECIFICATION Spec
CONSTANTS
  c1 = c1
  c2 = c2
  Clients <- MCClients
  Prefetch = Prefetch
  Nobody = Nobody
  MaxPrograms = 2
  MaxCalls = 3
  ExclusiveConfigure = TRUE
SYMMETRY ClientSymmetry
CHECK_DEADLOCK FALSE
INVARIANTS
  ResultsAreReal
  StatusesAreReal
  FetchedIsServed
  CanceledIsTold
