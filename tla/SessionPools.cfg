CONSTANTS
  s1 = s1
  j1 = j1
  j2 = j2
  Sessions = {s1}
  Jobs = {j1, j2}
  SessionOf <- MCSessionOf
  PoolSize = 1
SPECIFICATION FairSpec
INVARIANTS
  SubmissionsAreKept
  WorkTouchesLiveJobs
  RequestsHaveClients
PROPERTIES
  PrefetchIsFair
  JobCallsReturn
  ClosingReturns
