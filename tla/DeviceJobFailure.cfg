CONSTANTS
  c1 = c1
  c2 = c2
  v1 = v1
  v2 = v2
  Clients <- MCClients
  Configs <- OneConfig
  Worker = Worker
  Prefetch = Prefetch
  Nobody = Nobody
  NoPrograms = NoPrograms
  Ops = {"submit", "check"}
  MaxCalls = 2
SPECIFICATION Spec
INVARIANT FailureShowsFailed
