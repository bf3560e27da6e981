CONSTANTS
  c1 = c1
  c2 = c2
  v1 = v1
  v2 = v2
  Clients <- MCClients
  Configs <- MCConfigs
  Worker = Worker
  Prefetch = Prefetch
  Nobody = Nobody
  NoPrograms = NoPrograms
  Ops = {"configure", "submit", "check", "cancel", "free"}
  MaxCalls = 3
SPECIFICATION Spec
SYMMETRY ClientSymmetry
INVARIANTS
  AtMostOneTask
  TaskMatchesJob
  CancelTakesEffect
  TerminalStatusIsTrue
  SubmissionErrorMeansFailed
  CancelKnowsTask
  SubmittingIsUnderWay
  NoUseAfterFree
PROPERTIES
  StatusForward
  KeepsPromise
