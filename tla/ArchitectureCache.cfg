SPECIFICATION Spec
CONSTANTS
  s1 = s1
  s2 = s2
  c1 = c1
  c2 = c2
  Sessions <- MCSessions
  Clients <- MCClients
  Nobody = Nobody
  None = None
  Stub = Stub
  MaxCalls = 3
SYMMETRY MCSymmetry
INVARIANTS
  HandlesStayValid
  CalibrationIsPrivate
  CalibrationIsNew
  AnswerIsFresh
