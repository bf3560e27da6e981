SPECIFICATION Spec
CONSTANTS
  Decimal <- MCDecimal
  TextOrder <- MCTextOrder
  MaxSize = 15
  MaxInt64 = 7
  None = None
  Fatal = Fatal
  NotSupported = NotSupported
  Success = Success
  Devices <- MCDevices
  ProgramLists <- RenamedLists
  DefaultShots = 1
  ShotValues = {2}
  ForeignTasks = {}
INVARIANTS
  NamesDoNotMatter
CHECK_DEADLOCK FALSE
