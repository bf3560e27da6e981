SPECIFICATION Spec
CONSTANTS
  Decimal <- MCDecimal
  TextOrder <- MCTextOrder
  MaxSize = 15
  MaxInt64 = 7
  None = None
  Fatal = Fatal
  NotSupported = NotSupported
  Success = Success
  Devices <- MCDevices
  ProgramLists <- MCProgramLists
  DefaultShots = 1
  ShotValues = {0, 2, 3, 6, 8}
  ForeignTasks <- MCForeignTasks
CONSTRAINT Apart
INVARIANTS
  TypeOK
  SitesAreProgramIndices
  FidelityIsTheDevices
  LimitsRespected
  ReopenedShotsAddUp
  SitesKeepTheirRoles
  FormIsTheDevices
  ReadoutIsRight
CHECK_DEADLOCK FALSE
