SPECIFICATION ScenariosSpec
CONSTANTS
  Ordered = FALSE
  ForeignSeqs = {}
  MaxSeq = 3
  MaxIntents = 1
  OrderlyForeign = {2}
  OrderlySeq = 5
  OrderlyIntents = 2
  CalibrationSeq = 4
  Top = 2
  KeyStep = 2
  Reach = 2
  PendingTimeout = 0
  SnapshotTimeout = 0
  ReturnTimeout = 0
  None = None
PROPERTIES
  CacheMonotone
  StartOnSnapshot
  TeleopWasGranted
  OrderlyArmedAtRest
  OperatorMovesTarget
