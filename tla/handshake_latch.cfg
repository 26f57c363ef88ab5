SPECIFICATION OrderlySpec
CONSTANTS
  Ordered = FALSE
  ForeignSeqs = {}
  MaxSeq = 3
  MaxIntents = 1
  OrderlyForeign = {}
  OrderlySeq = 6
  OrderlyIntents = 3
  CalibrationSeq = 4
  Top = 2
  KeyStep = 2
  Reach = 2
  PendingTimeout = 0
  SnapshotTimeout = 0
  ReturnTimeout = 0
  None = None
PROPERTIES
  ReturnGenuine
