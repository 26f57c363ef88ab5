SPECIFICATION HandsSpec
CHECK_DEADLOCK FALSE
CONSTANTS
  Absent = Absent
  Lower = 0
  Upper = 2
  Angles <- Wanted
  TrackingStep = 2
  CommandStep = 1
  Freshness = 1
  InputTimeout = 1
  EnableTimeout = 1
  PhaseAt <- Session
INVARIANTS
  CommandsInside
  StatusIsHeld
PROPERTIES
  AckMeansSilence
  Opens
  HandComesToZero
