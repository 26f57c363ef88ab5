SPECIFICATION ProducersSpec
CHECK_DEADLOCK FALSE
CONSTANTS
  Absent = Absent
  Arms = {"left"}
  Lowest = 0
  Highest = 3
  IkTolerance = 0
  IkReach = 1
  IkMaxStep = 1
  Freshness = 1
  Grace = 1
  MaxLate = 1
  Stale = 1
  ProposalTimeout = 1
  Reach = 8
  Soft <- SoftZone
  Radius = 6
  MaxSpeed = 4
  MaxAcceleration = 1
INVARIANTS
  ProposalsInside
PROPERTIES
  Settles
  FailureEndsTeleop
  RejectionEndsTeleop
