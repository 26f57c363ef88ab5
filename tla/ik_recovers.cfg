SPECIFICATION FairSpec
CONSTANTS
  Sides = {"left"}
  Lower = 0
  Upper = 3
  Tolerance = 0
  Reach = 1
  MaxStep = 1
  Freshness = 1
  Grace = 1
  None = None
  MaxLate = 1
PROPERTY ProducerRecovers
CHECK_DEADLOCK FALSE
