SPECIFICATION TidySpec
CONSTANTS
  Sides = {"left", "right"}
  ActiveSides = {"left"}
  HandSides = {}
  HandDomains = {}
  Components <- ArmDomains
  Domain <- ArmDomain
  Instances = {"a", "b"}
  Authority <- TakeoverAuthority
  HandAuthority <- FullHandAuthority
  Home <- HomeAngle
  Lower <- LowerLimit
  Upper <- UpperLimit
  MaxStep = 1
  MinDuration = 1
  MaxSpeed = 1
  StateTimeout = 0
  HandReturnTimeout = 1
  MaxElapsed = 2
  Positions <- Proposed
  Precision = 100
  None = None
INVARIANTS
  SafeWithinLimits
  TeleopStartsAfresh
  ReturnSpeedBounded
PROPERTIES
  TeleopStepBounded
  ReturnApproachesHome
  ImplementsAuthority
