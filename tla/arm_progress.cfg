SPECIFICATION FairCalmSpec
CONSTANTS
  Sides = {"left"}
  ActiveSides = {"left"}
  HandSides = {"left"}
  HandDomains = {"producer_hand"}
  Components = {"source", "producer_arm", "executor_arm", "producer_hand"}
  Domain <- HandDomain
  Instances = {a}
  Authority <- FullAuthority
  HandAuthority <- FullHandAuthority
  Home <- HomeAngle
  Lower <- LowerLimit
  Upper <- UpperLimit
  MaxStep = 1
  MinDuration = 1
  MaxSpeed = 1
  StateTimeout = 0
  HandReturnTimeout = 1
  MaxElapsed = 2
  Positions <- ProposedNear
  Precision = 100
  None = None
PROPERTIES
  TeleopMovesOnFreshInputs
  TeleopEndsWithoutInputs
  HandReturnTerminates
