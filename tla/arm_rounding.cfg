SPECIFICATION FairCalmSpec
CONSTANTS
  Sides = {"left"}
  ActiveSides = {"left"}
  HandSides = {}
  HandDomains = {}
  Components <- ArmDomains
  Domain <- ArmDomain
  Instances = {a}
  Authority <- FullAuthority
  HandAuthority <- FullHandAuthority
  Home <- WideHome
  Lower <- WideLower
  Upper <- WideUpper
  MaxStep = 2
  MinDuration = 1
  MaxSpeed = 5
  StateTimeout = 1
  HandReturnTimeout = 1
  MaxElapsed = 2
  Positions <- ProposedWide
  Precision = 4
  None = None
PROPERTIES
  ReturnTerminates
