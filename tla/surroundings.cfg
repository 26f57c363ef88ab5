SPECIFICATION SurroundingsSpec
CHECK_DEADLOCK FALSE
CONSTANTS
  Lower <- Low
  Upper <- High
  Home <- HomeAngle
  Positions <- Around
  Padding = 1
  MaxStep = 1
  MaxTracking = 3
  ReturnSpeed = 3
  MinDuration = 2
  LocalStep = 1
  HomeTolerance = 1
  StateTimeout = 0
  FeedbackTimeout = 0
  MaxAge = 3
  None = None
  CommandTimeout = 1
  FrameZero = 1
  Duration = 2
  StableTicks = 2
  End = 2
  Gap = 2
  RecordingMail = 2
  RestartAttempts = 1
  MaxQuestions = 3
  Sessions = {"s1", "s2"}
  Components = 3
  Executors = {"arm"}
  Showing = {"arm"}
  MaxSent = 2
  Streams = {"arm", "hand"}
  Datasets = 2
  MaxRows = 3
INVARIANTS
  MujocoStops
  EnterHolds
  ReadyIsEarned
  FarReturnSpeedBounded
  PauseTakesNoTime
  AnswerIsOwn
  OneFleet
  EvidenceIsTrue
  CompleteIsWhole
PROPERTIES
  StepBounded
  Homeward
  StopsInReverse
