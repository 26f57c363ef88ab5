CONSTANTS
  MaxFailures = 0
  MaxPublications = 2
  MaxLag = 3
SPECIFICATION Spec
PROPERTY
  NoMotionAfterAck
CHECK_DEADLOCK FALSE
