SPECIFICATION Spec
CONSTANTS
  MaxSegments = 2
  MaxTime = 1
  MaxRecordings = 6
  MaxFaults = 3
  MaxRestarts = 1
INVARIANTS
  TypeOK
  SequenceAccounting
  ListedFilesIntact
  PositionIsNumber
  WindowBounded
  PublishedLostToWindow
  PanicOnlyOnRegress
PROPERTIES
  StuckPruneIsPermanent
CHECK_DEADLOCK FALSE
