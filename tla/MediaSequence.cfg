SPECIFICATION Spec
CONSTANTS
  MaxSegments = 1
  MaxTime = 1
  MaxRecordings = 5
  MaxFaults = 2
  MaxRestarts = 1
INVARIANT
  MediaSequenceIsFirst
CHECK_DEADLOCK FALSE
