SPECIFICATION Spec
CONSTANTS
  Program <- TwoStreams
  Unbounded = {2}
  FrameSize = 4
  PesPrefix = 1
  UnitSizes <- Sizes
  MaxUnits <- UnitBounds
  MaxTables = 3
  MaxLosses = 1
  Transcoded = {"H264"}
  Duration = 1
  MaxEncoded = 2
  PacketSize = 8
  HeaderSize = 4
  CounterMod = 4
  MaxFaults = 1
INVARIANTS
  TypeOK
  GivenInOrder
  CleanUnitsWhole
  CutNeverHeals
  TruncationIsSeen
  TimesAdvance
CHECK_DEADLOCK FALSE
