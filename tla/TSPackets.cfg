SPECIFICATION Spec
CONSTANTS
  Program <- OneStream
  Unbounded = {}
  FrameSize = 4
  PesPrefix = 1
  UnitSizes <- Sizes
  MaxUnits <- UnitBounds
  MaxTables = 2
  MaxLosses = 0
  Transcoded = {"H264"}
  Duration = 1
  MaxEncoded = 1
  PacketSize = 8
  HeaderSize = 4
  CounterMod = 4
  MaxFaults = 0
INVARIANT
  WritesTSPackets
CHECK_DEADLOCK FALSE
