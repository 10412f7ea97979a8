SPECIFICATION Spec
CONSTANTS
  ByteBits = 4
  WordBits = 8
  Slices <- MCSlices
  MaxSubLayers = 3
  Cuts = {0, 1, 4}
  MaxUnits = 3
  Payloads <- MCPayloads
  ADTSHeader = 2
  LengthMod = 8
  RawSizes = {1, 2, 5, 7}
  MaxFrames = 3
  MaxCSRC = 2
  MaxReports = 1
  Tails = {0, 3}
  Pads = {0, 4, 40}
  PacketSize = 188
  HeaderSize = 4
  CounterMod = 16
  Second = 40
  PTS_HZ = 4
  Ext = 3
  ExtMod = 4
  PcrShift = 16
  WordMod = 8192
  StampMid = 2
  Times <- MCTimes
  Lengths = {100, 351, 366}
  Headers <- MCHeaders
  PATs <- MCPATs
  PMTs <- MCPMTs
  Pointers = {0, 150}
  Drops = {1}
  MaxPackets = 4
  MaxStreams = 2
  MaxForeign = 3
  MaxParts = 3
  MaxLines = 4
  MaxSegmentsListed = 2
  Durations = {0, 3, 9, 10, 11}
  MilliUnits = 2
  SecondUnits = 10
INVARIANTS
  ReadsExact
  ParameterSetsWhole
  DecoderHoldsSent
  FramesInOrder
  DatagramsExact
  StreamReadBack
  LastStreamLost
  TextReadBack
CHECK_DEADLOCK FALSE
