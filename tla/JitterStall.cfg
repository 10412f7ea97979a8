SPECIFICATION FairSpec
CONSTANTS
  SeqMod = 12
  LowMark = 3
  HighMark = 9
  BufferSize = 2
  FirstSeq = 4
  Reorder = 2
  MayLose = FALSE
  Repeatable = {}
  MaxSent = 4
  MaxReceived = 4
  CounterMod = 48
  Scale = 16
  Payload <- Indices
PROPERTY
  StoredIsDelivered
CHECK_DEADLOCK FALSE
