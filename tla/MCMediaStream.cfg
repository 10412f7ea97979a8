SPECIFICATION FairSpec
CONSTANTS
  SeqMod = 6
  LowMark = 2
  HighMark = 4
  BufferSize = 2
  FirstSeq = 3
  Reorder = 1
  MayLose = TRUE
  Repeatable = {3}
  MaxSent = 8
  MaxReceived = 5
  CounterMod = 24
  Scale = 8
  Payload <- Indices
INVARIANTS
  BoundsEncloseStored
  NoMixAcrossWrap
  MSTypeOK
  LossCongruence
  ReportExact
PROPERTIES
  FullStallIsPermanent
  Ordered
  InOrderDelivery
  OutOfOrderIsNext
  GapHoldsDelivery
  PoppableIsPopped
CHECK_DEADLOCK FALSE
