SPECIFICATION FairSpec
CONSTANTS
  Media = {"video"}
  max_reconnect_attempts = 1
  MaxRequests = 3
  MaxConnects = 1
  MaxSlips = 0
  ChannelSize = 1
  SocketFaults = FALSE
  MaxChannels = 1
PROPERTY
  ReceiverHears
CHECK_DEADLOCK FALSE
