SPECIFICATION FairSpec
CONSTANTS
  Media = {"video", "audio"}
  max_reconnect_attempts = 1
  MaxRequests = 3
  MaxConnects = 2
  MaxSlips = 1
  ChannelSize = 1
  SocketFaults = TRUE
  MaxChannels = 1
INVARIANTS
  ClientTypeOK
  InStep
  SessionsAgree
  NoOwnCollision
PROPERTIES
  TasksStartPlaying
  GivesUpForGood
  EveryTaskGetsThrough
CHECK_DEADLOCK FALSE
