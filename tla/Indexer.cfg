SPECIFICATION FairProcessSpec
CONSTANTS
  TotalItems = 3
  ChunkSize = 2
  MaxRetries = 2
  WaitTimeout = 1
  ConsumerAckWait = 6
  HeartbeatMargin = 3
  HeartbeatHardFloor = 2
  Options <- MCOptions
  LiveAckWaits <- MCLive
  MaxTrouble = 1
  MaxHeld = 2
  MaxFlushes = 2
INVARIANTS
  OkMeansApplied
PROPERTIES
  HeartbeatKeeps
  Settles
CHECK_DEADLOCK FALSE
