SPECIFICATION FairPipeSpec
CONSTANTS
  i1 = i1
  i2 = i2
  d = d
  h = h
  Index = {i1, i2}
  DocID = {d}
  Msg = {1, 2}
  Contents <- MCContents
  Event <- MoveIndex
  Handlers = {h}
  Ticker = Ticker
  NoOp = NoOp
  BatchSize = 2
  MaxInFlight = 2
  MaxUploads = 1
  MaxBatches = 3
  MaxPrefetch = 1
  Troubles = {"lose", "call", "task", "ack", "crash", "shutdown", "expiry"}
  MaxTrouble = 1
INVARIANTS
  AckedCovered
  ConvergedUndisturbed
  OrderBeforeShutdown
  EnqueueOrder
  NoSplit
  AckedAfterSuccess
  IndInv
PROPERTIES
  ImplementsContract
  NeverOlder
  EventuallyAcked
CHECK_DEADLOCK FALSE
