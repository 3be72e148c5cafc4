SPECIFICATION PipeSpec
CONSTANTS
  i1 = i1
  i2 = i2
  d = d
  h = h
  Index = {i1}
  DocID = {d}
  Msg = {1, 2}
  Contents <- MCContents
  Event <- TwoUpdates
  Handlers = {h}
  Ticker = Ticker
  NoOp = NoOp
  BatchSize = 1
  MaxInFlight = 1
  MaxUploads = 2
  MaxBatches = 3
  MaxPrefetch = 3
  Troubles = {"expiry"}
  MaxTrouble = 1
INVARIANT
  Converged
CHECK_DEADLOCK FALSE
