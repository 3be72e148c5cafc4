SPECIFICATION FairSpec
CONSTANTS
  a = a
  b = b
  p = p
  q = q
  Platform = platform
  Policies = {p, q}
  Projects = {a, b}
  MaxLives = 2
  Starts <- MCStarts
INVARIANTS
  Complete
  NoOrphans
PROPERTIES
  EventuallyPurged
  EventuallyComplete
CHECK_DEADLOCK FALSE
