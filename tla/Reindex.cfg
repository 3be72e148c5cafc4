SPECIFICATION FairSpec
CONSTANTS
  Specs <- MCSpecs
  Target <- MCTarget
  UID = {1}
  States = {"a", "b"}
  MaxEdits = 2
  MaxWrites = 1
  MaxFaults = 1
  NoDoc = NoDoc
  Absent = Absent
INVARIANTS
  SettledConsistent
PROPERTY EventuallyConsistent
CHECK_DEADLOCK FALSE
