SPECIFICATION Spec
CONSTANTS
  Specs <- MCSpecs
  Target <- MCTarget
  UID = {1}
  States = {"a", "b"}
  MaxEdits = 2
  MaxWrites = 0
  MaxFaults = 0
  NoDoc = NoDoc
  Absent = Absent
INVARIANT ReflectsPolicy
CHECK_DEADLOCK FALSE
