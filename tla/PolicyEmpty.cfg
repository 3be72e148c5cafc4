SPECIFICATION Spec
CONSTANTS
  p = p
  q = q
  PathLength = 0
  Policy = {p, q}
  Targets <- MCTargets
  Authors <- FewAuthors
  States <- MCStates
  MaxDepth = 2
  MaxWrites <- FewMaxWrites
  MaxListFaults = 0
  Absent = Absent
INVARIANT IndexesSatisfying
CHECK_DEADLOCK FALSE
