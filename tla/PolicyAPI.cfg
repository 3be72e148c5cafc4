SPECIFICATION FairSpec
CONSTANTS
  p = p
  q = q
  PathLength = 4
  Policy = {p, q}
  Targets <- MCTargets
  Authors <- MCAuthors
  States <- MCStates
  MaxDepth = 2
  MaxWrites <- MCMaxWrites
  MaxListFaults = 1
  Absent = Absent
INVARIANT IndexOwned
INVARIANT StoredIsValid
INVARIANT IndexesSatisfyingSome
INVARIANT AttributesNamed
PROPERTY DeletionCompletes
CHECK_DEADLOCK FALSE
