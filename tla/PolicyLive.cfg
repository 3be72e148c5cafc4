SPECIFICATION FairSpec
CONSTANTS
  p = p
  q = q
  Policy = {p, q}
  GetSearchIndex <- IndexOf
  Resources <- OneResource
  Scopes <- LiveScopes
  Absent = Absent
INVARIANT LiveIndexKept
INVARIANT OneSettingsTask
INVARIANT GoneMeansNoIndex
PROPERTY Converges
CHECK_DEADLOCK FALSE
