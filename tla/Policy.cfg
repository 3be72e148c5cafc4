SPECIFICATION Spec
CONSTANTS
  p = p
  q = q
  Policy = {p}
  GetSearchIndex <- IndexOf
  Resources <- TwoTenants
  Scopes <- PublishScopes
  Absent = Absent
INVARIANT HashMeansPublished
PROPERTY ReadyOnlyIfReindexed
CHECK_DEADLOCK FALSE
