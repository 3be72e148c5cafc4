SPECIFICATION Spec
CONSTANTS
  p = p
  q = q
  Policy = {p}
  GetSearchIndex <- IndexOf
  Resources <- OneTenant
  Scopes <- FailedPublication
  Absent = Absent
INVARIANT HashMeansSent
CHECK_DEADLOCK FALSE
