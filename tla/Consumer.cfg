SPECIFICATION Spec
CONSTANTS
  Policies <- MCPolicies
  Group = ""
  Kinds = {"Web", "Job"}
  Versions = {"v1", "v2"}
  States = {"a", "b", "c"}
  Scopes <- MCScopes
  MaxUID = 2
  MaxRequests = 4
  MaxStream = 1
  NoDoc = NoDoc
INVARIANTS
  Mirror
PROPERTY LeavesOnlyUnmatched
