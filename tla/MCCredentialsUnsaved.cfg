SPECIFICATION Spec
CONSTANTS
  Requests = {r1, r2}
  NoRequest = NoRequest
  Calls <- MCResets
  MaxId = 2
INVARIANT AnsweredResetIsSaved
CHECK_DEADLOCK FALSE
