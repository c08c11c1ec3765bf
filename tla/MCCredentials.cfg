SPECIFICATION Spec
CONSTANTS
  Requests = {r1, r2, r3}
  NoRequest = NoRequest
  Calls <- MCCalls
  MaxId = 2
SYMMETRY Interchangeable
INVARIANTS ReuseNeedsOverlap FailedAcceptLeavesNoTrace OneAcceptance InvitedChoosesPassword
CHECK_DEADLOCK FALSE
