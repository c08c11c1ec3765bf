SPECIFICATION Spec
CONSTANTS
  u = u
  v = v
  Nobody = Nobody
  NoRequest = NoRequest
  Users = {u, v}
  Requests = {r1, r2, r3}
  Calls <- MCCalls
  MaxId = 6
  InitRows = 3
  InitOwner <- MCInitOwner
SYMMETRY Interchangeable
INVARIANTS TwoDefaultsNeedOverlap AnsweredUpdateStands
CHECK_DEADLOCK FALSE
