SPECIFICATION FairSpec
CONSTANTS
  X = X
  Y = Y
  b1 = b1
  b2 = b2
  Seed = Seed
  NoRequest = NoRequest
  NoCategory = NoCategory
  Unsaid = Unsaid
  NoBranch = NoBranch
  Requests = {r1, r2, r3}
  Categories = {X, Y}
  Branches = {b1, b2}
  InitBranches = {b1}
  Calls <- MCCalls
  MaxId = 4
  InitCategory <- MCInitCategory
INVARIANTS CategoryLossNeedsOverlap RowsCoverBranches EveryChangeIsTold NoCircle
PROPERTIES IsBook EveryCallEnds
CHECK_DEADLOCK FALSE
