SPECIFICATION Spec
CONSTANTS
  a1 = a1
  a2 = a2
  c1 = c1
  Seed = Seed
  NoRequest = NoRequest
  Same = Same
  PoolSize = 2
  Requests = {r1, r2}
  Emails = {"o", "m", "x", "y"}
  Phones = {1, 2, 3}
  Users <- MCUsers
  Branches = {a1, a2, c1}
  BranchOf <- MCBranchOf
  Calls <- MCOwnerCalls
  InitOwners <- MCInitOwners
  InitMember <- MCInitMember
  InitList <- MCInitList
INVARIANT OwnersAreKept
CHECK_DEADLOCK FALSE
