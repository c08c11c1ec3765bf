SPECIFICATION FairSpec
CONSTANTS
  a1 = a1
  a2 = a2
  c1 = c1
  Seed = Seed
  NoRequest = NoRequest
  Same = Same
  PoolSize = 3
  Requests = {r1, r2, r3}
  Emails = {"o", "m", "x", "y"}
  Phones = {1, 2, 3}
  Users <- MCUsers
  Branches = {a1, a2, c1}
  BranchOf <- MCBranchOf
  Calls <- MCCalls
  InitOwners <- MCInitOwners
  InitMember <- MCInitMember
  InitList <- MCInitList
INVARIANTS NamesAreUnique SignUpsAreWhole MixedListNeedsOverlap AccessWasGranted
PROPERTIES ClaimsAreCurrent DeletionIsFinal EveryCallEnds
CHECK_DEADLOCK FALSE
