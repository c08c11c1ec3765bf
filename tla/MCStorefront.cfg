SPECIFICATION ShopSpec
CONSTANTS
  q1 = q1
  q2 = q2
  q3 = q3
  admin = admin
  owner = owner
  manager = manager
  x = x
  y = y
  b1 = b1
  b2 = b2
  m1 = m1
  m2 = m2
  Seed = Seed
  Blank = Blank
  Same = Same
  Admin = admin
  Users = {admin, owner, manager}
  Requests <- MCRequests
  Restaurants = {x, y}
  OwnerOf <- MCOwnerOf
  Branches = {b1, b2}
  Manages <- MCManages
  Uploads = {m1, m2}
  Calls <- MCCalls
  InitStatus <- MCInitStatus
  InitBranch <- MCInitBranch
  InitMedia <- MCInitMedia
  MaxPuts = 2
SYMMETRY MCSymmetry
INVARIANTS KeptWhileActive VisibleByReview LogoWasConfirmed SwapNeedsLatePut
CHECK_DEADLOCK FALSE
