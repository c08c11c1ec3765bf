SPECIFICATION FairSpec
CONSTANTS
  a = a
  b = b
  x = x
  NoRequest = NoRequest
  NoProduct = NoProduct
  Requests = {r1, r2, r3}
  Products <- MCProducts
  Carried <- MCCarried
  Calls <- MCCalls
  MaxStock = 3
  InitTable <- MCInitTable
INVARIANTS StockInRange EventsAccountForStock
PROPERTIES IdsFollowCommits IsLedger EveryCallEnds
CHECK_DEADLOCK FALSE
