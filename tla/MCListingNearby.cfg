SPECIFICATION MCSpec
CONSTANTS
  a = a
  b = b
  Null = Null
  NoRow = NoRow
  Nobody = Nobody
  Walks = {w1}
  Processes = {p1}
  Rows <- MCRows
  Keys <- MCKeys
  Printed <- MCPrinted
  Limit = 1
  Nearby = TRUE
  Tables <- MCTables
  TTL = 1
  MaxTime = 1
  MaxVersion = 1
  MaxShown = 2
  MaxFaults = 0
INVARIANT NoRowTwice
CHECK_DEADLOCK FALSE
