SPECIFICATION MCSpec
CONSTANTS
  a = a
  b = b
  Null = Null
  NoRow = NoRow
  Nobody = Nobody
  Walks = {w1, w2}
  Processes = {p1, p2}
  Rows <- MCRows
  Keys <- MCKeys
  Printed <- MCPrinted
  Limit = 1
  Nearby = FALSE
  Tables <- MCTables
  TTL = 1
  MaxTime = 1
  MaxVersion = 1
  MaxShown = 2
  MaxFaults = 1
INVARIANTS RowsShownOnce StaleEntryNeedsLateSet OneQueryPerProcess
PROPERTY EveryRequestEnds
CHECK_DEADLOCK FALSE
