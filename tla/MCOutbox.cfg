SPECIFICATION MCSpec
CONSTANTS
  g = g
  h = h
  Aggregates = {g, h}
  LockModes = {TRUE, FALSE}
  Workers = {w1, w2}
  BatchSize = 2
  MaxId = 3
  MaxFaults = 1
INVARIANTS CopiesNeedFaults DisorderNeedsTwoDrains
PROPERTIES IsRelay EveryEventDispatched
