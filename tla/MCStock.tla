------------------------------ MODULE MCStock ------------------------------
(* Instances of Stock for TLC.                                             *)
EXTENDS StockAccounting

CONSTANTS a, b, x   \* x: a product the branch has no row for

MCProducts == {a, b, x}
MCCarried == {a, b}

MCInitTable ==
  [p \in MCCarried |-> IF p = a THEN [stock |-> 2, isAvailable |-> TRUE]
                                ELSE [stock |-> 1, isAvailable |-> TRUE]]

L(p, n) == [product |-> p, quantity |-> n]
Reserving(items) == [op |-> "reserve", items |-> items]
Releasing(items) == [op |-> "release", items |-> items]
Updating(p, n, fields, available) ==
  [op |-> "update", items |-> <<L(p, n)>>, fields |-> fields,
   available |-> available]

\* Calls that lock both rows (in either order), exhaust them, overflow one of
\* them (the INT column is cut down to MaxStock), name a product without a row,
\* and one that queues for a row that two others deadlock over.
MCCalls ==
  { Reserving(<<L(a, 2), L(b, 1)>>), Reserving(<<L(b, 1), L(x, 1)>>),
    Releasing(<<L(b, 2), L(a, 1)>>), Releasing(<<L(a, 1), L(x, 1)>>),
    Updating(b, 3, {"stock", "isAvailable"}, FALSE),
    Updating(x, 4, {"stock"}, TRUE) }
=============================================================================
