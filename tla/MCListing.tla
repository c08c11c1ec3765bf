----------------------------- MODULE MCListing -----------------------------
(* Instances of Listing for TLC.                                            *)
EXTENDS Listing, TLC

CONSTANTS a, b

MCRows == {a, b}

\* 3 is a timestamp within the millisecond of 2.
MCKeys == {0, 2, 3}
MCPrinted == [k \in MCKeys |-> k - (k % 2)]

Shows(k) == [there |-> TRUE, key |-> k]
Hides(k) == [there |-> FALSE, key |-> k]
Holds(i, j) == (a :> i) @@ (b :> j)

\* Apart; one hidden; one moved behind the other; both within a millisecond;
\* one without a key.
MCTables ==
  { Holds(Shows(0), Shows(2)), Holds(Shows(0), Hides(2)), Holds(Shows(3), Shows(0)),
    Holds(Shows(2), Shows(3)), Holds(Shows(0), Shows(Null)) }

\* Walks in different orders share nothing but the table.
MCInit ==
  /\ Init
  /\ table = Holds(Shows(0), Shows(2))
  /\ \A v, w \in Walks : order[v] = order[w]

MCSpec == MCInit /\ [][Next]_vars /\ Fairness
=============================================================================
