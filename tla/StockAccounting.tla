-------------------------- MODULE StockAccounting --------------------------
(***************************************************************************)
(* The stock of a branch and the account of it that a consumer of the      *)
(* product.stock.changed events can keep.                                  *)
(***************************************************************************)
EXTENDS Stock

Account(balance, e) ==
  CASE e.change = "decremented" -> balance - e.amount
    [] e.change = "incremented" -> balance + e.amount
    [] e.change = "stock" -> e.amount
    [] OTHER -> balance

\* The committed event of p with this id, if there is one.
Told(p, n) == {e \in outbox : e.product = p /\ e.id = n}

\* The stock of p as told by the committed events with ids up to n, read by id.
Balance(p) ==
  LET balance[n \in Nat] ==
        IF n = 0 THEN InitTable[p].stock
        ELSE IF Told(p, n) = {} THEN balance[n - 1]
        ELSE Account(balance[n - 1], CHOOSE e \in Told(p, n) : TRUE)
  IN  balance

Replayed(p) == Balance(p)[nextId - 1]

\* No change of a row goes unreported, is reported twice or is reported by a
\* transaction that did not happen: the events of a product, in id order,
\* account for its stock at every moment (the outbox rows are inserted in the
\* transaction of the change).
EventsAccountForStock == \A p \in Carried : Replayed(p) = table[p].stock
=============================================================================
