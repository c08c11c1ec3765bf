---------------------------- MODULE StockLedger ----------------------------
(***************************************************************************)
(* What the stock of a branch promises to its callers: each call takes     *)
(* effect at one instant, on all of its rows or on none of them, and a     *)
(* refusal is true at the instant it is decided.  Stock implements this    *)
(* with row locks and transactions.                                        *)
(***************************************************************************)
EXTENDS Integers, Sequences

CONSTANTS
  Carried,    \* the products the branch carries
  Requests,   \* the calls
  Calls,      \* what they may ask for
  MaxStock,
  InitShelf

VARIABLES
  plan,       \* what each call asks for
  shelf,      \* the rows, as every caller sees them
  settled     \* how each call ended

vars == <<plan, shelf, settled>>

Settlement == {"open", "applied", "refused", "abandoned"}

LinesOf(c) == DOMAIN c.items
Rows(c) == {c.items[i].product : i \in LinesOf(c)} \cap Carried
LineOf(c, p) == CHOOSE i \in LinesOf(c) : c.items[i].product = p
Quantity(c, p) == c.items[LineOf(c, p)].quantity
Missing(c) == \E i \in LinesOf(c) : c.items[i].product \notin Carried

Init ==
  /\ plan \in [Requests -> Calls]
  /\ shelf = InitShelf
  /\ settled = [r \in Requests |-> "open"]

Settle(r, how) ==
  /\ settled[r] = "open"
  /\ settled' = [settled EXCEPT ![r] = how]
  /\ UNCHANGED plan

\* The rows of the call become "new" at once; the others stay.
Apply(r, c, new) ==
  /\ ~Missing(c)
  /\ shelf' = [p \in Carried |-> IF p \in Rows(c) THEN new[p] ELSE shelf[p]]
  /\ Settle(r, "applied")

Sells(c, p) == shelf[p].isAvailable /\ shelf[p].stock >= Quantity(c, p)

Reserve(r, c) ==
  /\ c.op = "reserve"
  /\ \A p \in Rows(c) : Sells(c, p)
  /\ Apply(r, c, [p \in Rows(c) |->
                   [stock |-> shelf[p].stock - Quantity(c, p),
                    isAvailable |-> shelf[p].isAvailable]])

Refuse(r, c) ==
  /\ \/ Missing(c)
     \/ c.op = "reserve" /\ \E p \in Rows(c) : ~Sells(c, p)
  /\ Settle(r, "refused")
  /\ UNCHANGED shelf

Return(r, c) ==
  /\ c.op = "release"
  /\ Apply(r, c, [p \in Rows(c) |->
                   [stock |-> shelf[p].stock + Quantity(c, p),
                    isAvailable |-> shelf[p].isAvailable]])

Overwrite(r, c) ==
  /\ c.op = "update"
  /\ Apply(r, c, [p \in Rows(c) |->
       [stock |-> IF "stock" \in c.fields THEN Quantity(c, p)
                                          ELSE shelf[p].stock,
        isAvailable |-> IF "isAvailable" \in c.fields THEN c.available
                                               ELSE shelf[p].isAvailable]])

\* A failure: no effect.
Abandon(r) ==
  /\ Settle(r, "abandoned")
  /\ UNCHANGED shelf

Next ==
  \E r \in Requests :
    \/ Reserve(r, plan[r]) \/ Refuse(r, plan[r]) \/ Return(r, plan[r])
    \/ Overwrite(r, plan[r]) \/ Abandon(r)

Spec == Init /\ [][Next]_vars
=============================================================================
