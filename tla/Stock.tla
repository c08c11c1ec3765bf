------------------------------- MODULE Stock -------------------------------
(***************************************************************************)
(* The stock of one branch: the rows of product_branch_details of that     *)
(* branch, and the transactions that change them.  A request is one call   *)
(* of reserveStockInternal, releaseStockInternal or the branch part of     *)
(* ProductService.update; it runs in a PostgreSQL transaction of its own   *)
(* at READ COMMITTED, which is the level knex opens by default.            *)
(*                                                                         *)
(* A row lock is taken by SELECT ... FOR UPDATE (reserve, release) or by   *)
(* the UPDATE itself (update), is held until the transaction ends, and is  *)
(* waited for when another request holds it.  The statements name no       *)
(* ORDER BY, so the rows are reached in any order and two requests may     *)
(* wait for each other: PostgreSQL then aborts one of them.                *)
(***************************************************************************)
EXTENDS Integers, Sequences, FiniteSets

CONSTANTS
  Products,   \* the products a request may name
  Carried,    \* those with a product_branch_details row at the branch
  Requests,   \* one element per call of the service
  NoRequest,  \* the owner of a row nobody has locked
  NoProduct,  \* the row a request waits for when it waits for none
  Calls,      \* the calls the controllers let through
  MaxStock,   \* the largest value of the INT column "stock"
  InitTable   \* the committed rows in the initial state

ASSUME CarriedAssumption == Carried \subseteq Products
ASSUME MaxStockAssumption == MaxStock \in Nat
ASSUME NoRequestAssumption == NoRequest \notin Requests
ASSUME NoProductAssumption == NoProduct \notin Products

\* A line of a ReserveStockDTO or ReleaseStockDTO: quantity is @Min(1).
Line == [product : Products, quantity : Nat]

\* What a PATCH /products/:id?branchId= may carry for the branch row.  The
\* price is not kept: nothing below depends on it.
Field == {"stock", "isAvailable"}

Call ==
  [op : {"reserve", "release"}, items : Seq(Line)]
    \cup [op : {"update"}, items : Seq(Line), fields : SUBSET Field,
          available : BOOLEAN]

\* An update is a PATCH of one product.
ASSUME CallsAssumption ==
  \A c \in Calls : /\ c \in Call /\ c.items # <<>>
                   /\ c.op = "update" => Len(c.items) = 1

Row == [stock : Int, isAvailable : BOOLEAN]

\* What the INT column can hold and the service means it to hold.
InRange(row) == row.stock \in 0..MaxStock

ASSUME InitTableAssumption ==
  /\ InitTable \in [Carried -> Row]
  /\ \A p \in Carried : InRange(InitTable[p])

VARIABLES
  table,    \* the committed rows
  lock,     \* who holds the lock of each row
  pc,       \* where each request is
  call,     \* what it was asked to do
  waiting,  \* the row whose lock it is queued for
  wrote,    \* its uncommitted row versions
  noted,    \* its uncommitted events_outbox rows
  outbox,   \* the committed events_outbox rows
  nextId,   \* the BIGSERIAL of events_outbox
  outcome   \* what the call came to

vars == <<table, lock, pc, call, waiting, wrote, noted, outbox, nextId, outcome>>

Open == {"locking", "written", "logged"}   \* inside the transaction

EventType == {"product.stock.changed", "product.meta.changed"}
Change == {"decremented", "incremented", "stock", "none"}
Event == [id : Nat, product : Carried, type : EventType, change : Change,
          amount : Nat]

\* "error": rolled back, and the caller got a 500 or nothing at all;
\* "unanswered": committed, but the answer never reached the caller.
Outcome == {"none", "ok", "conflict", "not_found", "error", "unanswered"}

NoRows == [p \in {} |-> 0]

Lines(c) == DOMAIN c.items
Wanted(c) == {c.items[i].product : i \in Lines(c)}
Existing(c) == Wanted(c) \cap Carried
Held(r) == {p \in Carried : lock[p] = r}
\* Mutant: forUpdate() forgotten.
PlainSelect(r) == TRUE

AllLocked(r) == Existing(call[r]) \subseteq Held(r)

Init ==
  /\ table = InitTable
  /\ lock = [p \in Carried |-> NoRequest]
  /\ pc = [r \in Requests |-> "idle"]
  /\ call \in [Requests -> Calls]
  /\ waiting = [r \in Requests |-> NoProduct]
  /\ wrote = [r \in Requests |-> NoRows]
  /\ noted = [r \in Requests |-> {}]
  /\ outbox = {}
  /\ nextId = 1
  /\ outcome = [r \in Requests |-> "none"]

-----------------------------------------------------------------------------
(* Ending a transaction: every path of the service ends in one of these.   *)

\* Mutant: a path that leaves without ending its transaction.
ReleaseNothing(r) == lock

Release(r) == [p \in Carried |-> IF lock[p] = r THEN NoRequest ELSE lock[p]]

\* trx.rollback(), or the server aborting the transaction: the row versions
\* and the events of the request vanish with its locks.
Rollback(r, answer) ==
  /\ lock' = Release(r)
  /\ pc' = [pc EXCEPT ![r] = "done"]
  /\ waiting' = [waiting EXCEPT ![r] = NoProduct]
  /\ wrote' = [wrote EXCEPT ![r] = NoRows]
  /\ noted' = [noted EXCEPT ![r] = {}]
  /\ outcome' = [outcome EXCEPT ![r] = answer]
  /\ UNCHANGED <<table, call, outbox, nextId>>

-----------------------------------------------------------------------------
(* The statements of a request.                                            *)

\* The request reaches its handler and opens its transaction.
Begin(r) ==
  /\ pc[r] = "idle"
  /\ pc' = [pc EXCEPT ![r] = "locking"]
  /\ UNCHANGED <<table, lock, call, waiting, wrote, noted, outbox, nextId, outcome>>

\* FOR UPDATE (or the UPDATE of a single row) gets the lock of a free row.
LockRow(r, p) ==
  /\ pc[r] = "locking"
  /\ p \in Existing(call[r]) \ Held(r)
  /\ waiting[r] \in {NoProduct, p}
  /\ lock[p] = NoRequest
  /\ lock' = [lock EXCEPT ![p] = r]
  /\ waiting' = [waiting EXCEPT ![r] = NoProduct]
  /\ UNCHANGED <<table, pc, call, wrote, noted, outbox, nextId, outcome>>

\* The row is locked by another transaction: the statement blocks on it.
Block(r, p) ==
  /\ pc[r] = "locking"
  /\ p \in Existing(call[r])
  /\ waiting[r] = NoProduct
  /\ lock[p] \notin {NoRequest, r}
  /\ waiting' = [waiting EXCEPT ![r] = p]
  /\ UNCHANGED <<table, lock, pc, call, wrote, noted, outbox, nextId, outcome>>

\* Mutants: "<" written "<=" the wrong way round; is_available not looked at.
SellsOneMore(c, i) ==
  LET p == c.items[i].product IN
    p \in Carried /\ table[p].isAvailable
      /\ table[p].stock + 1 >= c.items[i].quantity

SellsUnlisted(c, i) ==
  LET p == c.items[i].product IN
    p \in Carried /\ table[p].stock >= c.items[i].quantity

\* The negation of !cur || !cur.isAvailable || cur.stock < item.quantity,
\* against the row the lock protects; each line is checked on its own.
Sells(c, i) ==
  LET p == c.items[i].product IN
    p \in Carried /\ table[p].isAvailable /\ table[p].stock >= c.items[i].quantity

RejectReserve(r) ==
  /\ pc[r] = "locking" /\ call[r].op = "reserve" /\ AllLocked(r)
  /\ \E i \in Lines(call[r]) : ~Sells(call[r], i)
  /\ Rollback(r, "conflict")

\* A quantity the statement would carry does not fit the INT it is cast to.
TooLarge(c) ==
  /\ c.op = "update" => "stock" \in c.fields
  /\ \E i \in Lines(c) : c.items[i].quantity > MaxStock

\* releaseStock checks only that the rows exist; an update of a row that
\* does not exist returns nothing and is a NotFoundException.
RejectMissing(r) ==
  /\ pc[r] = "locking" /\ call[r].op \in {"release", "update"} /\ AllLocked(r)
  /\ Wanted(call[r]) \ Carried # {}
  /\ call[r].op = "update" => ~TooLarge(call[r])
  /\ Rollback(r, "not_found")

\* UPDATE ... FROM (VALUES ...): when two VALUES rows join the same target
\* row PostgreSQL uses one of them, and does not say which.
Joined(c) ==
  {line \in [Existing(c) -> Lines(c)] :
     \A p \in Existing(c) : c.items[line[p]].product = p}

Write(r, rows) ==
  /\ wrote' = [wrote EXCEPT ![r] = rows]
  /\ pc' = [pc EXCEPT ![r] = "written"]
  /\ UNCHANGED <<table, lock, call, waiting, noted, outbox, nextId, outcome>>

Decrement(r) ==
  LET c == call[r] IN
  /\ pc[r] = "locking" /\ c.op = "reserve" /\ AllLocked(r)
  /\ \A i \in Lines(c) : Sells(c, i)
  /\ \E line \in Joined(c) :
       Write(r, [p \in Existing(c) |->
                   [stock |-> table[p].stock - c.items[line[p]].quantity,
                    isAvailable |-> table[p].isAvailable]])

Increased(c, line, p) == table[p].stock + c.items[line[p]].quantity

Increment(r) ==
  LET c == call[r] IN
  /\ pc[r] = "locking" /\ c.op = "release" /\ AllLocked(r)
  /\ Wanted(c) \subseteq Carried /\ ~TooLarge(c)
  /\ \E line \in Joined(c) :
       /\ \A p \in Existing(c) : Increased(c, line, p) <= MaxStock
       /\ Write(r, [p \in Existing(c) |->
                      [stock |-> Increased(c, line, p),
                       isAvailable |-> table[p].isAvailable]])

\* "integer out of range" aborts the statement and with it the transaction:
\* in a parameter of the UPDATE, in the VALUES list or in the new value.
Overflow(r) ==
  LET c == call[r] IN
  /\ pc[r] = "locking"
  /\ \/ c.op = "update" /\ TooLarge(c)
     \/ /\ c.op = "release" /\ AllLocked(r) /\ Wanted(c) \subseteq Carried
        /\ \/ TooLarge(c)
           \/ \E line \in Joined(c) : \E p \in Existing(c) :
                Increased(c, line, p) > MaxStock
  /\ Rollback(r, "error")

\* updateBranchDetails: absolute values, whatever the row held.
Overwrite(r) ==
  LET c == call[r] IN
  /\ pc[r] = "locking" /\ c.op = "update" /\ AllLocked(r)
  /\ Wanted(c) \subseteq Carried /\ ~TooLarge(c)
  /\ \E line \in Joined(c) :
       Write(r, [p \in Existing(c) |->
                   [stock |-> IF "stock" \in c.fields
                                THEN c.items[line[p]].quantity
                                ELSE table[p].stock,
                    isAvailable |-> IF "isAvailable" \in c.fields
                                      THEN c.available
                                      ELSE table[p].isAvailable]])

\* The events of a request, one per line (reserve, release) or one per field
\* (update); the ids are drawn here, while the row locks are held.
EventsOf(c, first) ==
  IF c.op = "update"
    THEN LET p == c.items[1].product IN
         {e \in { [id |-> first, product |-> p,
                   type |-> "product.stock.changed", change |-> "stock",
                   amount |-> c.items[1].quantity],
                  [id |-> first + 1, product |-> p,
                   type |-> "product.meta.changed", change |-> "none",
                   amount |-> 0] } :
            \/ e.change = "stock" /\ "stock" \in c.fields
            \/ e.change = "none" /\ "isAvailable" \in c.fields}
    ELSE {[id |-> first + i - 1, product |-> c.items[i].product,
           type |-> "product.stock.changed",
           change |-> IF c.op = "reserve" THEN "decremented" ELSE "incremented",
           amount |-> c.items[i].quantity] : i \in Lines(c)}

\* Mutant: the events inserted through this.knex rather than through trx.
InsertEventsOutsideTrx(r) ==
  /\ pc[r] = "written"
  /\ outbox' = outbox \cup EventsOf(call[r], nextId)
  /\ nextId' = nextId + 2
  /\ pc' = [pc EXCEPT ![r] = "logged"]
  /\ UNCHANGED <<table, lock, call, waiting, wrote, noted, outcome>>

InsertEvents(r) ==
  /\ pc[r] = "written"
  /\ noted' = [noted EXCEPT ![r] = EventsOf(call[r], nextId)]
  /\ nextId' = nextId + (IF call[r].op = "update" THEN 2 ELSE Len(call[r].items))
  /\ pc' = [pc EXCEPT ![r] = "logged"]
  /\ UNCHANGED <<table, lock, call, waiting, wrote, outbox, outcome>>

Commit(r) ==
  /\ pc[r] = "logged"
  /\ table' = [p \in Carried |-> IF p \in DOMAIN wrote[r] THEN wrote[r][p]
                                                          ELSE table[p]]
  /\ outbox' = outbox \cup noted[r]
  /\ lock' = Release(r)
  /\ wrote' = [wrote EXCEPT ![r] = NoRows]
  /\ noted' = [noted EXCEPT ![r] = {}]
  /\ pc' = [pc EXCEPT ![r] = "committed"]
  /\ UNCHANGED <<call, waiting, nextId, outcome>>

Answer(r) ==
  /\ pc[r] = "committed"
  /\ pc' = [pc EXCEPT ![r] = "done"]
  /\ outcome' = [outcome EXCEPT ![r] = "ok"]
  /\ UNCHANGED <<table, lock, call, waiting, wrote, noted, outbox, nextId>>

-----------------------------------------------------------------------------
(* What may go wrong.                                                      *)

\* A set of requests each of which waits for another of them.
WaitCycle(S) ==
  /\ \A r \in S : waiting[r] # NoProduct
  /\ {lock[waiting[r]] : r \in S} = S

\* The deadlock detector aborts one of the requests of a cycle; the query
\* rejects, the catch block rolls back and the error is rethrown.
DeadlockVictim(r) ==
  /\ \E S \in SUBSET Requests : r \in S /\ WaitCycle(S)
  /\ Rollback(r, "error")

\* A statement fails (connection lost, statement timeout) or the API process
\* dies: PostgreSQL rolls the transaction back.
Fail(r) ==
  /\ pc[r] \in Open
  /\ Rollback(r, "error")

\* The process dies, or the connection to the caller does, after the commit.
LoseAnswer(r) ==
  /\ pc[r] = "committed"
  /\ pc' = [pc EXCEPT ![r] = "done"]
  /\ outcome' = [outcome EXCEPT ![r] = "unanswered"]
  /\ UNCHANGED <<table, lock, call, waiting, wrote, noted, outbox, nextId>>

-----------------------------------------------------------------------------
\* The steps a request takes when nothing fails.
Progress(r) ==
  \/ \E p \in Carried : LockRow(r, p) \/ Block(r, p)
  \/ RejectReserve(r) \/ RejectMissing(r)
  \/ Decrement(r) \/ Increment(r) \/ Overflow(r) \/ Overwrite(r)
  \/ InsertEvents(r) \/ Commit(r) \/ Answer(r)
  \/ DeadlockVictim(r)

Next == \E r \in Requests : Begin(r) \/ Progress(r) \/ Fail(r) \/ LoseAnswer(r)

Spec == Init /\ [][Next]_vars

\* The event loop and PostgreSQL keep executing the statements of an open
\* request, and the deadlock detector runs; calls need not arrive.
FairSpec == Spec /\ \A r \in Requests : WF_vars(Progress(r))

-----------------------------------------------------------------------------
(* Properties.                                                             *)

\* Every variable holds a value of its kind.
TypeOK ==
  /\ table \in [Carried -> Row]
  /\ lock \in [Carried -> Requests \cup {NoRequest}]
  /\ pc \in [Requests -> {"idle", "committed", "done"} \cup Open]
  /\ call \in [Requests -> Calls]
  /\ waiting \in [Requests -> Carried \cup {NoProduct}]
  /\ wrote = [r \in Requests |-> wrote[r]]
  /\ \A r \in Requests : \E rows \in SUBSET Carried : wrote[r] \in [rows -> Row]
  /\ noted \in [Requests -> SUBSET Event]
  /\ outbox \subseteq Event
  /\ nextId \in Nat \ {0}
  /\ outcome \in [Requests -> Outcome]

\* No interleaving of reservations, releases, updates, rollbacks and deadlocks
\* leaves a row, committed or about to be, below zero or beyond the column.
StockInRange ==
  /\ \A p \in Carried : InRange(table[p])
  /\ \A r \in Requests : \A p \in DOMAIN wrote[r] : InRange(wrote[r][p])

\* The ids of one product's events are committed in increasing order, although
\* ids are drawn inside transactions that commit in any order: whoever reads
\* the pending events by id reads the changes of a row in the order the row
\* went through them (insertOutboxEvents runs under the row locks).
IdsFollowCommits ==
  [][\A e \in outbox' \ outbox : \A d \in outbox :
       d.product = e.product => d.id < e.id]_vars

\* How a call stands with respect to the ledger: it is applied by its commit.
SettledOf(r) ==
  CASE pc[r] = "committed" \/ outcome[r] \in {"ok", "unanswered"} -> "applied"
    [] outcome[r] \in {"conflict", "not_found"} -> "refused"
    [] outcome[r] = "error" -> "abandoned"
    [] OTHER -> "open"

Ledger == INSTANCE StockLedger
  WITH shelf <- table, settled <- [r \in Requests |-> SettledOf(r)],
       plan <- call, InitShelf <- InitTable

\* Calls are serializable: reserve, release and update behave as the atomic
\* steps of StockLedger although each is several statements (for calls that
\* name each product once).
IsLedger == Ledger!Spec

\* Whatever rows a call meets locked, and in whatever order it reached them,
\* it ends: no set of requests waits for ever.
EveryCallEnds ==
  \A r \in Requests : pc[r] = "locking" ~> pc[r] = "done"
=============================================================================
