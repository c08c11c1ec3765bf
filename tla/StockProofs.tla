---------------------------- MODULE StockProofs ----------------------------
(***************************************************************************)
(* Proofs about Stock, for any number of requests, products and calls.     *)
(***************************************************************************)
EXTENDS StockAccounting, WellFoundedInduction, TLAPS

USE CarriedAssumption, MaxStockAssumption, NoRequestAssumption,
    NoProductAssumption

-----------------------------------------------------------------------------
(* Calls and their events.                                                 *)

LEMMA CallShape ==
  ASSUME NEW c \in Calls
  PROVE  /\ c.op \in {"reserve", "release", "update"}
         /\ c.items \in Seq(Line)
         /\ Lines(c) = 1..Len(c.items)
         /\ Len(c.items) \in Nat \ {0}
         /\ \A i \in Lines(c) : /\ c.items[i] \in Line
                                /\ c.items[i].product \in Products
                                /\ c.items[i].quantity \in Nat
         /\ c.op = "update" => c.available \in BOOLEAN
  <1>1. c \in Call /\ c.items # <<>>
    BY CallsAssumption
  <1>2. c.items \in Seq(Line) /\ c.op \in {"reserve", "release", "update"}
        /\ (c.op = "update" => c.available \in BOOLEAN)
    BY <1>1 DEF Call
  <1>3. Lines(c) = 1..Len(c.items) /\ Len(c.items) \in Nat \ {0}
    BY <1>1, <1>2 DEF Lines
  <1>4. \A i \in Lines(c) : c.items[i] \in Line
    BY <1>2, <1>3
  <1> QED
    BY <1>2, <1>3, <1>4 DEF Line

LEMMA JoinedShape ==
  ASSUME NEW c \in Calls, NEW line \in Joined(c), NEW p \in Existing(c)
  PROVE  /\ line[p] \in Lines(c)
         /\ c.items[line[p]].product = p
         /\ c.items[line[p]].quantity \in Nat
         /\ p \in Carried
  BY CallShape DEF Joined, Existing

\* The ids a request draws lie between the old and the new serial, and its
\* events are about the products its lines name.
Drawn(c) == IF c.op = "update" THEN 2 ELSE Len(c.items)

LEMMA EventsShape ==
  ASSUME NEW c \in Calls, NEW first \in Nat \ {0}
  PROVE  \A e \in EventsOf(c, first) :
           /\ e.id \in Nat
           /\ first <= e.id /\ e.id < first + Drawn(c)
           /\ e.product \in Wanted(c)
           /\ Wanted(c) \subseteq Carried => e \in Event
  <1>1. CASE c.op = "update"
    BY <1>1, CallShape DEF EventsOf, Drawn, Wanted, Event, EventType, Change
  <1>2. CASE c.op # "update"
    <2> SUFFICES ASSUME NEW i \in Lines(c)
                 PROVE  LET e == [id |-> first + i - 1,
                                  product |-> c.items[i].product,
                                  type |-> "product.stock.changed",
                                  change |-> IF c.op = "reserve"
                                               THEN "decremented"
                                               ELSE "incremented",
                                  amount |-> c.items[i].quantity]
                        IN  /\ e.id \in Nat
                            /\ first <= e.id /\ e.id < first + Drawn(c)
                            /\ e.product \in Wanted(c)
                            /\ Wanted(c) \subseteq Carried => e \in Event
      BY <1>2 DEF EventsOf
    <2> QED
      BY <1>2, CallShape DEF Drawn, Wanted, Event, EventType, Change
  <1> QED
    BY <1>1, <1>2

-----------------------------------------------------------------------------
(* Type correctness and the lock discipline.                               *)

\* A request that has written holds the locks of all the rows it names, and
\* has written exactly those; a request that is over holds none.
LockDiscipline ==
  \A r \in Requests :
    /\ pc[r] \in {"written", "logged"} =>
         /\ Wanted(call[r]) \subseteq Held(r)
         /\ DOMAIN wrote[r] = Wanted(call[r])
    /\ pc[r] \notin Open => Held(r) = {}

TypeInv == TypeOK /\ LockDiscipline

LEMMA NoRowsShape == NoRows \in [{} -> Row]
  BY DEF NoRows

LEMMA HeldShape ==
  /\ \A r \in Requests : Held(r) \subseteq Carried
  /\ \A q, r \in Requests : q # r => Held(q) \cap Held(r) = {}
  BY DEF Held

LEMMA ReleaseHeld ==
  ASSUME TypeOK, NEW r \in Requests, lock' = Release(r)
  PROVE  /\ lock' \in [Carried -> Requests \cup {NoRequest}]
         /\ Held(r)' = {}
         /\ \A q \in Requests \ {r} : Held(q)' = Held(q)
  BY DEF TypeOK, Release, Held

LEMMA InitType == Init => TypeInv
  <1> SUFFICES ASSUME Init PROVE TypeInv
    OBVIOUS
  <1>1. wrote = [r \in Requests |-> wrote[r]]
        /\ \A r \in Requests : wrote[r] \in [{} -> Row] /\ {} \in SUBSET Carried
    BY NoRowsShape DEF Init
  <1>2. \A r \in Requests : \E rows \in SUBSET Carried : wrote[r] \in [rows -> Row]
    BY <1>1, Zenon
  <1>3. table \in [Carried -> Row]
    BY InitTableAssumption DEF Init
  <1>4. TypeOK
    BY <1>1, <1>2, <1>3 DEF Init, TypeOK, Open, Outcome
  <1>5. LockDiscipline
    BY DEF Init, LockDiscipline, Held, Open
  <1> QED
    BY <1>4, <1>5 DEF TypeInv

LEMMA RollbackType ==
  ASSUME TypeInv, NEW r \in Requests, NEW answer \in Outcome, Rollback(r, answer)
  PROVE  TypeInv'
  <1>1. TypeOK'
    BY NoRowsShape DEF TypeInv, TypeOK, Rollback, Release, Open
  <1>2. LockDiscipline'
    <2>1. /\ Held(r)' = {}
          /\ \A q \in Requests \ {r} : Held(q)' = Held(q)
      BY ReleaseHeld DEF TypeInv, Rollback
    <2>2. /\ pc'[r] = "done"
          /\ \A q \in Requests \ {r} : pc'[q] = pc[q] /\ wrote'[q] = wrote[q]
          /\ call' = call
      BY DEF TypeInv, TypeOK, Rollback
    <2> QED
      BY <2>1, <2>2 DEF TypeInv, LockDiscipline
  <1> QED
    BY <1>1, <1>2 DEF TypeInv

LEMMA WriteType ==
  ASSUME TypeInv, NEW r \in Requests, pc[r] = "locking",
         Wanted(call[r]) \subseteq Carried, AllLocked(r),
         NEW new \in [Existing(call[r]) -> Row], Write(r, new)
  PROVE  TypeInv'
  <1>1. TypeOK'
    <2>1. Existing(call[r]) \in SUBSET Carried
      BY DEF Existing
    <2> QED
      BY <2>1 DEF TypeInv, TypeOK, Write, Open
  <1>2. LockDiscipline'
    <2>1. /\ lock' = lock /\ call' = call
          /\ pc'[r] = "written" /\ wrote'[r] = new
          /\ \A q \in Requests \ {r} : pc'[q] = pc[q] /\ wrote'[q] = wrote[q]
      BY DEF TypeInv, TypeOK, Write
    <2>2. \A q \in Requests : Held(q)' = Held(q)
      BY <2>1 DEF Held
    <2>3. Existing(call[r]) = Wanted(call[r]) /\ Wanted(call[r]) \subseteq Held(r)
      BY DEF Existing, AllLocked
    <2> QED
      BY <2>1, <2>2, <2>3 DEF TypeInv, LockDiscipline, Open
  <1> QED
    BY <1>1, <1>2 DEF TypeInv

\* A reservation that finds every line sold, like a release or an update that
\* finds every row, names rows the branch carries.
LEMMA SellsCarried ==
  ASSUME NEW c \in Calls, \A i \in Lines(c) : Sells(c, i)
  PROVE  Wanted(c) \subseteq Carried
  BY DEF Wanted, Sells

LEMMA NextType == TypeInv /\ [Next]_vars => TypeInv'
  <1> SUFFICES ASSUME TypeInv, [Next]_vars PROVE TypeInv'
    OBVIOUS
  <1> USE DEF TypeInv
  <1>1. CASE UNCHANGED vars
    BY <1>1 DEF vars, TypeOK, LockDiscipline, Held
  <1>2. ASSUME NEW r \in Requests, Begin(r) PROVE TypeInv'
    BY <1>2 DEF TypeOK, LockDiscipline, Held, Begin, Open
  <1>3. ASSUME NEW r \in Requests, NEW p \in Carried, LockRow(r, p) PROVE TypeInv'
    <2>1. TypeOK'
      BY <1>3 DEF TypeOK, LockRow
    <2>2. /\ \A q \in Requests : Held(q) \subseteq Held(q)'
          /\ \A q \in Requests \ {r} : Held(q)' = Held(q)
          /\ pc' = pc /\ call' = call /\ wrote' = wrote /\ pc[r] \in Open
      BY <1>3 DEF TypeOK, LockRow, Held, Open
    <2> QED
      BY <2>1, <2>2 DEF LockDiscipline
  <1>4. ASSUME NEW r \in Requests, NEW p \in Carried, Block(r, p) PROVE TypeInv'
    BY <1>4 DEF TypeOK, Block, LockDiscipline, Held
  <1>5. ASSUME NEW r \in Requests,
               RejectReserve(r) \/ RejectMissing(r) \/ Overflow(r)
                 \/ DeadlockVictim(r) \/ Fail(r)
        PROVE  TypeInv'
    <2>1. \E answer \in Outcome : Rollback(r, answer)
      BY <1>5 DEF RejectReserve, RejectMissing, Overflow, DeadlockVictim, Fail,
                  Outcome
    <2> QED
      BY <2>1, RollbackType
  <1>6. ASSUME NEW r \in Requests, Decrement(r) PROVE TypeInv'
    <2> DEFINE c == call[r]
    <2>1. c \in Calls
      BY DEF TypeOK
    <2>2. PICK line \in Joined(c) :
            Write(r, [p \in Existing(c) |->
                        [stock |-> table[p].stock - c.items[line[p]].quantity,
                         isAvailable |-> table[p].isAvailable]])
      BY <1>6 DEF Decrement
    <2>3. Existing(c) \subseteq Carried
      BY DEF Existing
    <2>4. \A p \in Existing(c) :
            [stock |-> table[p].stock - c.items[line[p]].quantity,
             isAvailable |-> table[p].isAvailable] \in Row
      BY <2>1, <2>3, JoinedShape DEF TypeOK, Row
    <2>5. pc[r] = "locking" /\ AllLocked(r) /\ Wanted(c) \subseteq Carried
      BY <1>6, <2>1, SellsCarried DEF Decrement
    <2> QED
      BY <2>2, <2>4, <2>5, WriteType
  <1>7. ASSUME NEW r \in Requests, Increment(r) PROVE TypeInv'
    <2> DEFINE c == call[r]
    <2>1. c \in Calls
      BY DEF TypeOK
    <2>2. PICK line \in Joined(c) :
            Write(r, [p \in Existing(c) |->
                        [stock |-> Increased(c, line, p),
                         isAvailable |-> table[p].isAvailable]])
      BY <1>7 DEF Increment
    <2>3. Existing(c) \subseteq Carried
      BY DEF Existing
    <2>4. \A p \in Existing(c) :
            [stock |-> Increased(c, line, p),
             isAvailable |-> table[p].isAvailable] \in Row
      BY <2>1, <2>3, JoinedShape DEF TypeOK, Row, Increased
    <2>5. pc[r] = "locking" /\ AllLocked(r) /\ Wanted(c) \subseteq Carried
      BY <1>7 DEF Increment
    <2> QED
      BY <2>2, <2>4, <2>5, WriteType
  <1>8. ASSUME NEW r \in Requests, Overwrite(r) PROVE TypeInv'
    <2> DEFINE c == call[r]
               new(line, p) ==
                 [stock |-> IF "stock" \in c.fields
                              THEN c.items[line[p]].quantity
                              ELSE table[p].stock,
                  isAvailable |-> IF "isAvailable" \in c.fields
                                    THEN c.available
                                    ELSE table[p].isAvailable]
    <2>1. c \in Calls /\ c.op = "update"
      BY <1>8 DEF TypeOK, Overwrite
    <2>2. PICK line \in Joined(c) :
            Write(r, [p \in Existing(c) |-> new(line, p)])
      BY <1>8 DEF Overwrite
    <2>3. Existing(c) \subseteq Carried
      BY DEF Existing
    <2>4. \A p \in Existing(c) : new(line, p) \in Row
      <3> SUFFICES ASSUME NEW p \in Existing(c) PROVE new(line, p) \in Row
        OBVIOUS
      <3>1. c.items[line[p]].quantity \in Int /\ c.available \in BOOLEAN
        BY <2>1, CallShape, JoinedShape
      <3>2. table[p].stock \in Int /\ table[p].isAvailable \in BOOLEAN
        BY <2>3 DEF TypeOK, Row
      <3> QED
        BY <3>1, <3>2 DEF Row
    <2>5. pc[r] = "locking" /\ AllLocked(r) /\ Wanted(c) \subseteq Carried
      BY <1>8 DEF Overwrite
    <2> HIDE DEF new
    <2> QED
      BY <2>2, <2>4, <2>5, WriteType
  <1>9. ASSUME NEW r \in Requests, InsertEvents(r) PROVE TypeInv'
    <2>1. EventsOf(call[r], nextId) \subseteq Event
      <3>1. Wanted(call[r]) \subseteq Carried
        BY <1>9, HeldShape DEF LockDiscipline, InsertEvents
      <3> QED
        BY <3>1, EventsShape DEF TypeOK
    <2>2. nextId' \in Nat \ {0}
      BY <1>9, CallShape DEF TypeOK, InsertEvents
    <2>3. TypeOK'
      BY <1>9, <2>1, <2>2 DEF TypeOK, InsertEvents, Open
    <2> QED
      BY <1>9, <2>3 DEF TypeOK, InsertEvents, LockDiscipline, Held, Open
  <1>10. ASSUME NEW r \in Requests, Commit(r) PROVE TypeInv'
    <2>1. table' \in [Carried -> Row]
      BY <1>10 DEF TypeOK, Commit
    <2>2. \A q \in Requests : \E rows \in SUBSET Carried : wrote'[q] \in [rows -> Row]
      <3>1. \A q \in Requests \ {r} : wrote'[q] = wrote[q]
        BY <1>10 DEF TypeOK, Commit
      <3>2. wrote'[r] \in [{} -> Row] /\ {} \in SUBSET Carried
        BY <1>10, NoRowsShape DEF TypeOK, Commit
      <3> QED
        BY <3>1, <3>2 DEF TypeOK
    <2>3. wrote' = [q \in Requests |-> wrote'[q]]
      BY <1>10 DEF TypeOK, Commit
    <2>4. /\ lock' \in [Carried -> Requests \cup {NoRequest}]
          /\ Held(r)' = {}
          /\ \A q \in Requests \ {r} : Held(q)' = Held(q)
      BY <1>10, ReleaseHeld DEF Commit
    <2>5. outbox' \subseteq Event /\ noted' \in [Requests -> SUBSET Event]
      BY <1>10 DEF TypeOK, Commit
    <2>6. TypeOK'
      BY <1>10, <2>1, <2>2, <2>3, <2>4, <2>5 DEF TypeOK, Commit
    <2>7. LockDiscipline'
      <3>1. /\ pc'[r] = "committed"
            /\ \A q \in Requests \ {r} : pc'[q] = pc[q] /\ wrote'[q] = wrote[q]
            /\ call' = call
        BY <1>10 DEF TypeOK, Commit
      <3> QED
        BY <2>4, <3>1 DEF LockDiscipline
    <2> QED
      BY <2>6, <2>7
  <1>11. ASSUME NEW r \in Requests, Answer(r) \/ LoseAnswer(r) PROVE TypeInv'
    <2>1. TypeOK'
      BY <1>11 DEF TypeOK, Answer, LoseAnswer, Outcome
    <2> QED
      BY <1>11, <2>1 DEF TypeOK, Answer, LoseAnswer, LockDiscipline, Held, Open
  <1> QED
    BY <1>1, <1>2, <1>3, <1>4, <1>5, <1>6, <1>7, <1>8, <1>9, <1>10, <1>11
    DEF Next, Progress

\* Every variable of Stock always holds a value of its kind.
THEOREM TypeCorrect == Spec => []TypeOK
  <1>1. Init => TypeInv
    BY InitType
  <1>2. TypeInv /\ [Next]_vars => TypeInv'
    BY NextType
  <1>3. TypeInv => TypeOK
    BY DEF TypeInv
  <1> QED
    BY <1>1, <1>2, <1>3, PTL DEF Spec

-----------------------------------------------------------------------------
(* Stock never leaves its range.                                           *)

\* The steps sorted by what they do to the rows.
LEMMA StepKinds ==
  ASSUME [Next]_vars
  PROVE  \/ table' = table /\ wrote' = wrote /\ outbox' = outbox /\ lock' = lock
              /\ noted' = noted /\ nextId' = nextId
         \/ \E r \in Requests :
              \/ \E p \in Carried : LockRow(r, p)
              \/ \E answer \in Outcome : Rollback(r, answer)
              \/ Decrement(r) \/ Increment(r) \/ Overwrite(r)
              \/ InsertEvents(r)
              \/ Commit(r)
  <1>1. ASSUME NEW r \in Requests,
               RejectReserve(r) \/ RejectMissing(r) \/ Overflow(r)
                 \/ DeadlockVictim(r) \/ Fail(r)
        PROVE  \E answer \in Outcome : Rollback(r, answer)
    BY <1>1 DEF RejectReserve, RejectMissing, Overflow, DeadlockVictim, Fail, Outcome
  <1>2. ASSUME NEW r \in Requests,
               Begin(r) \/ Answer(r) \/ LoseAnswer(r)
                 \/ \E p \in Carried : Block(r, p)
        PROVE  table' = table /\ wrote' = wrote /\ outbox' = outbox /\ lock' = lock
                 /\ noted' = noted /\ nextId' = nextId
    BY <1>2 DEF Begin, Answer, LoseAnswer, Block
  <1>3. CASE UNCHANGED vars
    BY <1>3 DEF vars
  <1> QED
    BY <1>1, <1>2, <1>3 DEF Next, Progress

LEMMA RangeOfWrite ==
  ASSUME TypeInv, StockInRange, NEW r \in Requests,
         NEW new, Write(r, new), \A p \in DOMAIN new : InRange(new[p])
  PROVE  StockInRange'
  BY DEF TypeInv, TypeOK, StockInRange, Write, InRange

LEMMA NextRange == TypeInv /\ StockInRange /\ [Next]_vars => StockInRange'
  <1> SUFFICES ASSUME TypeInv, StockInRange, [Next]_vars PROVE StockInRange'
    OBVIOUS
  <1> USE DEF TypeInv
  <1>1. CASE table' = table /\ wrote' = wrote
    BY <1>1 DEF StockInRange, InRange
  <1>2. ASSUME NEW r \in Requests, NEW answer \in Outcome, Rollback(r, answer)
        PROVE  StockInRange'
    BY <1>2 DEF Rollback, StockInRange, InRange, TypeOK, NoRows
  <1>3. ASSUME NEW r \in Requests, Decrement(r) PROVE StockInRange'
    <2> DEFINE c == call[r]
    <2>1. c \in Calls
      BY DEF TypeOK
    <2>2. PICK line \in Joined(c) :
            Write(r, [p \in Existing(c) |->
                        [stock |-> table[p].stock - c.items[line[p]].quantity,
                         isAvailable |-> table[p].isAvailable]])
      BY <1>3 DEF Decrement
    <2>3. \A p \in Existing(c) :
            table[p].stock - c.items[line[p]].quantity \in 0..MaxStock
      <3> SUFFICES ASSUME NEW p \in Existing(c)
                   PROVE  table[p].stock - c.items[line[p]].quantity \in 0..MaxStock
        OBVIOUS
      <3>1. /\ line[p] \in Lines(c) /\ c.items[line[p]].product = p
            /\ c.items[line[p]].quantity \in Nat /\ p \in Carried
        BY <2>1, JoinedShape
      <3>2. table[p].stock >= c.items[line[p]].quantity
        BY <1>3, <3>1 DEF Decrement, Sells
      <3>3. table[p].stock \in 0..MaxStock
        BY <3>1 DEF StockInRange, InRange
      <3> QED
        BY <3>1, <3>2, <3>3
    <2> QED
      BY <2>2, <2>3, RangeOfWrite DEF InRange
  <1>4. ASSUME NEW r \in Requests, Increment(r) PROVE StockInRange'
    <2> DEFINE c == call[r]
    <2>1. c \in Calls
      BY DEF TypeOK
    <2>2. PICK line \in Joined(c) :
            /\ \A p \in Existing(c) : Increased(c, line, p) <= MaxStock
            /\ Write(r, [p \in Existing(c) |->
                           [stock |-> Increased(c, line, p),
                            isAvailable |-> table[p].isAvailable]])
      BY <1>4 DEF Increment
    <2>3. \A p \in Existing(c) : Increased(c, line, p) \in 0..MaxStock
      <3> SUFFICES ASSUME NEW p \in Existing(c)
                   PROVE  Increased(c, line, p) \in 0..MaxStock
        OBVIOUS
      <3>1. c.items[line[p]].quantity \in Nat /\ p \in Carried
        BY <2>1, JoinedShape
      <3>2. table[p].stock \in 0..MaxStock
        BY <3>1 DEF StockInRange, InRange
      <3> QED
        BY <2>2, <3>1, <3>2 DEF Increased
    <2> QED
      BY <2>2, <2>3, RangeOfWrite DEF InRange
  <1>5. ASSUME NEW r \in Requests, Overwrite(r) PROVE StockInRange'
    <2> DEFINE c == call[r]
               level(line, p) == IF "stock" \in c.fields
                                   THEN c.items[line[p]].quantity
                                   ELSE table[p].stock
               flag(p) == IF "isAvailable" \in c.fields
                            THEN c.available
                            ELSE table[p].isAvailable
    <2>1. c \in Calls
      BY DEF TypeOK
    <2>2. PICK line \in Joined(c) :
            Write(r, [p \in Existing(c) |->
                        [stock |-> level(line, p), isAvailable |-> flag(p)]])
      BY <1>5 DEF Overwrite
    <2>3. \A p \in Existing(c) : level(line, p) \in 0..MaxStock
      <3> SUFFICES ASSUME NEW p \in Existing(c) PROVE level(line, p) \in 0..MaxStock
        OBVIOUS
      <3>1. /\ line[p] \in Lines(c) /\ p \in Carried
            /\ c.items[line[p]].quantity \in Nat
        BY <2>1, JoinedShape
      <3>2. "stock" \in c.fields => c.items[line[p]].quantity <= MaxStock
        BY <1>5, <3>1, MaxStockAssumption DEF Overwrite, TooLarge
      <3>3. table[p].stock \in 0..MaxStock
        BY <3>1 DEF StockInRange, InRange
      <3> QED
        BY <3>1, <3>2, <3>3
    <2> HIDE DEF level, flag
    <2> QED
      BY <2>2, <2>3, RangeOfWrite DEF InRange
  <1>6. ASSUME NEW r \in Requests, Commit(r) PROVE StockInRange'
    <2>1. \A p \in Carried : InRange(table'[p])
      BY <1>6 DEF Commit, StockInRange, InRange
    <2>2. \A q \in Requests : \A p \in DOMAIN wrote'[q] : InRange(wrote'[q][p])
      BY <1>6 DEF Commit, StockInRange, InRange, TypeOK, NoRows
    <2> QED
      BY <2>1, <2>2 DEF StockInRange, InRange
  <1>7. ASSUME NEW r \in Requests, InsertEvents(r) \/ \E p \in Carried : LockRow(r, p)
        PROVE  StockInRange'
    BY <1>7 DEF InsertEvents, LockRow, StockInRange, InRange
  <1> QED
    BY <1>1, <1>2, <1>3, <1>4, <1>5, <1>6, <1>7, StepKinds

\* No interleaving of reservations, releases and updates, whatever fails or
\* deadlocks in between, takes a row below zero or beyond its column.
THEOREM StockStaysInRange == Spec => []StockInRange
  <1>1. Init => StockInRange
    BY InitTableAssumption DEF Init, StockInRange, NoRows, InRange
  <1>2. Init => TypeInv
    BY InitType
  <1>3. TypeInv /\ StockInRange /\ [Next]_vars => TypeInv' /\ StockInRange'
    BY NextType, NextRange
  <1> QED
    BY <1>1, <1>2, <1>3, PTL DEF Spec

-----------------------------------------------------------------------------
(* The ids of a row's events follow its commits.                           *)

\* Ids are drawn from the serial; an uncommitted event is about a row its
\* transaction has locked, so no later event of that row is committed yet.
EventIds ==
  /\ \A d \in outbox : d.id < nextId
  /\ \A r \in Requests : \A e \in noted[r] :
       /\ e.id < nextId
       /\ e.product \in Held(r)
       /\ \A d \in outbox : d.product = e.product => d.id < e.id

LEMMA NextEventIds == TypeInv /\ EventIds /\ [Next]_vars => EventIds'
  <1> SUFFICES ASSUME TypeInv, EventIds, [Next]_vars PROVE EventIds'
    OBVIOUS
  <1> USE DEF TypeInv
  <1>1. CASE /\ outbox' = outbox /\ lock' = lock
             /\ noted' = noted /\ nextId' = nextId
    BY <1>1 DEF EventIds, Held
  <1>2. ASSUME NEW r \in Requests, NEW answer \in Outcome, Rollback(r, answer)
        PROVE  EventIds'
    <2>1. \A q \in Requests \ {r} : Held(q)' = Held(q) /\ noted'[q] = noted[q]
      BY <1>2, ReleaseHeld DEF Rollback, TypeOK
    <2>2. noted'[r] = {} /\ outbox' = outbox /\ nextId' = nextId
      BY <1>2 DEF Rollback, TypeOK
    <2> QED
      BY <2>1, <2>2 DEF EventIds
  <1>3. ASSUME NEW r \in Requests, Decrement(r) \/ Increment(r) \/ Overwrite(r)
        PROVE  EventIds'
    BY <1>3 DEF Decrement, Increment, Overwrite, Write, EventIds, Held
  <1>4. ASSUME NEW r \in Requests, NEW p \in Carried, LockRow(r, p)
        PROVE  EventIds'
    <2>1. \A q \in Requests : Held(q) \subseteq Held(q)'
      BY <1>4 DEF LockRow, Held, TypeOK
    <2> QED
      BY <1>4, <2>1 DEF LockRow, EventIds
  <1>5. ASSUME NEW r \in Requests, InsertEvents(r) PROVE EventIds'
    <2> DEFINE new == EventsOf(call[r], nextId)
    <2>1. /\ call[r] \in Calls /\ nextId \in Nat \ {0}
          /\ Drawn(call[r]) \in Nat
          /\ nextId' = nextId + Drawn(call[r])
      BY <1>5, CallShape DEF InsertEvents, TypeOK, Drawn
    <2>2. \A e \in new : /\ e.id \in Nat /\ nextId <= e.id /\ e.id < nextId'
                         /\ e.product \in Wanted(call[r])
      BY <2>1, EventsShape
    <2>3. Wanted(call[r]) \subseteq Held(r)
      BY <1>5 DEF InsertEvents, LockDiscipline
    <2>4. /\ outbox' = outbox /\ noted'[r] = new
          /\ \A q \in Requests \ {r} : noted'[q] = noted[q]
          /\ \A q \in Requests : Held(q)' = Held(q)
      BY <1>5 DEF InsertEvents, TypeOK, Held
    <2>5. \A d \in outbox : d.id \in Nat /\ d.id < nextId
      BY DEF EventIds, TypeOK, Event
    <2>6. \A q \in Requests : \A e \in noted[q] : e.id \in Nat /\ e.id < nextId
      BY DEF EventIds, TypeOK, Event
    <2>7. \A d \in outbox' : d.id < nextId'
      BY <2>1, <2>4, <2>5
    <2>8. ASSUME NEW q \in Requests \ {r}, NEW e \in noted'[q]
          PROVE  /\ e.id < nextId' /\ e.product \in Held(q)'
                 /\ \A d \in outbox' : d.product = e.product => d.id < e.id
      <3>1. e \in noted[q]
        BY <2>4
      <3>2. e.id < nextId'
        BY <2>1, <2>6, <3>1
      <3> QED
        BY <2>4, <3>1, <3>2 DEF EventIds
    <2>9. ASSUME NEW e \in noted'[r]
          PROVE  /\ e.id < nextId' /\ e.product \in Held(r)'
                 /\ \A d \in outbox' : d.product = e.product => d.id < e.id
      <3>1. e \in new
        BY <2>4
      <3>2. \A d \in outbox : d.id < e.id
        BY <2>1, <2>2, <2>5, <3>1
      <3> QED
        BY <2>2, <2>3, <2>4, <3>1, <3>2
    <2> QED
      BY <2>7, <2>8, <2>9 DEF EventIds
  <1>6. ASSUME NEW r \in Requests, Commit(r) PROVE EventIds'
    <2>1. \A q \in Requests \ {r} : Held(q)' = Held(q) /\ noted'[q] = noted[q]
      BY <1>6, ReleaseHeld DEF Commit, TypeOK
    <2>2. noted'[r] = {} /\ outbox' = outbox \cup noted[r] /\ nextId' = nextId
      BY <1>6 DEF Commit, TypeOK
    <2>3. \A q \in Requests \ {r} : \A e \in noted[q], d \in noted[r] :
            d.product # e.product
      BY HeldShape DEF EventIds
    <2> QED
      BY <2>1, <2>2, <2>3 DEF EventIds
  <1> QED
    BY <1>1, <1>2, <1>3, <1>4, <1>5, <1>6, StepKinds

\* The events of one row are committed in the order of their ids.
THEOREM CommitsFollowIds == Spec => IdsFollowCommits
  <1> DEFINE Step == \A e \in outbox' \ outbox : \A d \in outbox :
                       d.product = e.product => d.id < e.id
  <1>1. Init => TypeInv /\ EventIds
    BY InitType DEF Init, EventIds
  <1>2. TypeInv /\ EventIds /\ [Next]_vars => TypeInv' /\ EventIds'
    BY NextType, NextEventIds
  <1>3. TypeInv /\ EventIds /\ [Next]_vars => [Step]_vars
    <2> SUFFICES ASSUME TypeInv, EventIds, [Next]_vars PROVE Step
      OBVIOUS
    <2>1. ASSUME NEW r \in Requests, Commit(r) PROVE Step
      BY <2>1 DEF Commit, EventIds
    <2>2. CASE outbox' = outbox
      BY <2>2
    <2>3. ASSUME NEW r \in Requests,
                 \/ \E p \in Carried : LockRow(r, p)
                 \/ \E answer \in Outcome : Rollback(r, answer)
                 \/ Decrement(r) \/ Increment(r) \/ Overwrite(r)
                 \/ InsertEvents(r)
          PROVE  outbox' = outbox
      BY <2>3 DEF LockRow, Rollback, Decrement, Increment, Overwrite, Write,
                  InsertEvents
    <2> QED
      BY <2>1, <2>2, <2>3, StepKinds
  <1> QED
    BY <1>1, <1>2, <1>3, PTL DEF Spec, IdsFollowCommits

-----------------------------------------------------------------------------
(* Stock implements StockLedger, for calls that name each product once.    *)

OneLineEach ==
  \A c \in Calls : \A i, j \in Lines(c) :
    c.items[i].product = c.items[j].product => i = j

\* What the call makes of row p, and whether it may.
After(c, p, row) ==
  CASE c.op = "reserve" -> [stock |-> row.stock - Ledger!Quantity(c, p),
                            isAvailable |-> row.isAvailable]
    [] c.op = "release" -> [stock |-> row.stock + Ledger!Quantity(c, p),
                            isAvailable |-> row.isAvailable]
    [] c.op = "update" -> [stock |-> IF "stock" \in c.fields
                                       THEN Ledger!Quantity(c, p)
                                       ELSE row.stock,
                           isAvailable |-> IF "isAvailable" \in c.fields
                                             THEN c.available
                                             ELSE row.isAvailable]

Fits(c, p, row, new) ==
  /\ c.op = "reserve" => row.isAvailable /\ row.stock >= Ledger!Quantity(c, p)
  /\ new = After(c, p, row)

\* What a request has checked and computed still fits the committed rows: the
\* locks keep them as they were read.
Prepared(r) ==
  \A p \in Wanted(call[r]) : Fits(call[r], p, table[p], wrote[r][p])

\* A call has an outcome when it is over, and waits only while it locks, for
\* a row it names and has not got.
Stages ==
  \A r \in Requests :
    /\ pc[r] = "done" <=> outcome[r] # "none"
    /\ waiting[r] # NoProduct =>
         /\ pc[r] = "locking"
         /\ waiting[r] \in Existing(call[r])
         /\ lock[waiting[r]] # r

LedgerInv ==
  /\ Stages
  /\ \A r \in Requests : pc[r] \in {"written", "logged"} => Prepared(r)

LEMMA QuantityShape ==
  ASSUME OneLineEach, NEW c \in Calls, NEW i \in Lines(c)
  PROVE  Ledger!Quantity(c, c.items[i].product) = c.items[i].quantity
  BY DEF OneLineEach, Ledger!Quantity, Ledger!LineOf, Ledger!LinesOf, Lines

LEMMA RowsShape ==
  ASSUME NEW c
  PROVE  /\ Ledger!Rows(c) = Existing(c)
         /\ Ledger!Missing(c) <=> ~(Wanted(c) \subseteq Carried)
  BY DEF Ledger!Rows, Ledger!Missing, Ledger!LinesOf, Existing, Wanted, Lines

LEMMA NextStages == TypeInv /\ Stages /\ [Next]_vars => Stages'
  <1> SUFFICES ASSUME TypeInv, Stages, [Next]_vars PROVE Stages'
    OBVIOUS
  <1> USE DEF TypeInv
  <1>1. CASE UNCHANGED vars
    BY <1>1 DEF vars, Stages
  <1>2. ASSUME NEW r \in Requests, NEW answer \in Outcome \ {"none"},
               Rollback(r, answer)
        PROVE  Stages'
    BY <1>2 DEF Rollback, Release, Stages, TypeOK, Existing
  <1>3. ASSUME NEW r \in Requests,
               RejectReserve(r) \/ RejectMissing(r) \/ Overflow(r)
                 \/ DeadlockVictim(r) \/ Fail(r)
        PROVE  Stages'
    <2>1. \E answer \in Outcome \ {"none"} : Rollback(r, answer)
      BY <1>3 DEF RejectReserve, RejectMissing, Overflow, DeadlockVictim, Fail,
                  Outcome
    <2> QED
      BY <2>1, <1>2
  <1>4. ASSUME NEW r \in Requests, Begin(r) PROVE Stages'
    BY <1>4 DEF Begin, Stages, TypeOK
  <1>5. ASSUME NEW r \in Requests, NEW p \in Carried, LockRow(r, p) \/ Block(r, p)
        PROVE  Stages'
    BY <1>5 DEF LockRow, Block, Stages, TypeOK
  <1>6. ASSUME NEW r \in Requests, Decrement(r) \/ Increment(r) \/ Overwrite(r)
        PROVE  Stages'
    <2>1. /\ pc[r] = "locking" /\ pc' = [pc EXCEPT ![r] = "written"]
          /\ outcome' = outcome /\ waiting' = waiting
      BY <1>6 DEF Decrement, Increment, Overwrite, Write
    <2>2. waiting[r] = NoProduct
      <3>1. AllLocked(r)
        BY <1>6 DEF Decrement, Increment, Overwrite
      <3> QED
        BY <3>1 DEF Stages, AllLocked, Held
    <2>3. lock' = lock /\ call' = call
      BY <1>6 DEF Decrement, Increment, Overwrite, Write
    <2> QED
      BY <2>1, <2>2, <2>3 DEF Stages, TypeOK
  <1>7. ASSUME NEW r \in Requests,
               InsertEvents(r) \/ Commit(r) \/ Answer(r) \/ LoseAnswer(r)
        PROVE  Stages'
    BY <1>7 DEF InsertEvents, Commit, Release, Answer, LoseAnswer, Stages,
                TypeOK, Existing
  <1> QED
    BY <1>1, <1>3, <1>4, <1>5, <1>6, <1>7 DEF Next, Progress

LEMMA PreparedKept ==
  ASSUME NEW r \in Requests, Prepared(r), call' = call, wrote'[r] = wrote[r],
         \A p \in Wanted(call[r]) : table'[p] = table[p]
  PROVE  Prepared(r)'
  BY DEF Prepared

LEMMA JoinedQuantity ==
  ASSUME OneLineEach, NEW c \in Calls, NEW line \in Joined(c),
         NEW p \in Existing(c)
  PROVE  c.items[line[p]].quantity = Ledger!Quantity(c, p)
  BY JoinedShape, QuantityShape

\* The three writes of a request prepare it.
LEMMA DecrementPrepares ==
  ASSUME OneLineEach, TypeInv, NEW r \in Requests, Decrement(r)
  PROVE  Prepared(r)'
  <1> DEFINE c == call[r]
  <1>1. c \in Calls /\ c.op = "reserve"
    BY DEF TypeInv, TypeOK, Decrement
  <1>2. PICK line \in Joined(c) :
          Write(r, [p \in Existing(c) |->
                      [stock |-> table[p].stock - c.items[line[p]].quantity,
                       isAvailable |-> table[p].isAvailable]])
    BY DEF Decrement
  <1>3. Wanted(c) = Existing(c)
    BY <1>1, SellsCarried DEF Decrement, Existing
  <1>4. ASSUME NEW p \in Wanted(c)
        PROVE  Fits(c, p, table[p], wrote'[r][p])
    <2>1. c.items[line[p]].quantity = Ledger!Quantity(c, p)
      BY <1>1, <1>3, JoinedQuantity
    <2>2. line[p] \in Lines(c) /\ c.items[line[p]].product = p
      BY <1>1, <1>3, JoinedShape
    <2>3. Sells(c, line[p])
      BY <2>2 DEF Decrement
    <2>4. table[p].isAvailable /\ table[p].stock >= Ledger!Quantity(c, p)
      BY <2>1, <2>2, <2>3 DEF Sells
    <2>5. wrote'[r][p] = [stock |-> table[p].stock - Ledger!Quantity(c, p),
                          isAvailable |-> table[p].isAvailable]
      BY <1>2, <1>3, <2>1 DEF Write, TypeInv, TypeOK
    <2> QED
      BY <1>1, <2>4, <2>5 DEF Fits, After
  <1>5. call' = call /\ table' = table
    BY <1>2 DEF Write
  <1> QED
    BY <1>4, <1>5 DEF Prepared

LEMMA IncrementPrepares ==
  ASSUME OneLineEach, TypeInv, NEW r \in Requests, Increment(r)
  PROVE  Prepared(r)'
  <1> DEFINE c == call[r]
  <1>1. c \in Calls /\ c.op = "release"
    BY DEF TypeInv, TypeOK, Increment
  <1>2. PICK line \in Joined(c) :
          Write(r, [p \in Existing(c) |->
                      [stock |-> Increased(c, line, p),
                       isAvailable |-> table[p].isAvailable]])
    BY DEF Increment
  <1>3. Wanted(c) = Existing(c)
    BY DEF Increment, Existing
  <1>4. ASSUME NEW p \in Wanted(c)
        PROVE  Fits(c, p, table[p], wrote'[r][p])
    <2>1. Increased(c, line, p) = table[p].stock + Ledger!Quantity(c, p)
      BY <1>1, <1>3, JoinedQuantity DEF Increased
    <2>2. wrote'[r][p] = [stock |-> table[p].stock + Ledger!Quantity(c, p),
                          isAvailable |-> table[p].isAvailable]
      BY <1>2, <1>3, <2>1 DEF Write, TypeInv, TypeOK
    <2> QED
      BY <1>1, <2>2 DEF Fits, After
  <1>5. call' = call /\ table' = table
    BY <1>2 DEF Write
  <1> QED
    BY <1>4, <1>5 DEF Prepared

LEMMA OverwritePrepares ==
  ASSUME OneLineEach, TypeInv, NEW r \in Requests, Overwrite(r)
  PROVE  Prepared(r)'
  <1> DEFINE c == call[r]
             level(line, p) == IF "stock" \in c.fields
                                 THEN c.items[line[p]].quantity
                                 ELSE table[p].stock
             flag(p) == IF "isAvailable" \in c.fields
                          THEN c.available
                          ELSE table[p].isAvailable
  <1>1. c \in Calls /\ c.op = "update"
    BY DEF TypeInv, TypeOK, Overwrite
  <1>2. PICK line \in Joined(c) :
          Write(r, [p \in Existing(c) |->
                      [stock |-> level(line, p), isAvailable |-> flag(p)]])
    BY DEF Overwrite
  <1>3. Wanted(c) = Existing(c)
    BY DEF Overwrite, Existing
  <1>4. ASSUME NEW p \in Wanted(c)
        PROVE  Fits(c, p, table[p], wrote'[r][p])
    <2>1. level(line, p) = IF "stock" \in c.fields
                             THEN Ledger!Quantity(c, p)
                             ELSE table[p].stock
      BY <1>1, <1>3, JoinedQuantity
    <2>2. wrote'[r][p] = [stock |-> level(line, p), isAvailable |-> flag(p)]
      BY <1>2, <1>3 DEF Write, TypeInv, TypeOK
    <2> QED
      BY <1>1, <2>1, <2>2 DEF Fits, After
  <1>5. call' = call /\ table' = table
    BY <1>2 DEF Write
  <1> QED
    BY <1>4, <1>5 DEF Prepared

LEMMA NextPrepared ==
  ASSUME OneLineEach, TypeInv, LedgerInv, [Next]_vars,
         NEW q \in Requests, pc'[q] \in {"written", "logged"}
  PROVE  Prepared(q)'
  <1> USE DEF TypeInv
  <1>1. ASSUME NEW r \in Requests, Decrement(r) \/ Increment(r) \/ Overwrite(r)
        PROVE  Prepared(q)'
    <2>1. CASE q = r
      BY <1>1, <2>1, DecrementPrepares, IncrementPrepares, OverwritePrepares
    <2>2. CASE q # r
      <3>1. pc'[q] = pc[q] /\ wrote'[q] = wrote[q] /\ call' = call /\ table' = table
        BY <1>1, <2>2 DEF Decrement, Increment, Overwrite, Write, TypeOK
      <3> QED
        BY <3>1, PreparedKept DEF LedgerInv
    <2> QED
      BY <2>1, <2>2
  <1>2. ASSUME NEW r \in Requests, Commit(r) PROVE Prepared(q)'
    <2>1. q # r
      BY <1>2 DEF Commit, TypeOK
    <2>2. pc[q] = pc'[q] /\ wrote'[q] = wrote[q] /\ call' = call
      BY <1>2, <2>1 DEF Commit, TypeOK
    <2>3. \A p \in Wanted(call[q]) : p \in Carried /\ p \notin DOMAIN wrote[r]
      <3>1. DOMAIN wrote[r] \subseteq Held(r) /\ Wanted(call[q]) \subseteq Held(q)
        BY <1>2, <2>2 DEF LockDiscipline, Commit
      <3> QED
        BY <2>1, <3>1, HeldShape
    <2>4. \A p \in Wanted(call[q]) : table'[p] = table[p]
      BY <1>2, <2>3 DEF Commit
    <2> QED
      BY <2>2, <2>4, PreparedKept DEF LedgerInv
  <1>3. ASSUME NEW r \in Requests, NEW answer \in Outcome, Rollback(r, answer)
        PROVE  Prepared(q)'
    <2>1. q # r
      BY <1>3 DEF Rollback, TypeOK
    <2>2. pc[q] = pc'[q] /\ wrote'[q] = wrote[q] /\ call' = call /\ table' = table
      BY <1>3, <2>1 DEF Rollback, TypeOK
    <2> QED
      BY <2>2, PreparedKept DEF LedgerInv
  <1>4. ASSUME NEW r \in Requests,
               RejectReserve(r) \/ RejectMissing(r) \/ Overflow(r)
                 \/ DeadlockVictim(r) \/ Fail(r)
        PROVE  Prepared(q)'
    <2>1. \E answer \in Outcome : Rollback(r, answer)
      BY <1>4 DEF RejectReserve, RejectMissing, Overflow, DeadlockVictim, Fail,
                  Outcome
    <2> QED
      BY <2>1, <1>3
  <1>5. ASSUME \/ UNCHANGED vars
               \/ \E r \in Requests :
                    \/ Begin(r) \/ InsertEvents(r) \/ Answer(r) \/ LoseAnswer(r)
                    \/ \E p \in Carried : LockRow(r, p) \/ Block(r, p)
        PROVE  Prepared(q)'
    <2>1. pc[q] \in {"written", "logged"}
      BY <1>5 DEF vars, Begin, InsertEvents, Answer, LoseAnswer, LockRow, Block, TypeOK
    <2>2. wrote' = wrote /\ call' = call /\ table' = table
      BY <1>5 DEF vars, Begin, InsertEvents, Answer, LoseAnswer, LockRow, Block
    <2> QED
      BY <2>1, <2>2, PreparedKept DEF LedgerInv
  <1> QED
    BY <1>1, <1>2, <1>4, <1>5 DEF Next, Progress

LEMMA NextLedgerInv ==
  OneLineEach => (TypeInv /\ LedgerInv /\ [Next]_vars => LedgerInv')
  BY NextStages, NextPrepared DEF LedgerInv

-----------------------------------------------------------------------------
(* The steps of Stock as steps of StockLedger.                             *)

settledNow == [r \in Requests |-> SettledOf(r)]

LEMMA SettledShape ==
  ASSUME TypeInv, Stages, NEW r \in Requests
  PROVE  pc[r] \in Open => settledNow[r] = "open"
  BY DEF SettledOf, settledNow, Stages, Open, TypeInv, TypeOK

\* A step that changes neither the stage nor the outcome of the others.
LEMMA SettledOthers ==
  ASSUME NEW r \in Requests, NEW how,
         \A q \in Requests \ {r} : pc'[q] = pc[q] /\ outcome'[q] = outcome[q],
         SettledOf(r)' = how
  PROVE  settledNow' = [settledNow EXCEPT ![r] = how]
  <1>1. \A q \in Requests \ {r} : SettledOf(q)' = SettledOf(q)
    BY DEF SettledOf
  <1> QED
    BY <1>1 DEF settledNow

LEMMA RollbackSettles ==
  ASSUME TypeInv, Stages, NEW r \in Requests, pc[r] \in Open,
         NEW answer \in Outcome, Rollback(r, answer)
  PROVE  /\ answer \in {"conflict", "not_found"} => Ledger!Settle(r, "refused")
         /\ answer = "error" => Ledger!Settle(r, "abandoned")
         /\ table' = table
  <1>1. /\ pc'[r] = "done" /\ outcome'[r] = answer
        /\ \A q \in Requests \ {r} : pc'[q] = pc[q] /\ outcome'[q] = outcome[q]
        /\ call' = call /\ table' = table
    BY DEF Rollback, TypeInv, TypeOK
  <1>2. settledNow[r] = "open"
    BY SettledShape
  <1>3. answer \in {"conflict", "not_found"} => SettledOf(r)' = "refused"
    BY <1>1 DEF SettledOf
  <1>4. answer = "error" => SettledOf(r)' = "abandoned"
    BY <1>1 DEF SettledOf
  <1>5. answer \in {"conflict", "not_found"} =>
          settledNow' = [settledNow EXCEPT ![r] = "refused"]
    BY <1>1, <1>3, SettledOthers
  <1>6. answer = "error" => settledNow' = [settledNow EXCEPT ![r] = "abandoned"]
    BY <1>1, <1>4, SettledOthers
  <1> QED
    BY <1>1, <1>2, <1>5, <1>6 DEF Ledger!Settle, settledNow

\* A 409 is true when it is given: a line was not to be had.
LEMMA RejectReserveRefuses ==
  ASSUME OneLineEach, TypeInv, Stages, NEW r \in Requests, RejectReserve(r)
  PROVE  Ledger!Refuse(r, call[r])
  <1> DEFINE c == call[r]
  <1>1. c \in Calls /\ c.op = "reserve"
    BY DEF TypeInv, TypeOK, RejectReserve
  <1>2. PICK i \in Lines(c) : ~Sells(c, i)
    BY DEF RejectReserve
  <1>3. Ledger!Missing(c) \/ \E p \in Ledger!Rows(c) : ~Ledger!Sells(c, p)
    <2>1. CASE c.items[i].product \notin Carried
      BY <2>1, RowsShape DEF Wanted
    <2>2. CASE c.items[i].product \in Carried
      <3>1. c.items[i].product \in Ledger!Rows(c)
        BY <2>2, RowsShape DEF Existing, Wanted
      <3>2. ~Ledger!Sells(c, c.items[i].product)
        BY <1>1, <1>2, <2>2, QuantityShape DEF Sells, Ledger!Sells
      <3> QED
        BY <3>1, <3>2
    <2> QED
      BY <2>1, <2>2
  <1>4. Ledger!Settle(r, "refused") /\ table' = table
    BY RollbackSettles DEF RejectReserve, Outcome, Open
  <1> QED
    BY <1>1, <1>3, <1>4 DEF Ledger!Refuse

LEMMA RejectMissingRefuses ==
  ASSUME TypeInv, Stages, NEW r \in Requests, RejectMissing(r)
  PROVE  Ledger!Refuse(r, call[r])
  <1>1. Ledger!Missing(call[r])
    BY RowsShape DEF RejectMissing
  <1>2. Ledger!Settle(r, "refused") /\ table' = table
    BY RollbackSettles DEF RejectMissing, Outcome, Open
  <1> QED
    BY <1>1, <1>2 DEF Ledger!Refuse

LEMMA FailureAbandons ==
  ASSUME TypeInv, Stages, NEW r \in Requests,
         Overflow(r) \/ DeadlockVictim(r) \/ Fail(r)
  PROVE  Ledger!Abandon(r)
  <1>1. pc[r] \in Open
    BY DEF Overflow, DeadlockVictim, WaitCycle, Fail, Stages, Open
  <1>2. Ledger!Settle(r, "abandoned") /\ table' = table
    BY <1>1, RollbackSettles DEF Overflow, DeadlockVictim, Fail, Outcome
  <1> QED
    BY <1>2 DEF Ledger!Abandon

\* A commit applies the whole call, and a reservation's lines are all to be
\* had at that moment.
LEMMA CommitApplies ==
  ASSUME OneLineEach, TypeInv, LedgerInv, NEW r \in Requests, Commit(r)
  PROVE  \/ Ledger!Reserve(r, call[r])
         \/ Ledger!Return(r, call[r])
         \/ Ledger!Overwrite(r, call[r])
  <1> DEFINE c == call[r]
  <1>1. c \in Calls /\ c.op \in {"reserve", "release", "update"}
    BY CallShape DEF TypeInv, TypeOK
  <1>2. /\ Prepared(r) /\ pc[r] \in Open
        /\ Wanted(c) \subseteq Carried /\ DOMAIN wrote[r] = Wanted(c)
    BY HeldShape DEF Commit, LedgerInv, TypeInv, LockDiscipline, Open
  <1>3. Ledger!Rows(c) = Wanted(c) /\ ~Ledger!Missing(c)
    BY <1>2, RowsShape DEF Existing
  <1>4. Ledger!Settle(r, "applied")
    <2>1. /\ pc'[r] = "committed" /\ outcome' = outcome /\ call' = call
          /\ \A q \in Requests \ {r} : pc'[q] = pc[q]
          /\ outcome[r] = "none"
      BY <1>2 DEF Commit, TypeInv, TypeOK, LedgerInv, Stages, Open
    <2>2. SettledOf(r)' = "applied"
      BY <2>1 DEF SettledOf
    <2>3. settledNow' = [settledNow EXCEPT ![r] = "applied"]
      BY <2>1, <2>2, SettledOthers
    <2>4. settledNow[r] = "open"
      BY <1>2, SettledShape DEF LedgerInv
    <2> QED
      BY <2>1, <2>3, <2>4 DEF Ledger!Settle, settledNow
  <1>5. table' = [p \in Carried |-> IF p \in Ledger!Rows(c)
                                      THEN After(c, p, table[p]) ELSE table[p]]
    BY <1>2, <1>3 DEF Commit, Prepared, Fits
  <1>6. ASSUME NEW new, \A p \in Ledger!Rows(c) : new[p] = After(c, p, table[p])
        PROVE  Ledger!Apply(r, c, new)
    BY <1>3, <1>4, <1>5, <1>6 DEF Ledger!Apply
  <1>7. CASE c.op = "reserve"
    <2>1. \A p \in Ledger!Rows(c) : Ledger!Sells(c, p)
      BY <1>2, <1>3, <1>7 DEF Prepared, Fits, Ledger!Sells
    <2> DEFINE new == [p \in Ledger!Rows(c) |->
                         [stock |-> table[p].stock - Ledger!Quantity(c, p),
                          isAvailable |-> table[p].isAvailable]]
    <2>2. \A p \in Ledger!Rows(c) : new[p] = After(c, p, table[p])
      BY <1>7 DEF After
    <2>3. Ledger!Apply(r, c, new)
      BY <2>2, <1>6
    <2> QED
      BY <1>7, <2>1, <2>3 DEF Ledger!Reserve
  <1>8. CASE c.op = "release"
    <2> DEFINE new == [p \in Ledger!Rows(c) |->
                         [stock |-> table[p].stock + Ledger!Quantity(c, p),
                          isAvailable |-> table[p].isAvailable]]
    <2>2. \A p \in Ledger!Rows(c) : new[p] = After(c, p, table[p])
      BY <1>8 DEF After
    <2>3. Ledger!Apply(r, c, new)
      BY <2>2, <1>6
    <2> QED
      BY <1>8, <2>3 DEF Ledger!Return
  <1>9. CASE c.op = "update"
    <2> DEFINE new == [p \in Ledger!Rows(c) |->
           [stock |-> IF "stock" \in c.fields THEN Ledger!Quantity(c, p)
                                              ELSE table[p].stock,
            isAvailable |-> IF "isAvailable" \in c.fields THEN c.available
                                               ELSE table[p].isAvailable]]
    <2>2. \A p \in Ledger!Rows(c) : new[p] = After(c, p, table[p])
      BY <1>9 DEF After
    <2>3. Ledger!Apply(r, c, new)
      BY <2>2, <1>6
    <2> QED
      BY <1>9, <2>3 DEF Ledger!Overwrite
  <1> QED
    BY <1>1, <1>7, <1>8, <1>9

\* Every other step is invisible to the ledger.
LEMMA OtherStepsStutter ==
  ASSUME TypeInv, Stages,
         \/ UNCHANGED vars
         \/ \E r \in Requests :
              \/ Begin(r) \/ InsertEvents(r) \/ Answer(r) \/ LoseAnswer(r)
              \/ Decrement(r) \/ Increment(r) \/ Overwrite(r)
              \/ \E p \in Carried : LockRow(r, p) \/ Block(r, p)
  PROVE  UNCHANGED Ledger!vars
  <1>1. call' = call /\ table' = table
    BY DEF vars, Begin, InsertEvents, Answer, LoseAnswer, Decrement, Increment,
           Overwrite, Write, LockRow, Block
  <1>2. \A q \in Requests : SettledOf(q)' = SettledOf(q)
    <2>1. CASE pc' = pc /\ outcome' = outcome
      BY <2>1 DEF SettledOf
    <2>2. ASSUME NEW r \in Requests,
                 \/ Begin(r) \/ InsertEvents(r)
                 \/ Decrement(r) \/ Increment(r) \/ Overwrite(r)
          PROVE  \A q \in Requests : SettledOf(q)' = SettledOf(q)
      <3>1. /\ outcome' = outcome
            /\ \A q \in Requests \ {r} : pc'[q] = pc[q]
            /\ pc[r] # "committed" /\ pc'[r] # "committed"
        BY <2>2 DEF Begin, InsertEvents, Decrement, Increment, Overwrite, Write,
                    TypeInv, TypeOK
      <3> QED
        BY <3>1 DEF SettledOf
    <2>3. ASSUME NEW r \in Requests, Answer(r) \/ LoseAnswer(r)
          PROVE  \A q \in Requests : SettledOf(q)' = SettledOf(q)
      <3>1. /\ pc[r] = "committed" /\ outcome[r] = "none"
            /\ pc'[r] = "done" /\ outcome'[r] \in {"ok", "unanswered"}
            /\ \A q \in Requests \ {r} : pc'[q] = pc[q] /\ outcome'[q] = outcome[q]
        BY <2>3 DEF Answer, LoseAnswer, TypeInv, TypeOK, Stages
      <3> QED
        BY <3>1 DEF SettledOf
    <2>4. ASSUME NEW r \in Requests, NEW p \in Carried, LockRow(r, p) \/ Block(r, p)
          PROVE  pc' = pc /\ outcome' = outcome
      BY <2>4 DEF LockRow, Block
    <2>5. CASE UNCHANGED vars
      BY <2>5, <2>1 DEF vars
    <2> QED
      BY <2>1, <2>2, <2>3, <2>4, <2>5
  <1> QED
    BY <1>1, <1>2 DEF Ledger!vars

LEMMA LedgerStep ==
  OneLineEach => (TypeInv /\ LedgerInv /\ [Next]_vars => [Ledger!Next]_(Ledger!vars))
  <1> SUFFICES ASSUME OneLineEach, TypeInv, LedgerInv, [Next]_vars
               PROVE  [Ledger!Next]_(Ledger!vars)
    OBVIOUS
  <1>1. Stages
    BY DEF LedgerInv
  <1>2. ASSUME NEW r \in Requests, RejectReserve(r) \/ RejectMissing(r)
        PROVE  Ledger!Next
    BY <1>1, <1>2, RejectReserveRefuses, RejectMissingRefuses DEF Ledger!Next
  <1>3. ASSUME NEW r \in Requests, Overflow(r) \/ DeadlockVictim(r) \/ Fail(r)
        PROVE  Ledger!Next
    BY <1>1, <1>3, FailureAbandons DEF Ledger!Next
  <1>4. ASSUME NEW r \in Requests, Commit(r) PROVE Ledger!Next
    BY <1>4, CommitApplies DEF Ledger!Next
  <1> QED
    BY <1>1, <1>2, <1>3, <1>4, OtherStepsStutter DEF Next, Progress

\* Calls that name each product once are serializable: the row locks and the
\* transactions make each of them one atomic step of StockLedger.
THEOREM StockIsLedger == OneLineEach => (Spec => IsLedger)
  <1> SUFFICES ASSUME OneLineEach PROVE Spec => IsLedger
    OBVIOUS
  <1>1. Init => TypeInv /\ LedgerInv
    BY InitType DEF Init, LedgerInv, Stages
  <1>2. Init => Ledger!Init
    BY DEF Init, Ledger!Init, SettledOf
  <1>3. TypeInv /\ LedgerInv /\ [Next]_vars => TypeInv' /\ LedgerInv'
    BY NextType, NextLedgerInv
  <1>4. TypeInv /\ LedgerInv /\ [Next]_vars => [Ledger!Next]_(Ledger!vars)
    BY LedgerStep
  <1> QED
    BY <1>1, <1>2, <1>3, <1>4, PTL DEF Spec, IsLedger, Ledger!Spec

-----------------------------------------------------------------------------
(* The events account for the stock, for calls that name each product once. *)

Settled(p, n) == \A e \in outbox : e.product = p => e.id <= n

\* f is a running balance of p: an opening stock, and each event applied to
\* what came before it.
Running(f, p) ==
  /\ f \in [Nat -> Int]
  /\ f[0] = InitTable[p].stock
  /\ \A n \in Nat \ {0} :
       f[n] = IF Told(p, n) = {} THEN f[n - 1]
              ELSE Account(f[n - 1], CHOOSE e \in Told(p, n) : TRUE)

\* One of them ends at the stock.
Accounted(p) ==
  \E f : Running(f, p) /\ \A n \in Nat : Settled(p, n) => f[n] = table[p].stock

\* A request that is about to commit holds the events of its own call.
Noted(r) == \E first \in Nat \ {0} : noted[r] = EventsOf(call[r], first)

AccountInv ==
  /\ \A p \in Carried : Accounted(p)
  /\ \A r \in Requests : pc[r] = "logged" => Noted(r)

LEMMA LeastNumber ==
  ASSUME NEW T \in SUBSET Nat, T # {}
  PROVE  \E n \in T : \A m \in T : ~(m < n)
  <1> DEFINE R == OpToRel(<, Nat)
  <1>1. PICK n \in T : \A m \in T : ~(<<m, n>> \in R)
    <2>1. IsWellFoundedOn(R, Nat)
      BY NatLessThanWellFounded
    <2> HIDE DEF R
    <2> QED
      BY <2>1, WFMin
  <1> QED
    BY <1>1 DEF OpToRel

\* There is one running balance.
LEMMA RunningIsUnique ==
  ASSUME NEW p \in Carried, NEW f, NEW g, Running(f, p),
         g = [n \in Nat |->
                IF n = 0 THEN InitTable[p].stock
                ELSE IF Told(p, n) = {} THEN g[n - 1]
                ELSE Account(g[n - 1], CHOOSE e \in Told(p, n) : TRUE)]
  PROVE  \A n \in Nat : g[n] = f[n]
  <1> DEFINE T == {n \in Nat : g[n] # f[n]}
  <1>1. \A n \in Nat : g[n] = IF n = 0 THEN InitTable[p].stock
                              ELSE IF Told(p, n) = {} THEN g[n - 1]
                              ELSE Account(g[n - 1], CHOOSE e \in Told(p, n) : TRUE)
    OBVIOUS
  <1>2. SUFFICES ASSUME T # {} PROVE FALSE
    OBVIOUS
  <1>3. PICK n \in T : \A m \in T : ~(m < n)
    BY <1>2, LeastNumber
  <1>4. n # 0
    BY <1>1, <1>3 DEF Running
  <1>5. n - 1 \in Nat /\ g[n - 1] = f[n - 1]
    BY <1>3, <1>4
  <1>6. g[n] = f[n]
    BY <1>1, <1>3, <1>4, <1>5 DEF Running
  <1> QED
    BY <1>3, <1>6

LEMMA BalanceIsRunning ==
  ASSUME NEW p \in Carried, NEW f, Running(f, p)
  PROVE  \A n \in Nat : Balance(p)[n] = f[n]
  <1> DEFINE Fixed(g) ==
        g = [n \in Nat |->
               IF n = 0 THEN InitTable[p].stock
               ELSE IF Told(p, n) = {} THEN g[n - 1]
               ELSE Account(g[n - 1], CHOOSE e \in Told(p, n) : TRUE)]
  <1>1. f = [n \in Nat |-> f[n]]
    BY DEF Running
  <1>2. \A n \in Nat : f[n] = IF n = 0 THEN InitTable[p].stock
                              ELSE IF Told(p, n) = {} THEN f[n - 1]
                              ELSE Account(f[n - 1], CHOOSE e \in Told(p, n) : TRUE)
    BY DEF Running
  <1>3. Fixed(f)
    BY <1>1, <1>2
  <1>4. Balance(p) = CHOOSE g : Fixed(g)
    BY DEF Balance
  <1>5. Fixed(Balance(p))
    <2> HIDE DEF Fixed
    <2> QED
      BY <1>3, <1>4
  <1> QED
    BY <1>5, RunningIsUnique

LEMMA AccountShape ==
  ASSUME NEW v, NEW e
  PROVE  /\ e.change = "decremented" => Account(v, e) = v - e.amount
         /\ e.change = "incremented" => Account(v, e) = v + e.amount
         /\ e.change = "stock" => Account(v, e) = e.amount
         /\ e.change = "none" => Account(v, e) = v
  BY DEF Account

\* What a call has to tell of one of its rows: nothing that changes the stock,
\* and the stock stays; or one event that says what becomes of it.
Silent(S) == \A e \in S : e.change = "none"

Tells(S, old, new) ==
  \/ Silent(S) /\ new = old
  \/ \E e \in S : /\ Silent(S \ {e}) /\ \A d \in S \ {e} : d.id # e.id
                  /\ new = Account(old, e)

LEMMA UpdateTells ==
  ASSUME OneLineEach, NEW c \in Calls, c.op = "update", NEW first \in Nat \ {0},
         NEW p \in Wanted(c), NEW row \in Row
  PROVE  Tells({e \in EventsOf(c, first) : e.product = p}, row.stock, After(c, p, row).stock)
  <1> DEFINE S == {e \in EventsOf(c, first) : e.product = p}
             level == [id |-> first, product |-> p, type |-> "product.stock.changed",
                       change |-> "stock", amount |-> c.items[1].quantity]
             meta == [id |-> first + 1, product |-> p, type |-> "product.meta.changed",
                      change |-> "none", amount |-> 0]
  <1>1. Lines(c) = {1} /\ c.items[1].product = p
    BY CallShape, CallsAssumption DEF Wanted
  <1>2. Ledger!Quantity(c, p) = c.items[1].quantity
    BY <1>1, QuantityShape
  <1>3. EventsOf(c, first) = {e \in {level, meta} :
          \/ e.change = "stock" /\ "stock" \in c.fields
          \/ e.change = "none" /\ "isAvailable" \in c.fields}
    BY <1>1 DEF EventsOf
  <1>4. After(c, p, row).stock = IF "stock" \in c.fields THEN c.items[1].quantity
                                                        ELSE row.stock
    BY <1>2 DEF After
  <1>5. CASE "stock" \in c.fields
    <2>1. level \in S /\ \A d \in S \ {level} : d = meta
      BY <1>3, <1>5
    <2>2. Account(row.stock, level) = c.items[1].quantity
      BY AccountShape
    <2> QED
      BY <1>4, <1>5, <2>1, <2>2 DEF Tells, Silent
  <1>6. CASE "stock" \notin c.fields
    <2>1. \A d \in S : d = meta
      BY <1>3, <1>6
    <2> QED
      BY <1>4, <1>6, <2>1 DEF Tells, Silent
  <1> QED
    BY <1>5, <1>6

LEMMA LineTells ==
  ASSUME OneLineEach, NEW c \in Calls, c.op # "update", NEW first \in Nat \ {0},
         NEW p \in Wanted(c), NEW row \in Row
  PROVE  Tells({e \in EventsOf(c, first) : e.product = p}, row.stock, After(c, p, row).stock)
  <1> DEFINE S == {e \in EventsOf(c, first) : e.product = p}
             event(i) == [id |-> first + i - 1, product |-> c.items[i].product,
                          type |-> "product.stock.changed",
                          change |-> IF c.op = "reserve" THEN "decremented" ELSE "incremented",
                          amount |-> c.items[i].quantity]
  <1>1. PICK i \in Lines(c) : c.items[i].product = p
    BY DEF Wanted
  <1>2. EventsOf(c, first) = {event(j) : j \in Lines(c)}
    BY DEF EventsOf
  <1>3. \A j \in Lines(c) : event(j).product = p => j = i
    BY <1>1 DEF OneLineEach
  <1>4. S = {event(i)}
    <2> HIDE DEF event
    <2>1. event(i).product = p
      BY <1>1 DEF event
    <2> QED
      BY <1>2, <1>3, <2>1
  <1>5. After(c, p, row).stock = Account(row.stock, event(i))
    <2>1. Ledger!Quantity(c, p) = c.items[i].quantity
      BY <1>1, QuantityShape
    <2>2. CASE c.op = "reserve"
      BY <2>1, <2>2, AccountShape DEF After
    <2>3. CASE c.op = "release"
      BY <2>1, <2>3, AccountShape DEF After
    <2> QED
      BY <2>2, <2>3, CallShape
  <1>6. Silent(S \ {event(i)})
    BY <1>4 DEF Silent
  <1> QED
    BY <1>4, <1>5, <1>6 DEF Tells

\* A running balance goes on with the events of a commit.
LEMMA BalanceGoesOn ==
  ASSUME TypeInv, EventIds, NEW r \in Requests, NEW p \in Carried, Accounted(p),
         outbox' = outbox \cup noted[r],
         \A e \in noted[r] : e.id \in Nat \ {0},
         table[p].stock \in Int, table'[p].stock \in Int,
         Tells({e \in noted[r] : e.product = p}, table[p].stock, table'[p].stock)
  PROVE  Accounted(p)'
  <1> DEFINE S == {e \in noted[r] : e.product = p}
             old == table[p].stock
             new == table'[p].stock
  <1>1. PICK f : Running(f, p) /\ \A n \in Nat : Settled(p, n) => f[n] = old
    BY DEF Accounted
  <1>2. /\ f \in [Nat -> Int] /\ f[0] = InitTable[p].stock
        /\ \A n \in Nat \ {0} : Told(p, n) = {} => f[n] = f[n - 1]
    BY <1>1 DEF Running
  <1>3. \A e \in S, d \in outbox : d.product = p => d.id < e.id
    BY DEF EventIds
  <1>4. \A n \in Nat : Told(p, n)' = Told(p, n) \cup {e \in S : e.id = n}
    BY DEF Told
  <1>5. \A d \in outbox : d.id \in Nat
    BY DEF TypeInv, TypeOK, Event
  \* Where nothing telling is new, the old balance still runs.
  <1>6. ASSUME NEW n \in Nat \ {0}, \A e \in S : e.id = n => e.change = "none"
        PROVE  f[n] = IF Told(p, n)' = {} THEN f[n - 1]
                      ELSE Account(f[n - 1], CHOOSE e \in Told(p, n)' : TRUE)
    <2>1. CASE {e \in S : e.id = n} = {}
      <3>1. Told(p, n)' = Told(p, n)
        BY <1>4, <2>1
      <3> QED
        BY <1>1, <3>1 DEF Running
    <2>2. CASE {e \in S : e.id = n} # {}
      <3>1. Told(p, n) = {}
        BY <1>3, <1>5, <2>2 DEF Told
      <3> DEFINE e == CHOOSE e \in Told(p, n)' : TRUE
      <3>2. e \in S /\ e.id = n
        BY <1>4, <2>2, <3>1
      <3>3. Account(f[n - 1], e) = f[n - 1]
        BY <1>6, <3>2, AccountShape
      <3> QED
        BY <1>2, <1>4, <2>2, <3>1, <3>3
    <2> QED
      BY <2>1, <2>2
  <1>7. CASE Silent(S) /\ new = old
    <2>1. Running(f, p)'
      BY <1>2, <1>6, <1>7 DEF Running, Silent
    <2>2. \A n \in Nat : Settled(p, n)' => Settled(p, n)
      BY DEF Settled
    <2> QED
      BY <1>1, <1>7, <2>1, <2>2 DEF Accounted
  <1>8. ASSUME NEW t \in S, Silent(S \ {t}), \A d \in S \ {t} : d.id # t.id,
               new = Account(old, t)
        PROVE  Accounted(p)'
    <2> DEFINE m == t.id
    <2>0. PICK g : g = [n \in Nat |-> IF n < m THEN f[n] ELSE new]
      OBVIOUS
    <2>1. /\ m \in Nat \ {0} /\ m - 1 \in Nat /\ g \in [Nat -> Int]
          /\ \A n \in Nat : g[n] = IF n < m THEN f[n] ELSE new
      BY <1>2, <2>0
    <2>2. f[m - 1] = old
      <3>1. Settled(p, m - 1)
        BY <1>3, <1>5, <2>1 DEF Settled
      <3> QED
        BY <1>1, <2>1, <3>1
    <2>3. \A n \in Nat : n >= m => Told(p, n) = {}
      BY <1>3, <1>5, <2>1 DEF Told
    <2>4. ASSUME NEW n \in Nat \ {0}
          PROVE  g[n] = IF Told(p, n)' = {} THEN g[n - 1]
                        ELSE Account(g[n - 1], CHOOSE e \in Told(p, n)' : TRUE)
      <3>1. CASE n < m
        <4>1. g[n] = f[n] /\ g[n - 1] = f[n - 1]
          BY <2>1, <3>1
        <4>2. \A e \in S : e.id = n => e.change = "none"
          BY <1>8, <2>1, <3>1 DEF Silent
        <4> QED
          BY <1>6, <4>1, <4>2
      <3>2. CASE n = m
        <4>1. Told(p, n)' = {t}
          BY <1>4, <1>8, <2>1, <2>3, <3>2
        <4>2. g[n] = new /\ g[n - 1] = old
          BY <2>1, <2>2, <3>2
        <4> QED
          BY <1>8, <4>1, <4>2
      <3>3. CASE n > m
        <4>1. g[n] = new /\ g[n - 1] = new
          BY <2>1, <3>3
        <4> DEFINE e == CHOOSE e \in Told(p, n)' : TRUE
        <4>2. Told(p, n)' # {} => e \in S \ {t}
          BY <1>4, <2>1, <2>3, <3>3
        <4>3. Told(p, n)' # {} => Account(g[n - 1], e) = g[n - 1]
          BY <1>8, <4>2, AccountShape DEF Silent
        <4> QED
          BY <4>1, <4>3
      <3> QED
        BY <2>1, <3>1, <3>2, <3>3
    <2>5. g[0] = InitTable[p].stock
      BY <1>2, <2>1
    <2>6. Running(g, p)'
      BY <2>1, <2>4, <2>5 DEF Running
    <2>7. \A n \in Nat : Settled(p, n)' => g[n] = new
      BY <2>1 DEF Settled
    <2> QED
      BY <2>6, <2>7 DEF Accounted
  <1> QED
    BY <1>7, <1>8 DEF Tells

LEMMA CommitAccounts ==
  ASSUME OneLineEach, TypeInv, EventIds, LedgerInv, AccountInv,
         NEW r \in Requests, Commit(r), NEW p \in Carried
  PROVE  Accounted(p)'
  <1> DEFINE c == call[r]
             S == {e \in noted[r] : e.product = p}
  <1>1. PICK first \in Nat \ {0} : noted[r] = EventsOf(c, first)
    BY DEF Commit, AccountInv, Noted
  <1>2. c \in Calls /\ table[p] \in Row /\ table' \in [Carried -> Row]
    BY NextType DEF TypeInv, TypeOK, Next, Progress
  <1>3. /\ outbox' = outbox \cup noted[r]
        /\ table'[p] = IF p \in Wanted(c) THEN After(c, p, table[p]) ELSE table[p]
    BY DEF Commit, TypeInv, LockDiscipline, LedgerInv, Prepared, Fits
  <1>4. \A e \in noted[r] : e.id \in Nat \ {0} /\ e.product \in Wanted(c)
    BY <1>1, <1>2, EventsShape
  <1>5. Tells(S, table[p].stock, table'[p].stock)
    <2>1. CASE p \in Wanted(c) /\ c.op = "update"
      BY <1>1, <1>2, <1>3, <2>1, UpdateTells
    <2>2. CASE p \in Wanted(c) /\ c.op # "update"
      BY <1>1, <1>2, <1>3, <2>2, LineTells
    <2>3. CASE p \notin Wanted(c)
      BY <1>3, <1>4, <2>3 DEF Tells, Silent
    <2> QED
      BY <2>1, <2>2, <2>3
  <1>6. table[p].stock \in Int /\ table'[p].stock \in Int /\ Accounted(p)
    BY <1>2 DEF Row, AccountInv
  <1> QED
    BY <1>3, <1>4, <1>5, <1>6, BalanceGoesOn

LEMMA NotedStays ==
  ASSUME TypeInv, AccountInv, [Next]_vars, NEW q \in Requests, pc'[q] = "logged"
  PROVE  Noted(q)'
  <1> USE DEF TypeInv
  <1>1. call' = call
    BY DEF Next, Progress, Begin, LockRow, Block, RejectReserve, RejectMissing, Decrement,
           Increment, Overflow, Overwrite, InsertEvents, Commit, Answer, DeadlockVictim,
           Fail, LoseAnswer, Rollback, Write, vars
  <1>2. ASSUME NEW r \in Requests, InsertEvents(r) PROVE Noted(q)'
    <2>1. CASE q = r
      BY <1>1, <1>2, <2>1 DEF InsertEvents, Noted, TypeOK
    <2>2. CASE q # r
      BY <1>1, <1>2, <2>2 DEF InsertEvents, Noted, AccountInv, TypeOK
    <2> QED
      BY <2>1, <2>2
  <1>3. CASE pc[q] = "logged" /\ noted'[q] = noted[q]
    BY <1>1, <1>3 DEF Noted, AccountInv
  <1>4. ASSUME NEW r \in Requests, NEW answer \in Outcome, Rollback(r, answer)
        PROVE  Noted(q)'
    BY <1>3, <1>4 DEF Rollback, TypeOK
  <1>5. ASSUME NEW r \in Requests,
               RejectReserve(r) \/ RejectMissing(r) \/ Overflow(r)
                 \/ DeadlockVictim(r) \/ Fail(r)
        PROVE  Noted(q)'
    BY <1>4, <1>5 DEF RejectReserve, RejectMissing, Overflow, DeadlockVictim, Fail, Outcome
  <1>6. ASSUME NEW r \in Requests, Commit(r) PROVE Noted(q)'
    BY <1>3, <1>6 DEF Commit, TypeOK
  <1>7. ASSUME NEW r \in Requests, Decrement(r) \/ Increment(r) \/ Overwrite(r)
        PROVE  Noted(q)'
    BY <1>3, <1>7 DEF Decrement, Increment, Overwrite, Write, TypeOK
  <1>8. ASSUME \/ UNCHANGED vars
               \/ \E r \in Requests :
                    \/ Begin(r) \/ Answer(r) \/ LoseAnswer(r)
                    \/ \E p \in Carried : LockRow(r, p) \/ Block(r, p)
        PROVE  Noted(q)'
    BY <1>3, <1>8 DEF vars, Begin, Answer, LoseAnswer, LockRow, Block, TypeOK
  <1> QED
    BY <1>2, <1>5, <1>6, <1>7, <1>8 DEF Next, Progress

LEMMA NextAccountInv ==
  OneLineEach =>
    (TypeInv /\ EventIds /\ LedgerInv /\ AccountInv /\ [Next]_vars => AccountInv')
  <1> SUFFICES ASSUME OneLineEach, TypeInv, EventIds, LedgerInv, AccountInv, [Next]_vars
               PROVE  AccountInv'
    OBVIOUS
  <1>1. ASSUME NEW p \in Carried PROVE Accounted(p)'
    <2>1. ASSUME NEW r \in Requests, Commit(r) PROVE Accounted(p)'
      BY <2>1, CommitAccounts
    <2>2. CASE table' = table /\ outbox' = outbox
      BY <2>2 DEF AccountInv, Accounted, Running, Settled, Told
    <2>3. ASSUME NEW r \in Requests,
                 \/ \E q \in Carried : LockRow(r, q)
                 \/ \E answer \in Outcome : Rollback(r, answer)
                 \/ Decrement(r) \/ Increment(r) \/ Overwrite(r)
                 \/ InsertEvents(r)
          PROVE  table' = table /\ outbox' = outbox
      BY <2>3 DEF LockRow, Rollback, Decrement, Increment, Overwrite, Write, InsertEvents
    <2> QED
      BY <2>1, <2>2, <2>3, StepKinds
  <1> QED
    BY <1>1, NotedStays DEF AccountInv

\* Before anything is told the balance is the opening stock.
LEMMA InitAccountInv == Init => AccountInv
  <1> SUFFICES ASSUME Init PROVE AccountInv
    OBVIOUS
  <1>1. ASSUME NEW p \in Carried PROVE Accounted(p)
    <2>1. PICK f : f = [n \in Nat |-> InitTable[p].stock]
      OBVIOUS
    <2>2. InitTable[p].stock \in Int
      BY InitTableAssumption DEF Row
    <2>3. \A n \in Nat : Told(p, n) = {}
      BY DEF Init, Told
    <2>4. Running(f, p)
      BY <2>1, <2>2, <2>3 DEF Running
    <2> QED
      BY <2>1, <2>4 DEF Init, Accounted
  <1> QED
    BY <1>1 DEF Init, AccountInv

\* No change of a row goes unreported, is reported twice or is reported by a
\* transaction that did not happen: for calls that name each product once,
\* the committed events account for every row at every moment.
THEOREM EventsTellTheStock == OneLineEach => (Spec => []EventsAccountForStock)
  <1> SUFFICES ASSUME OneLineEach PROVE Spec => []EventsAccountForStock
    OBVIOUS
  <1>1. Init => TypeInv /\ EventIds /\ LedgerInv /\ AccountInv
    BY InitType, InitAccountInv DEF Init, EventIds, LedgerInv, Stages
  <1>2. TypeInv /\ EventIds /\ LedgerInv /\ AccountInv /\ [Next]_vars
          => TypeInv' /\ EventIds' /\ LedgerInv' /\ AccountInv'
    BY NextType, NextEventIds, NextLedgerInv, NextAccountInv
  <1>3. TypeInv /\ EventIds /\ AccountInv => EventsAccountForStock
    <2> SUFFICES ASSUME TypeInv, EventIds, AccountInv, NEW p \in Carried
                 PROVE  Replayed(p) = table[p].stock
      BY DEF EventsAccountForStock
    <2>1. PICK f : Running(f, p) /\ \A n \in Nat : Settled(p, n) => f[n] = table[p].stock
      BY DEF AccountInv, Accounted
    <2>2. nextId - 1 \in Nat /\ Settled(p, nextId - 1)
      BY DEF TypeInv, TypeOK, EventIds, Settled, Event
    <2> QED
      BY <2>1, <2>2, BalanceIsRunning DEF Replayed
  <1> QED
    BY <1>1, <1>2, <1>3, PTL DEF Spec
=============================================================================
