--------------------------- MODULE CatalogProofs ---------------------------
(***************************************************************************)
(* Proofs about Catalog, for any requests, products, categories and        *)
(* branches: type correctness and the five safety invariants the run       *)
(* checks.                                                                 *)
(***************************************************************************)
EXTENDS Catalog, TLAPS

(* The inductive invariant.  What each request has in its hands:           *)

Active(r) == pc[r] \notin {"idle", "over"}
Updating(r) == call[r].op = "update" /\ Active(r)
Creating(r) == call[r].op = "create" /\ pc[r] = "detailed"

\* Where a request is says what it may have written; it is known to others
\* only once it is over.
Phase(r) ==
  /\ outcome[r] # "none" => pc[r] = "over"
  /\ outcome[r] = "conflict" => call[r].category \in Categories
  /\ ~Active(r) => making[r] = NoCategory
  /\ pc[r] \notin {"saved", "told", "detailed"} => draft[r] = NoRow
  /\ pc[r] = "saved" => draft[r] # NoRow
  /\ pc[r] \notin {"told", "detailed"} => posted[r] = {}
  /\ call[r].op = "open" => ~Active(r)
  /\ call[r].op = "create" => pc[r] \notin {"saved", "told"}
  /\ \A q \in before[r] : pc[q] = "over"
  /\ \A e \in posted[r] : e.by = r

\* The name it inserts is nobody's, and nobody else inserts it.
Name(r) ==
  making[r] # NoCategory =>
    /\ maker[making[r]] = NoRequest
    /\ \A q \in Requests : making[q] = making[r] => q = r

\* The name it is about to insert was free when it looked.
Found(r) ==
  pc[r] = "inserting" =>
    /\ call[r].category \in Categories
    /\ maker[call[r].category] \in {NoRequest} \cup (Requests \ before[r])

\* The product it works on is there, or is its own to create; the row's lock
\* is exclusive.
Target(r) ==
  /\ Updating(r) => target[r] = call[r].product /\ Exists(target[r])
  /\ Creating(r) =>
       target[r] \in 1..(nextId - 1) /\ ~Exists(target[r]) /\ draft[r] # NoRow
  /\ \A q \in Requests : Writing(q) /\ Writing(r) /\ target[q] = target[r] => q = r

\* What it has asked for is what it writes.
Settled(r) ==
  pc[r] \in {"resolved", "saved", "told", "detailed"} /\ Asks(r) =>
    category[r] = call[r].category

\* Apart from that the version it has written is still that of the table.
Version(r) ==
  Writing(r) =>
    LET p == target[r] IN
      /\ draft[r].category = category[r]
      /\ draft[r].asker = IF Asks(r) THEN r ELSE products[p].asker
      /\ call[r].op = "update" =>
           /\ draft[r].creator = products[p].creator
           /\ draft[r].carried = products[p].carried
           /\ draft[r].writer = IF TellsMeta(r) THEN r ELSE products[p].writer
      /\ call[r].op = "create" =>
           draft[r].creator = r /\ draft[r].writer = r

Told(r) ==
  pc[r] \in {"told", "detailed"} /\ call[r].op = "update" /\ TellsMeta(r) =>
    /\ draft[r] # NoRow
    /\ \A b \in products[target[r]].carried :
         [by |-> r, product |-> target[r], branch |-> b, type |-> "meta"] \in posted[r]

Known(r) == {b \in Branches : opener[b] = Seed \/ opener[b] \in before[r]}
Covered(r) ==
  Creating(r) =>
    /\ Known(r) \subseteq draft[r].carried
    /\ \A b \in draft[r].carried : Open(b)

\* Somebody has overwritten the category, and overlapped with who asked for it.
Reverted(p) ==
  /\ products[p].asker \in Requests
  /\ \E r \in Requests :
       /\ Committed(r) /\ call[r].op = "update" /\ call[r].product = p
       /\ Overlapped(products[p].asker, r)

\* A category that was read and not asked for is the right one, unless
\* somebody has asked since.
Stale(r) ==
  Updating(r) /\ ~Asks(r) =>
    LET p == target[r] IN
      \/ products[p].asker \in Requests \ before[r]
      \/ category[r] = AskedFor(p)
      \/ Reverted(p)

ReqInv(r) ==
  /\ Phase(r) /\ Name(r) /\ Found(r) /\ Target(r) /\ Settled(r) /\ Version(r)
  /\ Told(r) /\ Covered(r) /\ Stale(r)

(* And the tables:                                                         *)
RightCategory ==
  \A p \in Ids : Exists(p) => products[p].category = AskedFor(p) \/ Reverted(p)

FreshIds == \A p \in Ids : Exists(p) => p < nextId

CatInv ==
  /\ TypeOK /\ \A r \in Requests : ReqInv(r)
  /\ NoTraceWithoutCommit /\ RightCategory /\ ConflictNeedsOverlap
  /\ RowsCoverBranches /\ EveryChangeIsTold /\ FreshIds

-----------------------------------------------------------------------------
(* The shapes of what a call says.                                         *)

LEMMA UpdateCall ==
  ASSUME TypeOK, NEW r \in Requests, call[r].op = "update"
  PROVE  /\ call[r].product \in Ids
         /\ call[r].category \in Categories \cup {NoCategory, Unsaid}
         /\ call[r].details \subseteq Local
  BY CallsAssumption DEF TypeOK, Call

LEMMA CreateCall ==
  ASSUME TypeOK, NEW r \in Requests, call[r].op = "create"
  PROVE  call[r].category \in Categories \cup {NoCategory} /\ Asks(r)
  BY CallsAssumption, CategoriesAssumption DEF TypeOK, Call, Asks

LEMMA CallKinds ==
  ASSUME TypeOK, NEW r \in Requests
  PROVE  call[r].op \in {"create", "update", "open"}
  BY CallsAssumption DEF TypeOK, Call

-----------------------------------------------------------------------------
(* Initial states.                                                         *)

LEMMA FirstId ==
  ASSUME Init
  PROVE  /\ nextId \in 1..(MaxId + 1)
         /\ DOMAIN InitCategory = 1..(nextId - 1)
<1>1. PICK n \in 0..MaxId : InitCategory \in [1..n -> Categories \cup {NoCategory}]
  BY InitCategoryAssumption
<1>2. n + 1 \in 1..(MaxId + 1) /\ 1..((n + 1) - 1) = DOMAIN InitCategory
  BY <1>1, MaxIdAssumption
<1>. QED  BY <1>2 DEF Init

LEMMA InitType == Init => TypeOK
<1> SUFFICES ASSUME Init PROVE TypeOK
  OBVIOUS
<1>1. PICK n \in 0..MaxId : InitCategory \in [1..n -> Categories \cup {NoCategory}]
  BY InitCategoryAssumption
<1>2. \A p \in DOMAIN InitCategory : InitCategory[p] \in Categories \cup {NoCategory}
  BY <1>1
<1>3. NoRow \in Row
  BY DEF NoRow, Row, Makers
<1>4. products \in [Ids -> Row]
  BY <1>2, <1>3, BranchesAssumption DEF Init, Row, Makers
<1>5. maker \in [Categories -> Makers] /\ opener \in [Branches -> Makers]
  BY DEF Init, Makers
<1>. QED  BY <1>3, <1>4, <1>5, FirstId DEF Init, TypeOK

LEMMA InitEstablishes == Init => CatInv
<1> SUFFICES ASSUME Init PROVE CatInv
  OBVIOUS
<1>1. TypeOK
  BY InitType
<1>2. \A r \in Requests : ReqInv(r)
  BY DEF Init, ReqInv, Phase, Name, Found, Target, Settled, Version, Told, Covered,
     Stale, Updating, Creating, Active, Writing
<1>3. \A p \in Ids : Exists(p) <=> p \in DOMAIN InitCategory
  BY RequestsAssumption DEF Init, Exists, NoRow
<1>4. \A p \in Ids :
        /\ products[p].creator \notin Requests
        /\ products[p].asker \notin Requests
        /\ products[p].writer \notin Requests
  BY RequestsAssumption DEF Init, NoRow
<1>5. /\ \A c \in Categories : maker[c] \notin Requests
      /\ \A b \in Branches : opener[b] \notin Requests
  BY RequestsAssumption DEF Init
<1>6. NoTraceWithoutCommit
  BY <1>4, <1>5 DEF NoTraceWithoutCommit, Authors, Init
<1>7. RightCategory
  BY <1>3 DEF RightCategory, AskedFor, Init
<1>8. ConflictNeedsOverlap
  BY DEF ConflictNeedsOverlap, Init
<1>9. RowsCoverBranches /\ EveryChangeIsTold
  BY <1>4 DEF RowsCoverBranches, EveryChangeIsTold
<1>10. FreshIds
  BY <1>3, FirstId DEF FreshIds, Ids
<1>. QED  BY <1>1, <1>2, <1>6, <1>7, <1>8, <1>9, <1>10 DEF CatInv

-----------------------------------------------------------------------------
(* Types.                                                                  *)

LEMMA ResolvedType ==
  ASSUME TypeOK, NEW r \in Requests, call[r].op \in {"create", "update"}
  PROVE  Resolved(r) \in Categories \cup {NoCategory}
  BY CreateCall, UpdateCall DEF Resolved, Asks, TypeOK

LEMMA NoRowType == NoRow \in Row
  BY DEF NoRow, Row, Makers

\* The events of a request are events of the product it works on.
LEMMA EventType ==
  ASSUME TypeOK, NEW r \in Requests, target[r] \in Ids,
         NEW b \in Branches, NEW t \in {"meta", "price", "stock"}
  PROVE  EventOf(r, b, t) \in Event
  BY DEF EventOf, Event

LEMMA AbortType ==
  ASSUME TypeOK, NEW r \in Requests,
         NEW what \in {"not_found", "conflict", "error"}, Abort(r, what)
  PROVE  TypeOK'
  BY NoRowType DEF Abort, Finish, tables, TypeOK

LEMMA TypeStep == CatInv /\ [Next]_vars => TypeOK'
<1> SUFFICES ASSUME CatInv, [Next]_vars PROVE TypeOK'
  OBVIOUS
<1>1. TypeOK
  BY DEF CatInv
<1>2. CASE UNCHANGED vars
  BY <1>1, <1>2 DEF vars, tables, open, TypeOK
<1>3. ASSUME NEW r \in Requests,
             BeginCreate(r) \/ ReadProduct(r) \/ Refuse(r) \/ OpenBranch(r)
      PROVE  TypeOK'
  <2>1. before' \in [Requests -> SUBSET Requests]
    BY <1>1, <1>3 DEF BeginCreate, ReadProduct, Refuse, OpenBranch, Arrive, Over, TypeOK
  <2>2. CASE BeginCreate(r) \/ Refuse(r)
    BY <1>1, <2>1, <2>2 DEF BeginCreate, Refuse, Goto, Finish, TypeOK, tables, open
  <2>3. CASE ReadProduct(r)
    <3>1. call[r].product \in Ids /\ products[call[r].product] \in Row
      BY <1>1, <2>3, UpdateCall DEF ReadProduct, TypeOK
    <3>2. products[call[r].product].category \in Categories \cup {NoCategory}
      BY <3>1 DEF Row
    <3>. QED  BY <1>1, <2>1, <2>3, <3>1, <3>2 DEF ReadProduct, Goto, TypeOK, tables
  <2>4. CASE OpenBranch(r)
    BY <1>1, <2>1, <2>4 DEF OpenBranch, Finish, TypeOK, open, Makers
  <2>. QED  BY <1>3, <2>2, <2>3, <2>4
<1>4. ASSUME NEW r \in Requests,
             NeedNoCategory(r) \/ FindCategory(r) \/ InsertCategory(r)
      PROVE  TypeOK'
  <2>1. ReqInv(r)
    BY DEF CatInv
  <2>2. call[r].op \in {"create", "update"}
    BY <1>1, <1>4, <2>1, CallKinds
       DEF ReqInv, Phase, Active, NeedNoCategory, FindCategory, InsertCategory
  <2>3. Resolved(r) \in Categories \cup {NoCategory}
    BY <1>1, <2>2, ResolvedType
  <2>4. InsertCategory(r) => call[r].category \in Categories
    BY <2>1 DEF ReqInv, Found, InsertCategory
  <2>. QED  BY <1>1, <1>4, <2>3, <2>4
       DEF NeedNoCategory, FindCategory, InsertCategory, Goto, TypeOK, tables
<1>5. ASSUME NEW r \in Requests, CreateProduct(r)
      PROVE  TypeOK'
  <2>1. nextId + 1 \in 1..(MaxId + 1)
    BY <1>1, <1>5, MaxIdAssumption DEF CreateProduct, Ids
  <2>2. [creator |-> r, category |-> category[r], asker |-> r, writer |-> r,
         carried |-> CarriedBy] \in Row
    BY <1>1 DEF Row, Makers, CarriedBy, TypeOK
  <2>. QED  BY <1>1, <1>5, <2>1, <2>2 DEF CreateProduct, Goto, TypeOK, tables
<1>6. ASSUME NEW r \in Requests, SaveProduct(r)
      PROVE  TypeOK'
  <2>1. target[r] \in Ids
    BY <1>1, <1>6, UpdateCall DEF CatInv, ReqInv, Target, Updating, Active, SaveProduct
  <2>2. products[target[r]] \in Row /\ category[r] \in Categories \cup {NoCategory}
    BY <1>1, <2>1 DEF TypeOK
  <2>3. [products[target[r]] EXCEPT
           !.category = category[r],
           !.asker = IF Asks(r) THEN r ELSE @,
           !.writer = IF TellsMeta(r) THEN r ELSE @] \in Row
    BY <2>2 DEF Row, Makers
  <2>. QED  BY <1>1, <1>6, <2>3 DEF SaveProduct, Goto, TypeOK, tables
<1>7. ASSUME NEW r \in Requests, LeaveProduct(r) \/ LeaveDetails(r)
      PROVE  TypeOK'
  BY <1>1, <1>7 DEF LeaveProduct, LeaveDetails, Goto, TypeOK, tables, open
<1>8. ASSUME NEW r \in Requests, FanOut(r) \/ UpdateDetails(r)
      PROVE  TypeOK'
  <2>1. call[r].op = "update" /\ Updating(r)
    BY <1>1, <1>8, CallKinds
       DEF CatInv, ReqInv, Phase, FanOut, UpdateDetails, Updating, Active
  <2>2. target[r] \in Ids
    BY <1>1, <2>1, UpdateCall DEF CatInv, ReqInv, Target
  <2>3. products[target[r]].carried \subseteq Branches
    BY <1>1, <2>2 DEF TypeOK, Row
  <2>4. \A b \in products[target[r]].carried : \A t \in {"meta", "price", "stock"} :
          EventOf(r, b, t) \in Event
    BY <1>1, <2>2, <2>3, EventType
  <2>5. \A d \in call[r].details : TypeOf(d) \in {"meta", "price", "stock"}
    BY <1>1, <2>1, UpdateCall DEF TypeOf, Local
  <2>6. posted' \in [Requests -> SUBSET Event]
    <3>1. CASE FanOut(r)
      BY <1>1, <3>1, <2>4 DEF FanOut, TypeOK
    <3>2. CASE UpdateDetails(r)
      BY <1>1, <3>2, <2>4, <2>5 DEF UpdateDetails, TypeOK
    <3>. QED  BY <1>8, <3>1, <3>2
  <2>. QED  BY <1>1, <1>8, <2>6 DEF FanOut, UpdateDetails, Goto, TypeOK, tables
<1>9. ASSUME NEW r \in Requests, LoseCategory(r) \/ MissDetails(r) \/ Fail(r)
      PROVE  TypeOK'
  BY <1>1, <1>9, AbortType DEF LoseCategory, MissDetails, Fail
<1>10. ASSUME NEW r \in Requests, Commit(r)
       PROVE  TypeOK'
  <2>1. products' \in [Ids -> Row] /\ maker' \in [Categories -> Makers]
    BY <1>1, <1>10 DEF Commit, TypeOK, Makers
  <2>2. events' \subseteq Event
    BY <1>1, <1>10 DEF Commit, TypeOK
  <2>. QED  BY <1>1, <1>10, <2>1, <2>2, NoRowType DEF Commit, Finish, TypeOK
<1>. QED  BY <1>2, <1>3, <1>4, <1>5, <1>6, <1>7, <1>8, <1>9, <1>10 DEF Next, Progress

-----------------------------------------------------------------------------
(* Steps that change no table and only what one request holds.             *)

Others(r) ==
  /\ \A q \in Requests \ {r} :
       /\ pc'[q] = pc[q] /\ outcome'[q] = outcome[q] /\ category'[q] = category[q]
       /\ making'[q] = making[q] /\ draft'[q] = draft[q] /\ target'[q] = target[q]
       /\ posted'[q] = posted[q] /\ before'[q] = before[q]
  /\ call' = call

\* Who is committed is over, and what is committed is by somebody committed.
LEMMA AuthorsCommitted ==
  ASSUME CatInv
  PROVE  /\ \A r \in Requests : Committed(r) => pc[r] = "over"
         /\ \A c \in Categories : maker[c] \in Requests => Committed(maker[c])
         /\ \A b \in Branches : opener[b] \in Requests => Committed(opener[b])
         /\ \A p \in Ids :
              /\ products[p].creator \in Requests => Committed(products[p].creator)
              /\ products[p].asker \in Requests => Committed(products[p].asker)
              /\ products[p].writer \in Requests => Committed(products[p].writer)
<1>1. \A r \in Requests : Committed(r) => pc[r] = "over"
  BY DEF CatInv, ReqInv, Phase, Committed
<1>2. NoTraceWithoutCommit
  BY DEF CatInv
<1>3. \A a \in Authors : a \in Requests => Committed(a)
  BY <1>2 DEF NoTraceWithoutCommit
<1>4. \A c \in Categories : maker[c] \in Authors
  BY DEF Authors
<1>5. \A b \in Branches : opener[b] \in Authors
  BY DEF Authors
<1>6. \A p \in Ids :
        {products[p].creator, products[p].asker, products[p].writer} \subseteq Authors
  BY DEF Authors
<1>. QED  BY <1>1, <1>3, <1>4, <1>5, <1>6

\* A loss stays explained: whoever took part in it has been committed.
LEMMA RevertedStays ==
  ASSUME CatInv, NEW r \in Requests, ~Committed(r), Others(r),
         NEW p \in Ids, Reverted(p), products'[p].asker = products[p].asker
  PROVE  Reverted(p)'
<1>1. PICK s \in Requests :
        /\ Committed(s) /\ call[s].op = "update" /\ call[s].product = p
        /\ Overlapped(products[p].asker, s)
  BY DEF Reverted
<1>2. products[p].asker \in Requests /\ Committed(products[p].asker)
  BY AuthorsCommitted DEF Reverted
<1>3. /\ before'[s] = before[s] /\ Committed(s)'
      /\ before'[products[p].asker] = before[products[p].asker]
  BY <1>1, <1>2 DEF Others, Committed
<1>4. Overlapped(products[p].asker, s)'
  BY <1>1, <1>3 DEF Overlapped
<1>. QED  BY <1>1, <1>2, <1>3, <1>4 DEF Reverted, Others

\* What others hold is not disturbed by a step of r that changes no table.
LEMMA LocalOthers ==
  ASSUME CatInv, NEW r \in Requests, pc[r] # "over",
         tables' = tables, nextId \in Nat, nextId' \in Nat, nextId <= nextId',
         Others(r), outcome'[r] # "ok", ReqInv(r)',
         NEW q \in Requests, q # r
  PROVE  ReqInv(q)'
<1>1. /\ pc'[q] = pc[q] /\ outcome'[q] = outcome[q] /\ category'[q] = category[q]
      /\ making'[q] = making[q] /\ draft'[q] = draft[q] /\ target'[q] = target[q]
      /\ posted'[q] = posted[q] /\ before'[q] = before[q] /\ call' = call
  BY DEF Others
<1>2. products' = products /\ maker' = maker /\ opener' = opener
  BY DEF tables
<1>3. ReqInv(q)
  BY DEF CatInv
<1>4. Phase(q)'
  <2>1. \A x \in before[q] : pc'[x] = "over"
    <3>1. TypeOK /\ Phase(q)
      BY <1>3 DEF CatInv, ReqInv
    <3>2. before[q] \subseteq Requests
      BY <3>1 DEF TypeOK
    <3>. QED  BY <3>1, <3>2 DEF Phase, Others
  <2>. QED  BY <1>1, <1>3, <2>1 DEF ReqInv, Phase, Active
<1>5. Name(q)'
  <2>1. \A x \in Requests : making'[x] = making[q] /\ making[q] # NoCategory => x = q
    <3>1. Name(r)' /\ Name(q)
      BY <1>3 DEF ReqInv
    <3>. QED  BY <1>1, <3>1 DEF Name, Others
  <2>. QED  BY <1>1, <1>2, <1>3, <2>1 DEF ReqInv, Name
<1>6. Found(q)' /\ Settled(q)' /\ Version(q)' /\ Told(q)' /\ Covered(q)'
  BY <1>1, <1>2, <1>3 DEF ReqInv, Found, Settled, Version, Told, Covered, Known,
     Writing, Creating, Open, Asks, TellsMeta
<1>7. Target(q)'
  <2>1. Target(r)' /\ Target(q)
    BY <1>3 DEF ReqInv
  <2>2. \A x \in Requests : Writing(x)' /\ Writing(q)' /\ target'[x] = target'[q] => x = q
    BY <1>1, <2>1 DEF Target, Writing, Others
  <2>3. Updating(q)' => target'[q] = call'[q].product /\ Exists(target[q])'
    BY <1>1, <1>2, <2>1 DEF Target, Updating, Active, Exists
  <2>4. Creating(q)' =>
          target'[q] \in 1..(nextId' - 1) /\ ~Exists(target[q])' /\ draft'[q] # NoRow
    BY <1>1, <1>2, <2>1 DEF Target, Creating, Exists
  <2>. QED  BY <2>2, <2>3, <2>4 DEF Target
<1>8. Stale(q)'
  <2>1. CASE ~(Updating(q) /\ ~Asks(q))
    BY <1>1, <2>1 DEF Stale, Updating, Active, Asks
  <2>2. CASE Updating(q) /\ ~Asks(q)
    <3>1. \/ products[target[q]].asker \in Requests \ before[q]
          \/ category[q] = AskedFor(target[q])
          \/ Reverted(target[q])
      BY <1>3, <2>2 DEF ReqInv, Stale
    <3>2. target[q] \in Ids
      BY <1>3, <2>2, UpdateCall DEF CatInv, ReqInv, Target, Updating
    <3>3. Reverted(target[q]) => Reverted(target[q])'
      <4>1. \A p \in Ids : Reverted(p) => Reverted(p)'
        BY <1>2, AuthorsCommitted, RevertedStays
      <4>. QED  BY <1>1, <3>2, <4>1 DEF Reverted
    <3>4. AskedFor(target[q])' = AskedFor(target[q])
      BY <1>1, <1>2 DEF AskedFor
    <3>. QED  BY <1>1, <1>2, <3>1, <3>3, <3>4 DEF Stale
  <2>. QED  BY <2>1, <2>2
<1>. QED  BY <1>4, <1>5, <1>6, <1>7, <1>8 DEF ReqInv

\* The refusal for the name of a category, and its reason.
Beaten(r) ==
  outcome[r] = "conflict" =>
    LET q == maker[call[r].category] IN
      q \in Requests /\ Committed(q) /\ Overlapped(q, r)

LEMMA LocalStep ==
  ASSUME CatInv, TypeOK', NEW r \in Requests, pc[r] # "over",
         tables' = tables, nextId <= nextId',
         Others(r), outcome'[r] # "ok", Beaten(r)', ReqInv(r)'
  PROVE  CatInv'
<1>1. products' = products /\ maker' = maker /\ opener' = opener /\ events' = events
      /\ call' = call
  BY DEF tables, Others
<1>2. nextId \in Nat /\ nextId' \in Nat
  BY MaxIdAssumption DEF CatInv, TypeOK
<1>3. ~Committed(r) /\ ~Committed(r)'
  BY AuthorsCommitted DEF Committed
<1>4. \A q \in Requests : Committed(q) => Committed(q)' /\ before'[q] = before[q] /\ q # r
  BY <1>3 DEF Committed, Others
<1>5. \A q \in Requests : ReqInv(q)'
  BY <1>2, LocalOthers
<1>6. NoTraceWithoutCommit'
  BY <1>1, <1>4 DEF CatInv, NoTraceWithoutCommit, Authors
<1>7. RightCategory'
  <2>1. \A p \in Ids : Reverted(p) => Reverted(p)'
    BY <1>1, <1>3, RevertedStays
  <2>2. \A p \in Ids : AskedFor(p)' = AskedFor(p) /\ (Exists(p)' <=> Exists(p))
    BY <1>1 DEF AskedFor, Exists
  <2>. QED  BY <1>1, <2>1, <2>2 DEF CatInv, RightCategory
<1>8. ConflictNeedsOverlap'
  <2>1. ASSUME NEW q \in Requests, outcome'[q] = "conflict", q # r
        PROVE  LET x == maker[call[q].category] IN
                 x \in Requests /\ Committed(x)' /\ Overlapped(x, q)'
    <3>1. outcome[q] = "conflict" /\ before'[q] = before[q]
      BY <2>1 DEF Others
    <3>. QED  BY <1>1, <1>4, <3>1 DEF CatInv, ConflictNeedsOverlap, Overlapped
  <2>. QED  BY <1>1, <2>1 DEF ConflictNeedsOverlap, Beaten
<1>9. RowsCoverBranches'
  BY <1>1, <1>4, AuthorsCommitted DEF CatInv, RowsCoverBranches, Open
<1>10. EveryChangeIsTold'
  BY <1>1 DEF CatInv, EveryChangeIsTold
<1>11. FreshIds'
  BY <1>1, <1>2 DEF CatInv, FreshIds, Exists, Ids
<1>. QED  BY <1>5, <1>6, <1>7, <1>8, <1>9, <1>10, <1>11 DEF CatInv

\* The same for a step that does not end the request,
LEMMA GotoStep ==
  ASSUME CatInv, TypeOK', NEW r \in Requests, pc[r] # "over",
         tables' = tables, nextId <= nextId', Others(r), outcome' = outcome, ReqInv(r)'
  PROVE  CatInv'
<1>1. outcome[r] = "none"
  BY DEF CatInv, ReqInv, Phase
<1>. QED  BY <1>1, LocalStep DEF Beaten

\* and for one that ends it with a rollback.
LEMMA AbortStep ==
  ASSUME CatInv, TypeOK', NEW r \in Requests, pc[r] # "over",
         NEW what \in {"not_found", "conflict", "error"}, Abort(r, what),
         what = "conflict" =>
           /\ call[r].category \in Categories
           /\ maker[call[r].category] \in Requests \ before[r]
  PROVE  CatInv'
<1>1. TypeOK /\ ReqInv(r)
  BY DEF CatInv
<1>2. Others(r) /\ tables' = tables /\ nextId' = nextId
  BY <1>1 DEF Abort, Finish, Others, TypeOK
<1>3. /\ pc'[r] = "over" /\ outcome'[r] = what /\ making'[r] = NoCategory
      /\ draft'[r] = NoRow /\ posted'[r] = {} /\ before' = before
  BY <1>1 DEF Abort, Finish, TypeOK
<1>4. ReqInv(r)'
  <2>1. \A q \in before[r] : pc'[q] = "over"
    BY <1>1, <1>2, <1>3 DEF ReqInv, Phase, TypeOK, Others
  <2>2. Phase(r)'
    BY <1>2, <1>3, <2>1 DEF Phase, Active, Others
  <2>. QED  BY <1>2, <1>3, <2>2
       DEF ReqInv, Name, Found, Target, Settled, Version, Told, Covered, Stale,
           Updating, Creating, Active, Writing
<1>5. Beaten(r)'
  <2> SUFFICES ASSUME what = "conflict"
               PROVE  LET q == maker[call[r].category] IN
                        q \in Requests /\ Committed(q)' /\ Overlapped(q, r)'
    BY <1>2, <1>3 DEF Beaten, Others, tables
  <2> DEFINE q == maker[call[r].category]
  <2>1. q \in Requests /\ q \notin before[r] /\ Committed(q) /\ ReqInv(q)
    BY AuthorsCommitted DEF CatInv
  <2>2. q # r
    BY <2>1, AuthorsCommitted
  <2>3. r \notin before[q]
    BY <2>1 DEF ReqInv, Phase
  <2>. QED  BY <1>2, <1>3, <2>1, <2>2, <2>3 DEF Committed, Overlapped, Others, tables
<1>6. nextId <= nextId'
  BY <1>1, <1>2, MaxIdAssumption DEF TypeOK
<1>. QED  BY <1>2, <1>3, <1>4, <1>5, <1>6, LocalStep

\* A request that goes on with the category it has read.
LEMMA StaleStays ==
  ASSUME CatInv, NEW r \in Requests, Others(r), tables' = tables, Active(r),
         target'[r] = target[r], before'[r] = before[r],
         Asks(r) \/ category'[r] = category[r]
  PROVE  Stale(r)'
<1>1. call' = call /\ products' = products
  BY DEF Others, tables
<1>2. CASE Asks(r) \/ call[r].op # "update"
  BY <1>1, <1>2 DEF Stale, Updating, Asks
<1>3. CASE ~Asks(r) /\ call[r].op = "update"
  <2> DEFINE p == target[r]
  <2>1. ReqInv(r) /\ TypeOK
    BY DEF CatInv
  <2>2. p \in Ids
    BY <1>3, <2>1, UpdateCall DEF ReqInv, Target, Updating
  <2>3. \/ products[p].asker \in Requests \ before[r]
        \/ category[r] = AskedFor(p)
        \/ Reverted(p)
    BY <1>3, <2>1 DEF ReqInv, Stale, Updating
  <2>4. ~Committed(r)
    BY AuthorsCommitted DEF Active
  <2>5. Reverted(p) => Reverted(p)'
    BY <1>1, <2>2, <2>4, RevertedStays
  <2>6. AskedFor(p)' = AskedFor(p)
    BY <1>1 DEF AskedFor
  <2>. QED  BY <1>1, <1>3, <2>3, <2>5, <2>6 DEF Stale
<1>. QED  BY <1>2, <1>3

-----------------------------------------------------------------------------
(* The steps one by one.                                                   *)

LEMMA BeginCreateKeeps ==
  ASSUME CatInv, TypeOK', NEW r \in Requests, BeginCreate(r)
  PROVE  CatInv'
<1>1. TypeOK /\ ReqInv(r)
  BY DEF CatInv
<1>2. /\ Others(r) /\ tables' = tables /\ nextId' = nextId /\ outcome' = outcome
      /\ making' = making /\ draft' = draft /\ posted' = posted
      /\ pc[r] = "idle" /\ pc'[r] = "open" /\ before'[r] = Over /\ call[r].op = "create"
  BY <1>1 DEF BeginCreate, Goto, Arrive, Others, open, TypeOK
<1>3. nextId <= nextId'
  BY <1>1, <1>2, MaxIdAssumption DEF TypeOK
<1>4. Phase(r)'
  BY <1>1, <1>2 DEF ReqInv, Phase, Active, Over, Others
<1>5. ReqInv(r)'
  BY <1>1, <1>2, <1>4 DEF ReqInv, Phase, Active, Name, Found, Target, Settled, Version,
     Told, Covered, Stale, Updating, Creating, Writing, Others
<1>. QED  BY <1>1, <1>2, <1>3, <1>5, GotoStep

LEMMA ReadProductKeeps ==
  ASSUME CatInv, TypeOK', NEW r \in Requests, ReadProduct(r)
  PROVE  CatInv'
<1>1. TypeOK /\ ReqInv(r) /\ RightCategory
  BY DEF CatInv
<1>2. /\ Others(r) /\ tables' = tables /\ nextId' = nextId /\ outcome' = outcome
      /\ making' = making /\ draft' = draft /\ posted' = posted
      /\ pc[r] = "idle" /\ pc'[r] = "open" /\ before'[r] = Over /\ call[r].op = "update"
      /\ target'[r] = call[r].product /\ Exists(call[r].product)
      /\ category'[r] = products[call[r].product].category
  BY <1>1 DEF ReadProduct, Goto, Arrive, Others, TypeOK
<1>3. nextId <= nextId'
  BY <1>1, <1>2, MaxIdAssumption DEF TypeOK
<1>4. Phase(r)'
  BY <1>1, <1>2 DEF ReqInv, Phase, Active, Over, Others
<1>5. Stale(r)'
  <2> DEFINE p == call[r].product
  <2>1. p \in Ids
    BY <1>1, <1>2, UpdateCall
  <2>2. products[p].category = AskedFor(p) \/ Reverted(p)
    BY <1>1, <1>2, <2>1 DEF RightCategory
  <2>3. products' = products /\ AskedFor(p)' = AskedFor(p) /\ call' = call
    BY <1>2 DEF tables, AskedFor, Others
  <2>4. Reverted(p) => Reverted(p)'
    BY <1>2, <2>1, <2>3, AuthorsCommitted, RevertedStays
  <2>. QED  BY <1>2, <2>2, <2>3, <2>4 DEF Stale
<1>6. ReqInv(r)'
  BY <1>1, <1>2, <1>4, <1>5 DEF ReqInv, Phase, Active, Name, Found, Target, Settled,
     Version, Told, Covered, Updating, Creating, Writing, Others, Exists, tables
<1>. QED  BY <1>1, <1>2, <1>3, <1>6, GotoStep

LEMMA RefuseKeeps ==
  ASSUME CatInv, TypeOK', NEW r \in Requests, Refuse(r)
  PROVE  CatInv'
<1>1. TypeOK /\ ReqInv(r)
  BY DEF CatInv
<1>2. /\ Others(r) /\ tables' = tables /\ nextId' = nextId /\ outcome'[r] = "refused"
      /\ making' = making /\ draft' = draft /\ posted' = posted /\ before' = before
      /\ pc[r] = "idle" /\ pc'[r] = "over"
  BY <1>1 DEF Refuse, Finish, Others, open, TypeOK
<1>3. nextId <= nextId'
  BY <1>1, <1>2, MaxIdAssumption DEF TypeOK
<1>4. \A q \in before[r] : pc'[q] = "over"
  BY <1>1, <1>2 DEF ReqInv, Phase, TypeOK, Others
<1>5. Phase(r)'
  BY <1>1, <1>2, <1>4 DEF ReqInv, Phase, Active, Others
<1>6. ReqInv(r)'
  BY <1>1, <1>2, <1>5 DEF ReqInv, Phase, Active, Name, Found, Target, Settled, Version,
     Told, Covered, Stale, Updating, Creating, Writing, Others
<1>. QED  BY <1>1, <1>2, <1>3, <1>6, LocalStep DEF Beaten

LEMMA NeedNoCategoryKeeps ==
  ASSUME CatInv, TypeOK', NEW r \in Requests, NeedNoCategory(r)
  PROVE  CatInv'
<1>1. TypeOK /\ ReqInv(r)
  BY DEF CatInv
<1>2. /\ Others(r) /\ tables' = tables /\ nextId' = nextId /\ outcome' = outcome
      /\ making' = making /\ draft' = draft /\ posted' = posted /\ before' = before
      /\ target' = target
      /\ pc[r] = "open" /\ pc'[r] = "resolved" /\ category'[r] = Resolved(r)
  BY <1>1 DEF NeedNoCategory, Goto, Others, TypeOK
<1>3. nextId <= nextId'
  BY <1>1, <1>2, MaxIdAssumption DEF TypeOK
<1>4. \A q \in before[r] : pc'[q] = "over"
  BY <1>1, <1>2 DEF ReqInv, Phase, TypeOK, Others
<1>5. Phase(r)' /\ Name(r)'
  BY <1>1, <1>2, <1>4 DEF ReqInv, Phase, Name, Active, Others, tables
<1>6. Stale(r)'
  BY <1>1, <1>2, StaleStays DEF ReqInv, Active, Asks, Resolved
<1>7. ReqInv(r)'
  BY <1>1, <1>2, <1>5, <1>6 DEF ReqInv, Phase, Active, Found, Target, Settled, Version,
     Told, Covered, Updating, Creating, Writing, Others, Exists, tables, Asks, Resolved
<1>. QED  BY <1>1, <1>2, <1>3, <1>7, GotoStep

LEMMA FindCategoryKeeps ==
  ASSUME CatInv, TypeOK', NEW r \in Requests, FindCategory(r)
  PROVE  CatInv'
<1>1. TypeOK /\ ReqInv(r)
  BY DEF CatInv
<1>2. /\ Others(r) /\ tables' = tables /\ nextId' = nextId /\ outcome' = outcome
      /\ making' = making /\ draft' = draft /\ posted' = posted /\ before' = before
      /\ target' = target /\ pc[r] = "open" /\ call[r].category \in Categories
      /\ \/ maker[call[r].category] = NoRequest /\ pc'[r] = "inserting"
            /\ category' = category
         \/ pc'[r] = "resolved" /\ category'[r] = Resolved(r)
  BY <1>1 DEF FindCategory, Goto, Others, TypeOK
<1>3. nextId <= nextId'
  BY <1>1, <1>2, MaxIdAssumption DEF TypeOK
<1>4. \A q \in before[r] : pc'[q] = "over"
  BY <1>1, <1>2 DEF ReqInv, Phase, TypeOK, Others
<1>5. Phase(r)' /\ Name(r)' /\ Found(r)'
  BY <1>1, <1>2, <1>4 DEF ReqInv, Phase, Name, Found, Active, Others, tables
<1>6. Asks(r)
  BY <1>2, CategoriesAssumption DEF Asks
<1>7. Stale(r)'
  BY <1>1, <1>2, <1>6, StaleStays DEF Active
<1>8. ReqInv(r)'
  BY <1>1, <1>2, <1>5, <1>6, <1>7 DEF ReqInv, Phase, Active, Target, Settled, Version,
     Told, Covered, Updating, Creating, Writing, Others, Exists, tables, Asks, Resolved
<1>. QED  BY <1>1, <1>2, <1>3, <1>8, GotoStep

LEMMA InsertCategoryKeeps ==
  ASSUME CatInv, TypeOK', NEW r \in Requests, InsertCategory(r)
  PROVE  CatInv'
<1>1. TypeOK /\ ReqInv(r)
  BY DEF CatInv
<1>2. /\ Others(r) /\ tables' = tables /\ nextId' = nextId /\ outcome' = outcome
      /\ draft' = draft /\ posted' = posted /\ before' = before /\ target' = target
      /\ pc[r] = "inserting" /\ pc'[r] = "resolved"
      /\ category'[r] = Resolved(r) /\ making'[r] = call[r].category
      /\ maker[call[r].category] = NoRequest /\ NameFree(r)
  BY <1>1 DEF InsertCategory, Goto, Others, TypeOK
<1>3. nextId <= nextId'
  BY <1>1, <1>2, MaxIdAssumption DEF TypeOK
<1>4. \A q \in before[r] : pc'[q] = "over"
  BY <1>1, <1>2 DEF ReqInv, Phase, TypeOK, Others
<1>5. Phase(r)'
  BY <1>1, <1>2, <1>4 DEF ReqInv, Phase, Active, Others
<1>6. Name(r)'
  BY <1>2 DEF Name, NameFree, Others, tables
<1>7. Asks(r)
  BY <1>1, <1>2, CategoriesAssumption DEF ReqInv, Found, Asks
<1>8. Stale(r)'
  BY <1>1, <1>2, <1>7, StaleStays DEF Active
<1>9. ReqInv(r)'
  BY <1>1, <1>2, <1>5, <1>6, <1>7, <1>8 DEF ReqInv, Phase, Active, Found, Target,
     Settled, Version, Told, Covered, Updating, Creating, Writing, Others, Exists,
     tables, Asks, Resolved
<1>. QED  BY <1>1, <1>2, <1>3, <1>9, GotoStep

\* The winner of the race is known: it was not over when this call came.
LEMMA LoseCategoryKeeps ==
  ASSUME CatInv, TypeOK', NEW r \in Requests, LoseCategory(r)
  PROVE  CatInv'
<1>1. /\ call[r].category \in Categories
      /\ maker[call[r].category] \in {NoRequest} \cup (Requests \ before[r])
  BY DEF CatInv, ReqInv, Found, LoseCategory
<1>. QED  BY <1>1, AbortStep DEF LoseCategory

LEMMA MissDetailsKeeps ==
  ASSUME CatInv, TypeOK', NEW r \in Requests, MissDetails(r)
  PROVE  CatInv'
  BY AbortStep DEF MissDetails

LEMMA FailKeeps ==
  ASSUME CatInv, TypeOK', NEW r \in Requests, Fail(r)
  PROVE  CatInv'
  BY AbortStep DEF Fail

LEMMA CreateProductKeeps ==
  ASSUME CatInv, TypeOK', NEW r \in Requests, CreateProduct(r)
  PROVE  CatInv'
<1> DEFINE row == [creator |-> r, category |-> category[r], asker |-> r, writer |-> r,
                   carried |-> CarriedBy]
<1>1. TypeOK /\ ReqInv(r) /\ FreshIds
  BY DEF CatInv
<1>2. /\ Others(r) /\ tables' = tables /\ nextId' = nextId + 1 /\ outcome' = outcome
      /\ making' = making /\ posted' = posted /\ before' = before
      /\ category' = category /\ target'[r] = nextId /\ draft'[r] = row
      /\ pc[r] = "resolved" /\ pc'[r] = "detailed" /\ call[r].op = "create"
      /\ nextId \in Ids
  BY <1>1 DEF CreateProduct, Goto, Others, TypeOK
<1>3. nextId \in Nat
  BY <1>2, MaxIdAssumption DEF Ids
<1>4. \A q \in before[r] : pc'[q] = "over"
  BY <1>1, <1>2 DEF ReqInv, Phase, TypeOK, Others
<1>5. row # NoRow
  BY RequestsAssumption DEF NoRow
<1>6. Phase(r)'
  BY <1>1, <1>2, <1>4 DEF ReqInv, Phase, Active, Others
<1>7. Target(r)'
  <2>1. ~Exists(nextId) /\ products' = products
    BY <1>1, <1>2, <1>3 DEF FreshIds, tables
  <2>2. ASSUME NEW q \in Requests, q # r, Writing(q)'
        PROVE  target'[q] # nextId
    <3>1. Writing(q) /\ target'[q] = target[q] /\ ReqInv(q)
      BY <1>2, <2>2 DEF Writing, Others, CatInv
    <3>2. CASE call[q].op = "create"
      BY <1>3, <3>1, <3>2, MaxIdAssumption
         DEF ReqInv, Phase, Target, Creating, Writing
    <3>3. CASE call[q].op = "update"
      BY <2>1, <3>1, <3>3 DEF ReqInv, Target, Updating, Active, Writing
    <3>4. call[q].op # "open"
      BY <3>1 DEF ReqInv, Phase, Active, Writing
    <3>. QED  BY <1>1, <3>2, <3>3, <3>4, CallKinds
  <2>3. nextId \in 1..(nextId' - 1)
    BY <1>2, <1>3 DEF Ids
  <2>. QED  BY <1>2, <1>5, <2>1, <2>2, <2>3 DEF Target, Updating, Creating, Others, Exists
<1>8. Version(r)'
  <2>1. Asks(r)
    BY <1>1, <1>2, CreateCall
  <2>. QED  BY <1>2, <2>1 DEF Version, Asks, Others
<1>9. Covered(r)'
  <2>1. before[r] \subseteq Requests
    BY <1>1 DEF TypeOK
  <2>2. Known(r) \subseteq CarriedBy
    BY <2>1, RequestsAssumption DEF Known, CarriedBy, Open
  <2>. QED  BY <1>2, <2>2 DEF Covered, Known, CarriedBy, Open, tables, Others
<1>10. ReqInv(r)'
  BY <1>1, <1>2, <1>6, <1>7, <1>8, <1>9 DEF ReqInv, Name, Found, Settled, Told, Stale,
     Updating, Others, tables, Asks
<1>. QED  BY <1>1, <1>2, <1>3, <1>10, GotoStep

LEMMA SaveProductKeeps ==
  ASSUME CatInv, TypeOK', NEW r \in Requests, SaveProduct(r)
  PROVE  CatInv'
<1> DEFINE p == target[r]
           row == [products[p] EXCEPT
                     !.category = category[r],
                     !.asker = IF Asks(r) THEN r ELSE @,
                     !.writer = IF TellsMeta(r) THEN r ELSE @]
<1>1. TypeOK /\ ReqInv(r)
  BY DEF CatInv
<1>2. /\ Others(r) /\ tables' = tables /\ nextId' = nextId /\ outcome' = outcome
      /\ making' = making /\ posted' = posted /\ before' = before
      /\ category' = category /\ target' = target /\ draft'[r] = row
      /\ pc[r] = "resolved" /\ pc'[r] = "saved" /\ call[r].op = "update"
      /\ ~ProductLocked(r, p)
  BY <1>1 DEF SaveProduct, Goto, Others, TypeOK
<1>3. nextId <= nextId'
  BY <1>1, <1>2, MaxIdAssumption DEF TypeOK
<1>4. \A q \in before[r] : pc'[q] = "over"
  BY <1>1, <1>2 DEF ReqInv, Phase, TypeOK, Others
<1>5. p \in Ids /\ Exists(p) /\ products[p] \in Row
  BY <1>1, <1>2, UpdateCall DEF ReqInv, Target, Updating, Active, TypeOK
<1>6. /\ row.category = category[r] /\ row.creator = products[p].creator
      /\ row.asker = IF Asks(r) THEN r ELSE products[p].asker
      /\ row.writer = IF TellsMeta(r) THEN r ELSE products[p].writer
      /\ row.carried = products[p].carried
  BY <1>5 DEF Row
<1>7. row # NoRow
  BY <1>5, <1>6 DEF NoRow, Exists
<1>8. Phase(r)'
  BY <1>1, <1>2, <1>4, <1>7 DEF ReqInv, Phase, Active, Others
<1>9. Target(r)'
  <2>1. \A q \in Requests : q # r /\ Writing(q)' => target'[q] # p
    BY <1>2 DEF ProductLocked, Writing, Others
  <2>. QED  BY <1>1, <1>2, <2>1 DEF ReqInv, Target, Updating, Creating, Active, Exists,
       tables, Others
<1>10. Version(r)'
  BY <1>2, <1>6 DEF Version, Asks, TellsMeta, tables, Others
<1>11. Stale(r)'
  BY <1>2, StaleStays DEF Active
<1>12. ReqInv(r)'
  BY <1>1, <1>2, <1>8, <1>9, <1>10, <1>11 DEF ReqInv, Name, Found, Settled, Told,
     Covered, Creating, Others, tables, Asks
<1>. QED  BY <1>1, <1>2, <1>3, <1>12, GotoStep

LEMMA LeaveProductKeeps ==
  ASSUME CatInv, TypeOK', NEW r \in Requests, LeaveProduct(r)
  PROVE  CatInv'
<1>1. TypeOK /\ ReqInv(r)
  BY DEF CatInv
<1>2. /\ Others(r) /\ tables' = tables /\ nextId' = nextId /\ outcome' = outcome
      /\ making' = making /\ draft' = draft /\ posted' = posted /\ before' = before
      /\ category' = category /\ target' = target
      /\ pc[r] = "resolved" /\ pc'[r] = "told" /\ call[r].op = "update"
      /\ ~TellsMeta(r)
  BY <1>1 DEF LeaveProduct, Goto, Others, TypeOK, open, TouchesProduct, TellsMeta
<1>3. nextId <= nextId'
  BY <1>1, <1>2, MaxIdAssumption DEF TypeOK
<1>4. \A q \in before[r] : pc'[q] = "over"
  BY <1>1, <1>2 DEF ReqInv, Phase, TypeOK, Others
<1>5. Phase(r)'
  BY <1>1, <1>2, <1>4 DEF ReqInv, Phase, Active, Others
<1>6. Stale(r)'
  BY <1>2, StaleStays DEF Active
<1>7. ReqInv(r)'
  BY <1>1, <1>2, <1>5, <1>6 DEF ReqInv, Phase, Name, Found, Target, Settled, Version,
     Told, Covered, Updating, Creating, Active, Writing, Others, Exists, tables, Asks,
     TellsMeta
<1>. QED  BY <1>1, <1>2, <1>3, <1>7, GotoStep

LEMMA FanOutKeeps ==
  ASSUME CatInv, TypeOK', NEW r \in Requests, FanOut(r)
  PROVE  CatInv'
<1>1. TypeOK /\ ReqInv(r)
  BY DEF CatInv
<1>2. /\ Others(r) /\ tables' = tables /\ nextId' = nextId /\ outcome' = outcome
      /\ making' = making /\ draft' = draft /\ before' = before
      /\ category' = category /\ target' = target
      /\ pc[r] = "saved" /\ pc'[r] = "told"
      /\ posted'[r] = IF TellsMeta(r)
                        THEN {EventOf(r, b, "meta") : b \in products[target[r]].carried}
                        ELSE {}
  BY <1>1 DEF FanOut, Goto, Others, TypeOK
<1>3. nextId <= nextId'
  BY <1>1, <1>2, MaxIdAssumption DEF TypeOK
<1>4. \A q \in before[r] : pc'[q] = "over"
  BY <1>1, <1>2 DEF ReqInv, Phase, TypeOK, Others
<1>5. Phase(r)'
  <2>1. \A e \in posted'[r] : e.by = r
    BY <1>2 DEF EventOf
  <2>. QED  BY <1>1, <1>2, <1>4, <2>1 DEF ReqInv, Phase, Active, Others
<1>6. Told(r)'
  <2>1. call' = call /\ products' = products
    BY <1>2 DEF Others, tables
  <2>2. draft'[r] # NoRow
    BY <1>1, <1>2 DEF ReqInv, Phase
  <2>. QED  BY <1>2, <2>1, <2>2 DEF Told, TellsMeta, EventOf
<1>7. Stale(r)'
  BY <1>2, StaleStays DEF Active
<1>8. ReqInv(r)'
  BY <1>1, <1>2, <1>5, <1>6, <1>7 DEF ReqInv, Phase, Name, Found, Target, Settled,
     Version, Covered, Updating, Creating, Active, Writing, Others, Exists, tables, Asks,
     TellsMeta
<1>. QED  BY <1>1, <1>2, <1>3, <1>8, GotoStep

\* The branch part of an update, done or not needed.
LEMMA DetailsKeep ==
  ASSUME CatInv, TypeOK', NEW r \in Requests, UpdateDetails(r) \/ LeaveDetails(r)
  PROVE  CatInv'
<1>1. TypeOK /\ ReqInv(r)
  BY DEF CatInv
<1>2. /\ Others(r) /\ tables' = tables /\ nextId' = nextId /\ outcome' = outcome
      /\ making' = making /\ draft' = draft /\ before' = before
      /\ category' = category /\ target' = target
      /\ pc[r] = "told" /\ pc'[r] = "detailed"
  BY <1>1 DEF UpdateDetails, LeaveDetails, Goto, Others, TypeOK, open
<1>3. posted[r] \subseteq posted'[r] /\ \A e \in posted'[r] : e.by = r
  <2>1. \A e \in posted[r] : e.by = r
    BY <1>1 DEF ReqInv, Phase
  <2>2. CASE UpdateDetails(r)
    BY <1>1, <2>1, <2>2 DEF UpdateDetails, EventOf, TypeOK
  <2>3. CASE LeaveDetails(r)
    BY <2>1, <2>3 DEF LeaveDetails, open
  <2>. QED  BY <2>2, <2>3
<1>4. call[r].op = "update"
  BY <1>1, <1>2, CallKinds DEF ReqInv, Phase, Active
<1>5. nextId <= nextId'
  BY <1>1, <1>2, MaxIdAssumption DEF TypeOK
<1>6. \A q \in before[r] : pc'[q] = "over"
  BY <1>1, <1>2 DEF ReqInv, Phase, TypeOK, Others
<1>7. Phase(r)'
  BY <1>1, <1>2, <1>3, <1>4, <1>6 DEF ReqInv, Phase, Active, Others
<1>8. Told(r)'
  <2>1. call' = call /\ products' = products
    BY <1>2 DEF Others, tables
  <2>. QED  BY <1>1, <1>2, <1>3, <2>1 DEF ReqInv, Told, TellsMeta
<1>9. Stale(r)'
  BY <1>2, StaleStays DEF Active
<1>10. ReqInv(r)'
  BY <1>1, <1>2, <1>4, <1>7, <1>8, <1>9 DEF ReqInv, Name, Found, Target, Settled,
     Version, Covered, Updating, Creating, Active, Writing, Others, Exists, tables, Asks,
     TellsMeta
<1>. QED  BY <1>1, <1>2, <1>5, <1>10, GotoStep

-----------------------------------------------------------------------------
(* The steps that change the tables.                                       *)

\* A branch opened in the middle of a creation is not one it has to know of.
LEMMA OpenBranchKeeps ==
  ASSUME CatInv, TypeOK', NEW r \in Requests, OpenBranch(r)
  PROVE  CatInv'
<1>1. TypeOK /\ ReqInv(r) /\ \A q \in Requests : ReqInv(q)
  BY DEF CatInv
<1>2. PICK n \in Branches : ~Open(n) /\ opener' = [opener EXCEPT ![n] = r]
  BY DEF OpenBranch
<1>3. /\ Others(r) /\ products' = products /\ maker' = maker /\ events' = events
      /\ nextId' = nextId /\ making' = making /\ draft' = draft /\ posted' = posted
      /\ category' = category /\ target' = target
      /\ pc[r] = "idle" /\ pc'[r] = "over" /\ outcome'[r] = "ok"
      /\ before'[r] = Over /\ call[r].op = "open"
  BY <1>1 DEF OpenBranch, Finish, Arrive, Others, open, TypeOK
<1>4. /\ \A b \in Branches : opener'[b] = IF b = n THEN r ELSE opener[b]
      /\ \A b \in Branches : Open(b) => Open(b)'
  BY <1>1, <1>2, RequestsAssumption DEF Open, TypeOK
<1>5. /\ call' = call /\ ~Committed(r)
      /\ \A q \in Requests \ {r} :
           /\ before'[q] = before[q] /\ pc'[q] = pc[q] /\ outcome'[q] = outcome[q]
           /\ Known(q)' = Known(q)
  <2>1. \A q \in Requests \ {r} : r \notin before[q]
    BY <1>1, <1>3 DEF ReqInv, Phase
  <2>2. ~Committed(r)
    BY <1>3, AuthorsCommitted
  <2>3. ASSUME NEW q \in Requests \ {r}
        PROVE  Known(q)' = Known(q)
    <3>1. before'[q] = before[q] /\ before[q] \subseteq Requests /\ r \notin before[q]
      BY <1>1, <1>3, <2>1 DEF Others, TypeOK
    <3>2. opener[n] = NoRequest
      BY <1>2 DEF Open
    <3>. QED  BY <1>4, <3>1, <3>2, RequestsAssumption DEF Known
  <2>. QED  BY <1>3, <2>2, <2>3 DEF Others
<1>6. ASSUME NEW p \in Ids
      PROVE  /\ AskedFor(p)' = AskedFor(p) /\ (Exists(p)' <=> Exists(p))
             /\ Reverted(p) => Reverted(p)'
  BY <1>3, <1>5, RevertedStays DEF AskedFor, Exists
<1>7. ASSUME NEW q \in Requests, q # r
      PROVE  ReqInv(q)'
  <2>1. ReqInv(q) /\ before[q] \subseteq Requests
    BY <1>1 DEF TypeOK
  <2>2. Phase(q)'
    <3>1. \A x \in before[q] : pc'[x] = "over"
      BY <1>3, <1>5, <2>1 DEF ReqInv, Phase
    <3>. QED  BY <1>3, <1>5, <1>7, <2>1, <3>1 DEF ReqInv, Phase, Active
  <2>3. Covered(q)'
    <3>1. Creating(q)' => draft'[q].carried = draft[q].carried /\ Creating(q)
      BY <1>3, <1>5, <1>7 DEF Creating
    <3>2. Creating(q) => draft[q].carried \subseteq Branches
      BY <1>1 DEF TypeOK, Row
    <3>. QED  BY <1>4, <1>5, <1>7, <2>1, <3>1, <3>2 DEF ReqInv, Covered
  <2>4. Stale(q)'
    <3>1. Updating(q) => target[q] \in Ids
      BY <1>1, <2>1, UpdateCall DEF ReqInv, Target, Updating
    <3>. QED  BY <1>3, <1>5, <1>6, <1>7, <2>1, <3>1
         DEF ReqInv, Stale, Updating, Active, Asks
  <2>5. Name(q)' /\ Found(q)'
    BY <1>3, <1>5, <1>7, <2>1 DEF ReqInv, Name, Found
  <2>6. Target(q)'
    BY <1>1, <1>3, <1>5, <1>7, <2>1 DEF ReqInv, Phase, Target, Updating, Creating, Active,
       Exists, Writing
  <2>7. Settled(q)' /\ Version(q)' /\ Told(q)'
    BY <1>3, <1>5, <1>7, <2>1 DEF ReqInv, Settled, Version, Told, Writing, Asks, TellsMeta
  <2>. QED  BY <2>2, <2>3, <2>4, <2>5, <2>6, <2>7 DEF ReqInv
<1>8. ReqInv(r)'
  <2>1. Phase(r)'
    BY <1>1, <1>3, <1>5 DEF ReqInv, Phase, Active, Over, Others
  <2>. QED  BY <1>1, <1>3, <1>5, <2>1 DEF ReqInv, Phase, Name, Found, Target, Settled,
       Version, Told, Covered, Stale, Updating, Creating, Active, Writing, Others
<1>9. NoTraceWithoutCommit'
  <2>1. Authors' \subseteq Authors \cup {r}
    BY <1>3, <1>4 DEF Authors
  <2>2. \A q \in Requests : Committed(q) => Committed(q)'
    BY <1>3, <1>5 DEF Committed
  <2>. QED  BY <1>3, <2>1, <2>2 DEF CatInv, NoTraceWithoutCommit, Committed
<1>10. RightCategory'
  BY <1>3, <1>6 DEF CatInv, RightCategory
<1>11. ConflictNeedsOverlap'
  <2> SUFFICES ASSUME NEW q \in Requests, outcome'[q] = "conflict"
               PROVE  LET x == maker[call[q].category] IN
                        x \in Requests /\ Committed(x)' /\ Overlapped(x, q)'
    BY <1>3, <1>5 DEF ConflictNeedsOverlap
  <2> DEFINE x == maker[call[q].category]
  <2>1. q # r /\ outcome[q] = "conflict"
    BY <1>3, <1>5
  <2>2. x \in Requests /\ Committed(x) /\ Overlapped(x, q) /\ x # r
    BY <1>5, <2>1 DEF CatInv, ConflictNeedsOverlap
  <2>. QED  BY <1>3, <1>5, <2>1, <2>2 DEF Committed, Overlapped
<1>12. RowsCoverBranches'
  <2> SUFFICES ASSUME NEW p \in Ids, products[p].creator \in Requests
               PROVE  /\ Known(products[p].creator)' \subseteq products[p].carried
                      /\ \A b \in products[p].carried : Open(b)'
    BY <1>3 DEF RowsCoverBranches, Known
  <2> DEFINE q == products[p].creator
  <2>1. Committed(q) /\ q # r
    BY <1>5, AuthorsCommitted
  <2>2. Known(q)' = Known(q)
    BY <1>3, <1>5, <2>1
  <2>3. products[p].carried \subseteq Branches
    BY <1>1 DEF TypeOK, Row
  <2>. QED  BY <1>3, <1>4, <2>2, <2>3 DEF CatInv, RowsCoverBranches, Known
<1>13. EveryChangeIsTold'
  BY <1>3 DEF CatInv, EveryChangeIsTold
<1>14. FreshIds'
  BY <1>3 DEF CatInv, FreshIds, Exists, Ids
<1>. QED  BY <1>7, <1>8, <1>9, <1>10, <1>11, <1>12, <1>13, <1>14 DEF CatInv

\* What becomes of a product: the version r has written, or what it was.
LEMMA Rows ==
  ASSUME CatInv, NEW r \in Requests, Commit(r)
  PROVE  /\ pc[r] = "detailed" /\ pc'[r] = "over" /\ outcome'[r] = "ok"
         /\ making'[r] = NoCategory /\ draft'[r] = NoRow /\ posted'[r] = {}
         /\ Others(r) /\ ~Committed(r)
         /\ opener' = opener /\ nextId' = nextId /\ before' = before /\ target' = target
         /\ category' = category /\ call' = call /\ events' = events \cup posted[r]
         /\ \A c \in Categories : maker'[c] = IF c = making[r] THEN r ELSE maker[c]
         /\ \A p \in Ids : products'[p] = products[p] \/
              /\ Writing(r) /\ target[r] = p /\ products'[p] = draft[r]
         /\ Writing(r) /\ target[r] \in Ids => products'[target[r]] = draft[r]
<1>1. TypeOK
  BY DEF CatInv
<1>2. ~Committed(r)
  BY AuthorsCommitted DEF Commit
<1>. QED  BY <1>1, <1>2 DEF Commit, Finish, Others, Writing, TypeOK

\* The version that r commits.
LEMMA NewVersion ==
  ASSUME CatInv, NEW r \in Requests, Commit(r), Writing(r)
  PROVE  LET p == target[r] IN
         /\ p \in Ids /\ Exists(p)'
         /\ products'[p].asker = IF Asks(r) THEN r ELSE products[p].asker
         /\ products'[p].category = category[r]
         /\ \/ /\ call[r].op = "update" /\ Updating(r) /\ call[r].product = p
               /\ Exists(p)
               /\ products'[p].creator = products[p].creator
               /\ products'[p].carried = products[p].carried
               /\ products'[p].writer = IF TellsMeta(r) THEN r ELSE products[p].writer
            \/ /\ call[r].op = "create" /\ Asks(r) /\ Creating(r) /\ ~Exists(p)
               /\ p < nextId
               /\ products'[p].creator = r /\ products'[p].writer = r
               /\ products'[p].carried = draft[r].carried
<1>1. TypeOK /\ ReqInv(r) /\ pc[r] = "detailed" /\ products' = [p \in Ids |->
        IF p = target[r] /\ draft[r] # NoRow THEN draft[r] ELSE products[p]]
  BY DEF CatInv, Commit
<1>2. call[r].op \in {"update", "create"}
  BY <1>1, CallKinds DEF ReqInv, Phase, Active
<1>3. CASE call[r].op = "update"
  <2>1. Updating(r)
    BY <1>1, <1>3 DEF Updating, Active
  <2>2. target[r] = call[r].product /\ Exists(target[r])
    BY <1>1, <2>1 DEF ReqInv, Target
  <2>3. target[r] \in Ids
    BY <1>1, <1>3, <2>2, UpdateCall
  <2>4. products'[target[r]] = draft[r]
    BY <1>1, <2>3 DEF Writing
  <2>. QED  BY <1>1, <1>3, <2>1, <2>2, <2>3, <2>4 DEF ReqInv, Version, Exists, Commit
<1>4. CASE call[r].op = "create"
  <2>1. Creating(r) /\ Asks(r)
    BY <1>1, <1>4, CreateCall DEF Creating
  <2>2. target[r] \in 1..(nextId - 1) /\ ~Exists(target[r])
    BY <1>1, <2>1 DEF ReqInv, Target
  <2>3. target[r] \in Ids /\ target[r] < nextId
    BY <1>1, <2>2, MaxIdAssumption DEF TypeOK, Ids
  <2>4. products'[target[r]] = draft[r]
    BY <1>1, <2>3 DEF Writing
  <2>. QED  BY <1>1, <1>4, <2>1, <2>2, <2>3, <2>4, RequestsAssumption
       DEF ReqInv, Version, Exists, Commit
<1>. QED  BY <1>2, <1>3, <1>4

\* What others hold: their row is not the one committed, or they have not
\* written it yet.
LEMMA CommitOthers ==
  ASSUME CatInv, NEW r \in Requests, Commit(r), NEW q \in Requests, q # r
  PROVE  ReqInv(q)'
<1>1. TypeOK /\ ReqInv(r) /\ ReqInv(q)
  BY DEF CatInv
<1>2. /\ pc'[q] = pc[q] /\ outcome'[q] = outcome[q] /\ category'[q] = category[q]
      /\ making'[q] = making[q] /\ draft'[q] = draft[q] /\ target'[q] = target[q]
      /\ posted'[q] = posted[q] /\ before'[q] = before[q] /\ call' = call
      /\ opener' = opener /\ nextId' = nextId /\ before[q] \subseteq Requests
  BY <1>1, Rows DEF Others, TypeOK
<1>3. r \notin before[q]
  BY <1>1, Rows DEF ReqInv, Phase
<1>4. Phase(q)'
  <2>1. \A x \in before[q] : pc'[x] = "over"
    BY <1>1, <1>2, Rows DEF ReqInv, Phase, Others
  <2>. QED  BY <1>1, <1>2, <2>1 DEF ReqInv, Phase, Active
<1>5. Name(q)'
  <2>1. making[q] # NoCategory => making[q] \in Categories
    BY <1>1 DEF TypeOK
  <2>2. making[q] # NoCategory => \A x \in Requests : making'[x] = making[q] => x = q
    BY <1>1, Rows DEF ReqInv, Name, Others
  <2>3. making[q] # NoCategory => maker'[making[q]] = NoRequest
    BY <1>1, <2>1, Rows DEF ReqInv, Name
  <2>. QED  BY <1>2, <2>2, <2>3 DEF Name
<1>6. Found(q)'
  BY <1>1, <1>2, <1>3, Rows DEF ReqInv, Found
<1>7. Writing(q)' = Writing(q)
  BY <1>2 DEF Writing
<1>8. ASSUME Writing(q), target[q] \in Ids
      PROVE  products'[target[q]] = products[target[q]]
  <2>1. Writing(r) => target[r] # target[q]
    BY <1>1, <1>8 DEF ReqInv, Target
  <2>. QED  BY <1>8, <2>1, Rows
<1>9. \A p \in Ids : Exists(p) => Exists(p)'
  BY Rows, NewVersion DEF Exists
<1>10. ASSUME Updating(q)
       PROVE  target[q] \in Ids /\ Exists(target[q])'
  <2>1. target[q] = call[q].product /\ Exists(target[q])
    BY <1>1, <1>10 DEF ReqInv, Target
  <2>2. target[q] \in Ids
    BY <1>1, <1>10, <2>1, UpdateCall DEF Updating
  <2>3. target'[q] = target[q]
    BY <1>2
  <2>. QED  BY <1>9, <2>1, <2>2, <2>3, Rows
<1>11. ASSUME Creating(q)
       PROVE  target[q] \in Ids /\ ~Exists(target[q])' /\ Writing(q)
  <2>1. Writing(q) /\ target[q] \in 1..(nextId - 1) /\ ~Exists(target[q])
    BY <1>1, <1>11 DEF ReqInv, Target, Creating, Writing
  <2>2. target[q] \in Ids
    BY <1>1, <2>1, MaxIdAssumption DEF TypeOK, Ids
  <2>. QED  BY <1>2, <1>8, <2>1, <2>2 DEF Exists
<1>12. Target(q)'
  <2>1. \A x \in Requests : Writing(x)' /\ Writing(q)' /\ target'[x] = target'[q] => x = q
    BY <1>1, Rows DEF ReqInv, Target, Writing, Others
  <2>2. Updating(q)' = Updating(q) /\ Creating(q)' = Creating(q)
    BY <1>2 DEF Updating, Creating, Active
  <2>. QED  BY <1>1, <1>2, <1>10, <1>11, <2>1, <2>2 DEF ReqInv, Target
<1>13. ASSUME Writing(q)
       PROVE  target[q] \in Ids
  <2>1. Updating(q) \/ Creating(q)
    BY <1>1, <1>13, CallKinds DEF ReqInv, Phase, Updating, Creating, Active, Writing
  <2>. QED  BY <1>10, <1>11, <2>1
<1>14. Version(q)' /\ Told(q)' /\ Settled(q)' /\ Covered(q)'
  <2>1. Version(q)'
    BY <1>1, <1>2, <1>7, <1>8, <1>13 DEF ReqInv, Version, Asks, TellsMeta
  <2>2. Told(q)'
    BY <1>1, <1>2, <1>8, <1>13 DEF ReqInv, Told, TellsMeta, Writing
  <2>3. Settled(q)' /\ Covered(q)'
    BY <1>1, <1>2 DEF ReqInv, Settled, Covered, Known, Creating, Open, Asks
  <2>. QED  BY <2>1, <2>2, <2>3
<1>15. Stale(q)'
  <2>1. CASE ~(Updating(q) /\ ~Asks(q))
    BY <1>2, <2>1 DEF Stale, Updating, Active, Asks
  <2>2. CASE Updating(q) /\ ~Asks(q)
    <3> DEFINE p == target[q]
    <3>1. p \in Ids /\ target'[q] = p
      BY <1>2, <1>10, <2>2
    <3>2. \/ products[p].asker \in Requests \ before[q]
          \/ category[q] = AskedFor(p)
          \/ Reverted(p)
      BY <1>1, <2>2 DEF ReqInv, Stale
    <3>3. CASE products'[p].asker = products[p].asker
      <4>1. AskedFor(p)' = AskedFor(p)
        BY <1>2, <3>3, <3>1 DEF AskedFor
      <4>2. Reverted(p) => Reverted(p)'
        BY <1>2, <3>1, <3>3, Rows, RevertedStays
      <4>. QED  BY <1>2, <3>1, <3>2, <3>3, <4>1, <4>2 DEF Stale
    <3>4. CASE products'[p].asker = r
      BY <1>2, <1>3, <3>1, <3>4 DEF Stale
    <3>. QED  BY <3>1, <3>3, <3>4, Rows, NewVersion
  <2>. QED  BY <2>1, <2>2
<1>. QED  BY <1>4, <1>5, <1>6, <1>12, <1>14, <1>15 DEF ReqInv

LEMMA CommitKeeps ==
  ASSUME CatInv, TypeOK', NEW r \in Requests, Commit(r)
  PROVE  CatInv'
<1>1. TypeOK /\ ReqInv(r)
  BY DEF CatInv
<1>2. \A q \in Requests : Committed(q) => Committed(q)' /\ q # r
  BY Rows DEF Committed, Others
<1>3. before' = before /\ call' = call /\ opener' = opener /\ Committed(r)'
  BY Rows DEF Committed
<1>4. \A q \in Requests : ReqInv(q)'
  <2>1. \A q \in before[r] : pc'[q] = "over"
    BY <1>1, Rows DEF ReqInv, Phase, TypeOK, Others
  <2>2. ReqInv(r)'
    BY <2>1, <1>3, <1>1, Rows DEF ReqInv, Phase, Name, Found, Target, Settled, Version,
       Told, Covered, Stale, Updating, Creating, Active, Writing
  <2>. QED  BY <2>2, CommitOthers
<1>5. NoTraceWithoutCommit'
  <2>1. \A e \in posted[r] : e.by = r
    BY <1>1 DEF ReqInv, Phase
  <2>2. \A p \in Ids :
          {products'[p].creator, products'[p].asker, products'[p].writer}
            \subseteq Authors \cup {r}
    <3>1. \A p \in Ids :
            {products[p].creator, products[p].asker, products[p].writer} \subseteq Authors
      BY DEF Authors
    <3>. QED  BY <3>1, Rows, NewVersion
  <2>3. \A c \in Categories : maker'[c] \in Authors \cup {r}
    BY Rows DEF Authors
  <2>4. \A b \in Branches : opener'[b] \in Authors
    BY <1>3 DEF Authors
  <2>5. \A e \in events' : e.by \in Authors \cup {r}
    <3>1. {e.by : e \in events} \subseteq Authors
      BY DEF Authors
    <3>2. \A e \in events : e.by \in {x.by : x \in events}
      OBVIOUS
    <3>. QED  BY <2>1, <3>1, <3>2, Rows
  <2>6. Authors' \subseteq Authors \cup {r}
    <3> SUFFICES ASSUME NEW a \in Authors' PROVE a \in Authors \cup {r}
      OBVIOUS
    <3>1. \/ \E c \in Categories : a = maker'[c]
          \/ \E b \in Branches : a = opener'[b]
          \/ \E p \in Ids :
               a \in {products'[p].creator, products'[p].asker, products'[p].writer}
          \/ \E e \in events' : a = e.by
      <4> DEFINE tellers == {e.by : e \in events'}
      <4>1. \A x \in tellers : \E e \in events' : x = e.by
        OBVIOUS
      <4> HIDE DEF tellers
      <4>2. \/ \E c \in Categories : a = maker'[c]
            \/ \E b \in Branches : a = opener'[b]
            \/ \E p \in Ids :
                 a \in {products'[p].creator, products'[p].asker, products'[p].writer}
            \/ a \in tellers
        BY DEF Authors, tellers
      <4>. QED  BY <4>1, <4>2
    <3>. QED  BY <2>2, <2>3, <2>4, <2>5, <3>1
  <2>. QED  BY <1>2, <1>3, <2>6 DEF CatInv, NoTraceWithoutCommit
<1>6. RightCategory'
  <2> SUFFICES ASSUME NEW p \in Ids, Exists(p)'
               PROVE  products'[p].category = AskedFor(p)' \/ Reverted(p)'
    BY DEF RightCategory
  <2>1. products'[p].asker = products[p].asker =>
          AskedFor(p)' = AskedFor(p) /\ (Reverted(p) => Reverted(p)')
    BY <1>3, Rows, RevertedStays DEF AskedFor
  <2>2. CASE products'[p] = products[p]
    BY <2>1, <2>2 DEF CatInv, RightCategory, Exists
  <2>3. CASE Writing(r) /\ target[r] = p
    <3>1. CASE Asks(r)
      <4>1. products'[p].asker = r /\ products'[p].category = call[r].category
        BY <1>1, <2>3, <3>1, Rows, NewVersion DEF ReqInv, Settled
      <4>. QED  BY <1>3, <4>1, RequestsAssumption DEF AskedFor
    <3>2. CASE ~Asks(r)
      <4>1. /\ products'[p].asker = products[p].asker
            /\ products'[p].category = category[r]
            /\ Updating(r) /\ call[r].op = "update" /\ call[r].product = p
        BY <2>3, <3>2, NewVersion
      <4>2. CASE products[p].asker \in Requests \ before[r]
        <5> DEFINE q == products[p].asker
        <5>1. Committed(q) /\ q # r /\ ReqInv(q)
          BY <1>2, <4>2, AuthorsCommitted DEF CatInv
        <5>2. r \notin before[q]
          BY <5>1, Rows DEF ReqInv, Phase
        <5>3. Overlapped(q, r)
          BY <4>2, <5>1, <5>2 DEF Overlapped
        <5>. QED  BY <1>3, <4>1, <4>2, <5>3 DEF Reverted, Overlapped
      <4>3. CASE category[r] = AskedFor(p)
        BY <2>1, <4>1, <4>3
      <4>4. CASE Reverted(p)
        BY <2>1, <4>1, <4>4
      <4>. QED  BY <1>1, <2>3, <3>2, <4>1, <4>2, <4>3, <4>4 DEF ReqInv, Stale
    <3>. QED  BY <3>1, <3>2
  <2>. QED  BY <2>2, <2>3, Rows
<1>7. ConflictNeedsOverlap'
  <2> SUFFICES ASSUME NEW q \in Requests, outcome'[q] = "conflict"
               PROVE  LET x == maker'[call[q].category] IN
                        x \in Requests /\ outcome'[x] = "ok" /\ Overlapped(x, q)
    BY <1>3 DEF ConflictNeedsOverlap, Committed, Overlapped
  <2> DEFINE x == maker[call[q].category]
  <2>1. q # r /\ outcome[q] = "conflict"
    BY Rows DEF Others
  <2>2. x \in Requests /\ Committed(x) /\ Overlapped(x, q)
    BY <2>1 DEF CatInv, ConflictNeedsOverlap
  <2>3. call[q].category \in Categories
    BY <2>1 DEF CatInv, ReqInv, Phase
  <2>4. call[q].category # making[r]
    BY <1>1, <2>2, <2>3, CategoriesAssumption, RequestsAssumption DEF ReqInv, Name
  <2>5. maker'[call[q].category] = x
    BY <2>3, <2>4, Rows
  <2>. QED  BY <1>2, <2>2, <2>5 DEF Committed
<1>8. RowsCoverBranches'
  <2> SUFFICES ASSUME NEW p \in Ids, products'[p].creator \in Requests
               PROVE  /\ Known(products'[p].creator) \subseteq products'[p].carried
                      /\ \A b \in products'[p].carried : Open(b)
    BY <1>3 DEF RowsCoverBranches, Known, Open
  <2>1. products[p].creator \in Requests =>
          /\ Known(products[p].creator) \subseteq products[p].carried
          /\ \A b \in products[p].carried : Open(b)
    BY DEF CatInv, RowsCoverBranches, Known
  <2>2. Creating(r) =>
          Known(r) \subseteq draft[r].carried /\ \A b \in draft[r].carried : Open(b)
    BY <1>1 DEF ReqInv, Covered
  <2>3. CASE products'[p] = products[p]
    BY <2>1, <2>3
  <2>4. CASE Writing(r) /\ target[r] = p
    BY <2>1, <2>2, <2>4, NewVersion
  <2>. QED  BY <2>3, <2>4, Rows
<1>9. EveryChangeIsTold'
  <2> SUFFICES ASSUME NEW p \in Ids, NEW b \in products'[p].carried,
                      products'[p].writer \in Requests,
                      products'[p].writer # products'[p].creator
               PROVE  [by |-> products'[p].writer, product |-> p, branch |-> b,
                       type |-> "meta"] \in events'
    BY DEF EveryChangeIsTold
  <2>1. products'[p].carried = products[p].carried /\ products'[p].writer = products[p].writer
          /\ products'[p].creator = products[p].creator =>
          [by |-> products'[p].writer, product |-> p, branch |-> b, type |-> "meta"] \in events
    BY DEF CatInv, EveryChangeIsTold
  <2>2. events \subseteq events' /\ posted[r] \subseteq events'
    BY Rows
  <2>3. CASE products'[p] = products[p]
    BY <2>1, <2>2, <2>3
  <2>4. CASE Writing(r) /\ target[r] = p
    <3>1. CASE TellsMeta(r) /\ call[r].op = "update"
      <4>1. products'[p].writer = r /\ products'[p].carried = products[p].carried
        BY <2>4, <3>1, NewVersion
      <4>2. [by |-> r, product |-> p, branch |-> b, type |-> "meta"] \in posted[r]
        BY <1>1, <2>4, <3>1, <4>1, Rows DEF ReqInv, Told
      <4>. QED  BY <2>2, <4>1, <4>2
    <3>2. CASE ~(TellsMeta(r) /\ call[r].op = "update")
      BY <2>1, <2>2, <2>4, <3>2, NewVersion
    <3>. QED  BY <3>1, <3>2
  <2>. QED  BY <2>3, <2>4, Rows
<1>10. FreshIds'
  <2> SUFFICES ASSUME NEW p \in Ids, products'[p].creator # NoRequest
               PROVE  p < nextId
    BY Rows DEF FreshIds, Exists, Ids
  <2>1. Exists(p) => p < nextId
    BY DEF CatInv, FreshIds
  <2>2. CASE products'[p] = products[p]
    BY <2>1, <2>2 DEF Exists
  <2>3. CASE Writing(r) /\ target[r] = p
    BY <2>1, <2>3, NewVersion
  <2>. QED  BY <2>2, <2>3, Rows
<1>. QED  BY <1>4, <1>5, <1>6, <1>7, <1>8, <1>9, <1>10 DEF CatInv

-----------------------------------------------------------------------------
(* The theorems.                                                           *)

LEMMA CatStep == CatInv /\ [Next]_vars => CatInv'
<1> SUFFICES ASSUME CatInv, [Next]_vars PROVE CatInv'
  OBVIOUS
<1>1. TypeOK'
  BY TypeStep
<1>2. CASE UNCHANGED vars
  BY <1>2 DEF vars, tables, open, CatInv, TypeOK, ReqInv, Phase, Name, Found, Target,
     Settled, Version, Told, Covered, Known, Stale, Updating, Creating, Active, Writing,
     Asks, TellsMeta, Exists, Open, Reverted, Committed, Overlapped, AskedFor,
     NoTraceWithoutCommit, Authors, RightCategory, ConflictNeedsOverlap,
     RowsCoverBranches, EveryChangeIsTold, FreshIds
<1>3. ASSUME NEW r \in Requests,
             BeginCreate(r) \/ ReadProduct(r) \/ Refuse(r) \/ OpenBranch(r)
               \/ Progress(r) \/ Fail(r)
      PROVE  CatInv'
  BY <1>1, <1>3, BeginCreateKeeps, ReadProductKeeps, RefuseKeeps, OpenBranchKeeps,
     NeedNoCategoryKeeps, FindCategoryKeeps, InsertCategoryKeeps, LoseCategoryKeeps,
     CreateProductKeeps, SaveProductKeeps, LeaveProductKeeps, FanOutKeeps, DetailsKeep,
     MissDetailsKeeps, CommitKeeps, FailKeeps DEF Progress
<1>. QED  BY <1>2, <1>3 DEF Next

LEMMA CatInvariant == Spec => []CatInv
<1>1. Init => CatInv
  BY InitEstablishes
<1>2. CatInv /\ [Next]_vars => CatInv'
  BY CatStep
<1>. QED  BY <1>1, <1>2, PTL DEF Spec

\* Every variable of the catalog's requests and tables keeps to its type.
THEOREM CatalogTypeCorrect == Spec => []TypeOK
<1>1. CatInv => TypeOK
  BY DEF CatInv
<1>. QED  BY <1>1, CatInvariant, PTL

\* A create or update that is rolled back, for its branch row, its category
\* name or a failure, has shown nothing of what it did to anybody.
THEOREM UncommittedLeavesNoTrace == Spec => []NoTraceWithoutCommit
<1>1. CatInv => NoTraceWithoutCommit
  BY DEF CatInv
<1>. QED  BY <1>1, CatInvariant, PTL

\* A product's category is the one last asked for, unless two updates of it
\* overlapped and one wrote the category back that it had read.
THEOREM CategoryStays == Spec => []CategoryLossNeedsOverlap
<1>1. CatInv => CategoryLossNeedsOverlap
  BY DEF CatInv, RightCategory, CategoryLossNeedsOverlap, Reverted
<1>. QED  BY <1>1, CatInvariant, PTL

\* A 409 for a category's name has an overlapping call to blame.
THEOREM ConflictsHaveAWinner == Spec => []ConflictNeedsOverlap
<1>1. CatInv => ConflictNeedsOverlap
  BY DEF CatInv
<1>. QED  BY <1>1, CatInvariant, PTL

\* A new product has a row for each branch that was there when the call came,
\* and none for a branch that is not.
THEOREM NewProductsAreCarried == Spec => []RowsCoverBranches
<1>1. CatInv => RowsCoverBranches
  BY DEF CatInv
<1>. QED  BY <1>1, CatInvariant, PTL

\* Whoever's name or image a product has, every branch that carries it has an
\* event of that change.
THEOREM ChangesAreTold == Spec => []EveryChangeIsTold
<1>1. CatInv => EveryChangeIsTold
  BY DEF CatInv
<1>. QED  BY <1>1, CatInvariant, PTL
-----------------------------------------------------------------------------
(* The catalog implements CatalogBook.  What that takes apart from CatInv: *)
(* a request holds exactly what the book writes for its call.              *)

\* The name it asks for is inserted by it, or was there.
Named(r) ==
  /\ pc[r] \in {"open", "inserting"} => making[r] = NoCategory
  /\ pc[r] \in {"resolved", "saved", "told", "detailed"} =>
       IF call[r].category \in Categories
         THEN \/ making[r] = call[r].category
              \/ making[r] = NoCategory /\ maker[call[r].category] # NoRequest
         ELSE making[r] = NoCategory

\* The product row is written if the call has something for it.
Drafted(r) ==
  call[r].op = "update" =>
    /\ pc[r] = "saved" => TouchesProduct(r)
    /\ pc[r] \in {"told", "detailed"} => (draft[r] # NoRow <=> TouchesProduct(r))

MetaEvents(r) ==
  [by : {r}, product : {call[r].product}, type : {t \in {"meta"} : TellsMeta(r)},
   branch : products[call[r].product].carried]

\* Its events are those of the book, and the branch it writes has its row.
Posted(r) ==
  /\ call[r].op = "create" => posted[r] = {}
  /\ call[r].op = "update" =>
       /\ pc[r] = "told" => posted[r] = MetaEvents(r)
       /\ pc[r] = "detailed" =>
            /\ posted[r] = Book!EventsOf(r, call[r])
            /\ TouchesBranch(r) => call[r].branch \in products[call[r].product].carried

BookInv == \A r \in Requests : Named(r) /\ Drafted(r) /\ Posted(r)

rowsNow == [p \in Ids |->
  [creator |-> products[p].creator, category |-> products[p].category,
   writer |-> products[p].writer, carried |-> products[p].carried]]
seenNow == [r \in Requests |-> Seen(r)]
stageNow == [r \in Requests |-> Stage(r)]

\* The book's words, for the states of the catalog.
LEMMA BookWords ==
  ASSUME TypeOK, NEW r \in Requests
  PROVE  /\ Book!Asks(call[r]) <=> Asks(r)
         /\ Book!Renames(call[r]) <=> TellsMeta(r)
         /\ Book!Writes(call[r]) <=> TouchesProduct(r)
         /\ Book!Details(call[r]) <=> TouchesBranch(r)
         /\ \A p \in Ids : Book!There(p) <=> Exists(p)
         /\ Book!Opened = {b \in Branches : Open(b)}
         /\ Book!Names = {c \in Categories : maker[c] # NoRequest}
  BY DEF Book!Asks, Book!Renames, Book!Writes, Book!Details, Book!There, Book!Opened,
     Book!Names, Asks, TellsMeta, TouchesProduct, TouchesBranch, Exists, Open

LEMMA BookEvents ==
  ASSUME TypeOK, NEW r \in Requests, call[r].op = "update"
  PROVE  Book!EventsOf(r, call[r]) =
           MetaEvents(r)
             \cup [by : {r}, product : {call[r].product},
                   branch : {b \in {call[r].branch} : TouchesBranch(r)},
                   type : {TypeOf(d) : d \in call[r].details}]
<1>1. call[r].product \in Ids
  BY UpdateCall
<1>2. rowsNow[call[r].product].carried = products[call[r].product].carried
  BY <1>1 DEF rowsNow
<1>. QED  BY <1>2 DEF Book!EventsOf, Book!Renames, Book!Details, MetaEvents, TellsMeta,
     TouchesBranch, TypeOf, rowsNow

-----------------------------------------------------------------------------
(* What a step leaves to the others.                                       *)

\* Only r makes anything, and a product keeps its branches.
Grows(r) ==
  /\ Others(r)
  /\ \A c \in Categories : maker'[c] = maker[c] \/ (maker[c] = NoRequest /\ maker'[c] = r)
  /\ \A b \in Branches : opener'[b] = opener[b] \/ (opener[b] = NoRequest /\ opener'[b] = r)
  /\ \A p \in Ids : Exists(p) => products'[p].carried = products[p].carried

LocalStart(r) == BeginCreate(r) \/ ReadProduct(r) \/ Refuse(r)
LocalWork(r) ==
  \/ NeedNoCategory(r) \/ FindCategory(r) \/ InsertCategory(r)
  \/ CreateProduct(r) \/ SaveProduct(r) \/ LeaveProduct(r)
  \/ FanOut(r) \/ UpdateDetails(r) \/ LeaveDetails(r)
Rollback(r) == LoseCategory(r) \/ MissDetails(r) \/ Fail(r)

LEMMA StepGrows ==
  ASSUME CatInv, NEW r \in Requests,
         LocalStart(r) \/ LocalWork(r) \/ Rollback(r) \/ OpenBranch(r) \/ Commit(r)
  PROVE  Grows(r) /\ pc[r] # "over"
<1>1. TypeOK
  BY DEF CatInv
<1>2. CASE LocalStart(r)
  <2>1. Others(r) /\ tables' = tables /\ pc[r] # "over"
    <3>1. CASE BeginCreate(r)
      BY <1>1, <3>1 DEF BeginCreate, Goto, Arrive, Others, open, TypeOK
    <3>2. CASE ReadProduct(r)
      BY <1>1, <3>2 DEF ReadProduct, Goto, Arrive, Others, TypeOK
    <3>3. CASE Refuse(r)
      BY <1>1, <3>3 DEF Refuse, Finish, Others, open, TypeOK
    <3>. QED  BY <1>2, <3>1, <3>2, <3>3 DEF LocalStart
  <2>. QED  BY <2>1 DEF Grows, tables
<1>3. CASE LocalWork(r)
  <2>1. Others(r) /\ tables' = tables /\ pc[r] # "over"
    <3>1. CASE NeedNoCategory(r)
      BY <1>1, <3>1 DEF NeedNoCategory, Goto, Others, TypeOK
    <3>2. CASE FindCategory(r)
      BY <1>1, <3>2 DEF FindCategory, Goto, Others, TypeOK
    <3>3. CASE InsertCategory(r)
      BY <1>1, <3>3 DEF InsertCategory, Goto, Others, TypeOK
    <3>4. CASE CreateProduct(r)
      BY <1>1, <3>4 DEF CreateProduct, Goto, Others, TypeOK
    <3>5. CASE SaveProduct(r)
      BY <1>1, <3>5 DEF SaveProduct, Goto, Others, TypeOK
    <3>6. CASE LeaveProduct(r) \/ LeaveDetails(r)
      BY <1>1, <3>6 DEF LeaveProduct, LeaveDetails, Goto, Others, open, TypeOK
    <3>7. CASE FanOut(r)
      BY <1>1, <3>7 DEF FanOut, Goto, Others, TypeOK
    <3>8. CASE UpdateDetails(r)
      BY <1>1, <3>8 DEF UpdateDetails, Goto, Others, TypeOK
    <3>. QED  BY <1>3, <3>1, <3>2, <3>3, <3>4, <3>5, <3>6, <3>7, <3>8 DEF LocalWork
  <2>. QED  BY <2>1 DEF Grows, tables
<1>4. CASE Rollback(r)
  <2>1. PICK what : Abort(r, what)
    BY <1>4 DEF Rollback, LoseCategory, MissDetails, Fail
  <2>2. Others(r) /\ tables' = tables
    BY <1>1, <2>1 DEF Abort, Finish, Others, TypeOK
  <2>3. pc[r] # "over"
    BY <1>4 DEF Rollback, LoseCategory, MissDetails, Fail
  <2>. QED  BY <2>2, <2>3 DEF Grows, tables
<1>5. CASE OpenBranch(r)
  <2>1. /\ Others(r) /\ products' = products /\ maker' = maker /\ pc[r] # "over"
    BY <1>1, <1>5 DEF OpenBranch, Finish, Arrive, Others, open, TypeOK
  <2>2. \A b \in Branches : opener'[b] = opener[b] \/ (opener[b] = NoRequest /\ opener'[b] = r)
    BY <1>1, <1>5 DEF OpenBranch, Open, TypeOK
  <2>. QED  BY <2>1, <2>2 DEF Grows
<1>6. CASE Commit(r)
  <2>1. \A c \in Categories : maker'[c] = maker[c] \/ (maker[c] = NoRequest /\ maker'[c] = r)
    BY <1>6, CategoriesAssumption, Rows DEF CatInv, ReqInv, Name
  <2>2. ASSUME NEW p \in Ids, Exists(p) PROVE products'[p].carried = products[p].carried
    <3>1. CASE products'[p] = products[p]
      BY <3>1
    <3>2. CASE Writing(r) /\ target[r] = p
      BY <1>6, <2>2, <3>2, NewVersion
    <3>. QED  BY <1>6, <3>1, <3>2, Rows
  <2>. QED  BY <1>6, <2>1, <2>2, Rows DEF Grows
<1>. QED  BY <1>2, <1>3, <1>4, <1>5, <1>6

LEMMA OthersHold ==
  ASSUME CatInv, BookInv, NEW r \in Requests, Grows(r), NEW q \in Requests, q # r
  PROVE  Named(q)' /\ Drafted(q)' /\ Posted(q)'
<1>1. TypeOK /\ ReqInv(q) /\ Named(q) /\ Drafted(q) /\ Posted(q)
  BY DEF CatInv, BookInv
<1>2. /\ pc'[q] = pc[q] /\ making'[q] = making[q] /\ draft'[q] = draft[q]
      /\ posted'[q] = posted[q] /\ call' = call
  BY DEF Grows, Others
<1>3. Named(q)'
  BY <1>1, <1>2, RequestsAssumption DEF Named, Grows
<1>4. Drafted(q)'
  BY <1>1, <1>2 DEF Drafted, TouchesProduct, Asks
<1>5. Posted(q)'
  <2>1. CASE call[q].op # "update" \/ pc[q] \notin {"told", "detailed"}
    BY <1>1, <1>2, <2>1 DEF Posted
  <2>2. CASE call[q].op = "update" /\ pc[q] \in {"told", "detailed"}
    <3>1. call[q].product \in Ids /\ Exists(call[q].product)
      BY <1>1, <2>2, UpdateCall DEF ReqInv, Target, Updating, Active
    <3>2. products'[call[q].product].carried = products[call[q].product].carried
      BY <3>1 DEF Grows
    <3>3. MetaEvents(q)' = MetaEvents(q)
      BY <1>2, <3>2 DEF MetaEvents, TellsMeta
    <3>4. Book!EventsOf(q, call[q])' = Book!EventsOf(q, call[q])
      BY <1>2, <3>1, <3>2 DEF Book!EventsOf, Book!Renames, Book!Details
    <3>. QED  BY <1>1, <1>2, <3>2, <3>3, <3>4 DEF Posted, TouchesBranch
  <2>. QED  BY <2>1, <2>2
<1>. QED  BY <1>3, <1>4, <1>5

LEMMA OthersSee ==
  ASSUME CatInv, NEW r \in Requests, Grows(r), pc[r] # "over", NEW q \in Requests, q # r
  PROVE  Seen(q)' = Seen(q)
<1>1. /\ pc'[q] = pc[q] /\ category'[q] = category[q] /\ before'[q] = before[q]
      /\ call' = call
  BY DEF Grows, Others
<1>2. r \notin before[q] /\ NoRequest \notin before[q]
  BY RequestsAssumption DEF CatInv, TypeOK, ReqInv, Phase
<1>3. {b \in Branches : opener'[b] \in {Seed} \cup before[q]}
        = {b \in Branches : opener[b] \in {Seed} \cup before[q]}
  BY <1>2, RequestsAssumption DEF Grows
<1>4. {c \in Categories : maker'[c] \in {Seed} \cup before[q]}
        = {c \in Categories : maker[c] \in {Seed} \cup before[q]}
  BY <1>2, RequestsAssumption DEF Grows
<1>. QED  BY <1>1, <1>3, <1>4 DEF Seen, Asks
\* What a step does to what its own request holds.
LEMMA StartHolds ==
  ASSUME CatInv, BookInv, NEW r \in Requests, LocalStart(r)
  PROVE  Named(r)' /\ Drafted(r)' /\ Posted(r)'
<1>1. TypeOK /\ ReqInv(r) /\ Posted(r)
  BY DEF CatInv, BookInv
<1>2. /\ pc[r] = "idle" /\ pc'[r] \in {"open", "over"} /\ call' = call
      /\ making'[r] = making[r] /\ posted'[r] = posted[r]
  BY <1>1 DEF LocalStart, BeginCreate, ReadProduct, Refuse, Goto, Finish, open, TypeOK
<1>3. making[r] = NoCategory
  BY <1>1, <1>2 DEF ReqInv, Phase, Active
<1>. QED  BY <1>1, <1>2, <1>3 DEF Named, Drafted, Posted

LEMMA EndHolds ==
  ASSUME CatInv, BookInv, NEW r \in Requests, Rollback(r) \/ OpenBranch(r) \/ Commit(r)
  PROVE  Named(r)' /\ Drafted(r)' /\ Posted(r)'
<1>1. TypeOK /\ Posted(r)
  BY DEF CatInv, BookInv
<1>2. pc'[r] = "over" /\ call' = call /\ posted'[r] \in {{}, posted[r]}
  <2>1. CASE Rollback(r)
    <3>1. PICK what : Abort(r, what)
      BY <2>1 DEF Rollback, LoseCategory, MissDetails, Fail
    <3>. QED  BY <1>1, <3>1 DEF Abort, Finish, TypeOK
  <2>2. CASE OpenBranch(r)
    BY <1>1, <2>2 DEF OpenBranch, Finish, open, TypeOK
  <2>3. CASE Commit(r)
    BY <2>3, Rows
  <2>. QED  BY <2>1, <2>2, <2>3
<1>. QED  BY <1>1, <1>2 DEF Named, Drafted, Posted

LEMMA ResolvingHolds ==
  ASSUME CatInv, BookInv, NEW r \in Requests,
         NeedNoCategory(r) \/ FindCategory(r) \/ InsertCategory(r)
  PROVE  Named(r)' /\ Drafted(r)' /\ Posted(r)'
<1>1. TypeOK /\ ReqInv(r) /\ Named(r) /\ Posted(r)
  BY DEF CatInv, BookInv
<1>2. /\ pc[r] \in {"open", "inserting"} /\ pc'[r] \in {"inserting", "resolved"}
      /\ call' = call /\ maker' = maker /\ posted' = posted
  BY <1>1 DEF NeedNoCategory, FindCategory, InsertCategory, Goto, tables, TypeOK
<1>3. Drafted(r)' /\ Posted(r)'
  BY <1>1, <1>2 DEF Drafted, Posted
<1>4. CASE NeedNoCategory(r)
  <2>1. /\ pc[r] = "open" /\ pc'[r] = "resolved" /\ making' = making
        /\ call[r].category \notin Categories
    BY <1>1, <1>4, CategoriesAssumption DEF NeedNoCategory, Goto, TypeOK
  <2>. QED  BY <1>1, <1>2, <1>3, <2>1 DEF Named
<1>5. CASE FindCategory(r)
  <2>1. /\ pc[r] = "open" /\ making' = making /\ call[r].category \in Categories
        /\ \/ pc'[r] = "inserting"
           \/ pc'[r] = "resolved" /\ maker[call[r].category] # NoRequest
    BY <1>1, <1>5 DEF FindCategory, Goto, TypeOK
  <2>. QED  BY <1>1, <1>2, <1>3, <2>1 DEF Named
<1>6. CASE InsertCategory(r)
  <2>1. /\ pc[r] = "inserting" /\ pc'[r] = "resolved" /\ making'[r] = call[r].category
    BY <1>1, <1>6 DEF InsertCategory, Goto, TypeOK
  <2>2. call[r].category \in Categories
    BY <1>1, <2>1 DEF ReqInv, Found
  <2>. QED  BY <1>2, <1>3, <2>1, <2>2 DEF Named
<1>. QED  BY <1>3, <1>4, <1>5, <1>6

LEMMA WritingHolds ==
  ASSUME CatInv, BookInv, NEW r \in Requests,
         CreateProduct(r) \/ SaveProduct(r) \/ LeaveProduct(r)
  PROVE  Named(r)' /\ Drafted(r)' /\ Posted(r)'
<1>1. TypeOK /\ ReqInv(r) /\ Named(r) /\ Posted(r)
  BY DEF CatInv, BookInv
<1>2. /\ pc[r] = "resolved" /\ call' = call /\ maker' = maker /\ making' = making
      /\ posted' = posted
      /\ \/ call[r].op = "create" /\ pc'[r] = "detailed"
         \/ call[r].op = "update" /\ pc'[r] = "saved" /\ TouchesProduct(r)
         \/ /\ call[r].op = "update" /\ pc'[r] = "told" /\ ~TouchesProduct(r)
            /\ draft' = draft /\ products' = products
  <2>1. CASE CreateProduct(r)
    BY <1>1, <2>1 DEF CreateProduct, Goto, tables, TypeOK
  <2>2. CASE SaveProduct(r)
    BY <1>1, <2>2 DEF SaveProduct, Goto, tables, TypeOK
  <2>3. CASE LeaveProduct(r)
    BY <1>1, <2>3 DEF LeaveProduct, Goto, tables, open, TypeOK
  <2>. QED  BY <2>1, <2>2, <2>3
<1>3. draft[r] = NoRow /\ posted[r] = {}
  BY <1>1, <1>2 DEF ReqInv, Phase
<1>4. Named(r)'
  BY <1>1, <1>2 DEF Named
<1>5. Drafted(r)'
  BY <1>2, <1>3 DEF Drafted, TouchesProduct, Asks
<1>6. Posted(r)'
  <2>1. ~TouchesProduct(r) => MetaEvents(r) = {}
    BY DEF TouchesProduct, MetaEvents, TellsMeta
  <2>2. products' = products => MetaEvents(r)' = MetaEvents(r)
    BY <1>2 DEF MetaEvents, TellsMeta
  <2>. QED  BY <1>2, <1>3, <2>1, <2>2 DEF Posted
<1>. QED  BY <1>4, <1>5, <1>6

LEMMA TellingHolds ==
  ASSUME CatInv, BookInv, NEW r \in Requests,
         FanOut(r) \/ UpdateDetails(r) \/ LeaveDetails(r)
  PROVE  Named(r)' /\ Drafted(r)' /\ Posted(r)'
<1>1. TypeOK /\ ReqInv(r) /\ Named(r) /\ Drafted(r) /\ Posted(r)
  BY DEF CatInv, BookInv
<1>2. /\ pc[r] \in {"saved", "told"} /\ call' = call /\ maker' = maker
      /\ making' = making /\ draft' = draft /\ products' = products
      /\ FanOut(r) => pc[r] = "saved" /\ pc'[r] = "told"
      /\ UpdateDetails(r) \/ LeaveDetails(r) => pc[r] = "told" /\ pc'[r] = "detailed"
  BY <1>1 DEF FanOut, UpdateDetails, LeaveDetails, Goto, tables, open, TypeOK
<1>3. call[r].op = "update" /\ target[r] = call[r].product
  BY <1>1, <1>2, CallKinds DEF ReqInv, Phase, Target, Updating, Active
<1>4. Named(r)'
  BY <1>1, <1>2 DEF Named
<1>5. Drafted(r)'
  BY <1>1, <1>2, <1>3 DEF ReqInv, Phase, Drafted, TouchesProduct, Asks
<1>6. MetaEvents(r)' = MetaEvents(r)
  BY <1>2 DEF MetaEvents, TellsMeta
<1>7. Posted(r)'
  <2>1. CASE FanOut(r)
    <3>1. posted'[r] = IF TellsMeta(r)
                         THEN {EventOf(r, b, "meta") : b \in products[target[r]].carried}
                         ELSE {}
      BY <1>1, <2>1 DEF FanOut, TypeOK
    <3>2. ASSUME TellsMeta(r) PROVE posted'[r] = MetaEvents(r)
      <4> DEFINE here == products[call[r].product].carried
                 sent == {EventOf(r, b, "meta") : b \in here}
      <4>1. sent = MetaEvents(r)
        <5>1. \A e \in sent : e \in MetaEvents(r)
          BY <1>3, <3>2 DEF MetaEvents, EventOf
        <5>2. ASSUME NEW e \in MetaEvents(r) PROVE e \in sent
          <6>1. e.branch \in here /\ e = EventOf(r, e.branch, "meta")
            BY <1>3 DEF MetaEvents, EventOf
          <6>. QED  BY <6>1
        <5>. QED  BY <5>1, <5>2
      <4>. QED  BY <1>3, <3>1, <3>2, <4>1
    <3>3. ASSUME ~TellsMeta(r) PROVE posted'[r] = MetaEvents(r)
      BY <3>1, <3>3 DEF MetaEvents
    <3>4. posted'[r] = MetaEvents(r)
      BY <3>2, <3>3
    <3>. QED  BY <1>2, <1>3, <1>6, <2>1, <3>4 DEF Posted
  <2>2. CASE UpdateDetails(r)
    <3>1. posted'[r] = posted[r] \cup
            {EventOf(r, call[r].branch, TypeOf(d)) : d \in call[r].details}
      BY <1>1, <2>2 DEF UpdateDetails, TypeOK
    <3>2. TouchesBranch(r) /\ call[r].branch \in products[call[r].product].carried
      BY <1>3, <2>2 DEF UpdateDetails
    <3>3. posted'[r] = Book!EventsOf(r, call[r])
      BY <1>1, <1>2, <1>3, <2>2, <3>1, <3>2, BookEvents DEF Posted, EventOf
    <3>. QED  BY <1>2, <1>3, <2>2, <3>2, <3>3
         DEF Posted, Book!EventsOf, Book!Renames, Book!Details, TouchesBranch
  <2>3. CASE LeaveDetails(r)
    <3>1. posted' = posted /\ ~TouchesBranch(r)
      BY <2>3 DEF LeaveDetails, open
    <3>2. posted'[r] = Book!EventsOf(r, call[r])
      BY <1>1, <1>2, <1>3, <2>3, <3>1, BookEvents DEF Posted
    <3>. QED  BY <1>2, <1>3, <2>3, <3>1, <3>2
         DEF Posted, Book!EventsOf, Book!Renames, Book!Details, TouchesBranch
  <2>. QED  BY <2>1, <2>2, <2>3
<1>. QED  BY <1>4, <1>5, <1>7

LEMMA BookHolds == CatInv /\ BookInv /\ [Next]_vars => BookInv'
<1> SUFFICES ASSUME CatInv, BookInv, [Next]_vars PROVE BookInv'
  OBVIOUS
<1>1. CASE UNCHANGED vars
  <2>1. /\ products' = products /\ maker' = maker /\ call' = call /\ pc' = pc
        /\ making' = making /\ draft' = draft /\ posted' = posted
    BY <1>1 DEF vars, tables, open
  <2>2. ASSUME NEW r \in Requests
        PROVE  Named(r)' /\ Drafted(r)' /\ Posted(r)'
    <3>1. Named(r) /\ Drafted(r) /\ Posted(r)
      BY DEF BookInv
    <3>2. MetaEvents(r)' = MetaEvents(r)
      BY <2>1 DEF MetaEvents, TellsMeta
    <3>3. Book!EventsOf(r, call[r])' = Book!EventsOf(r, call[r])
      BY <2>1 DEF Book!EventsOf, Book!Renames, Book!Details
    <3>. QED  BY <2>1, <3>1, <3>2, <3>3 DEF Named, Drafted, Posted, TouchesProduct,
         TouchesBranch, Asks
  <2>. QED  BY <2>2 DEF BookInv
<1>2. CASE Next
  <2>1. PICK r \in Requests :
          LocalStart(r) \/ LocalWork(r) \/ Rollback(r) \/ OpenBranch(r) \/ Commit(r)
    BY <1>2 DEF Next, Progress, LocalStart, LocalWork, Rollback
  <2>2. Named(r)' /\ Drafted(r)' /\ Posted(r)'
    BY <2>1, StartHolds, EndHolds, ResolvingHolds, WritingHolds, TellingHolds
       DEF LocalWork
  <2>3. \A q \in Requests : q # r => Named(q)' /\ Drafted(q)' /\ Posted(q)'
    BY <2>1, StepGrows, OthersHold
  <2>. QED  BY <2>2, <2>3 DEF BookInv
<1>. QED  BY <1>1, <1>2
-----------------------------------------------------------------------------
(* The steps of Catalog as steps of CatalogBook.                           *)

LEMMA SeenShape ==
  ASSUME NEW r \in Requests
  PROVE  /\ Active(r) =>
              seenNow[r] = [
                category |-> IF call[r].op = "update" /\ ~Asks(r) THEN category[r]
                                                                  ELSE NoCategory,
                branches |-> {b \in Branches : opener[b] \in {Seed} \cup before[r]},
                names |-> {c \in Categories : maker[c] \in {Seed} \cup before[r]}]
         /\ ~Active(r) => seenNow[r] = Book!Nothing
  BY DEF seenNow, Seen, Active, Book!Nothing

LEMMA NowStep ==
  ASSUME CatInv, NEW r \in Requests, Grows(r), pc[r] # "over"
  PROVE  /\ seenNow' = [seenNow EXCEPT ![r] = Seen(r)']
         /\ stageNow' = [stageNow EXCEPT ![r] = Stage(r)']
         /\ stageNow[r] = IF pc[r] = "idle" THEN "new" ELSE "begun"
         /\ call' = call
<1>1. \A q \in Requests : q # r => Seen(q)' = Seen(q) /\ Stage(q)' = Stage(q)
  BY OthersSee DEF Grows, Others, Stage
<1>3. stageNow[r] = IF pc[r] = "idle" THEN "new" ELSE "begun"
  BY DEF stageNow, Stage
<1>4. seenNow' = [seenNow EXCEPT ![r] = Seen(r)']
  BY <1>1 DEF seenNow
<1>5. stageNow' = [stageNow EXCEPT ![r] = Stage(r)']
  BY <1>1 DEF stageNow
<1>. QED  BY <1>3, <1>4, <1>5 DEF Grows, Others

LEMMA EndSettles ==
  ASSUME CatInv, NEW r \in Requests, Grows(r), pc[r] # "over", pc'[r] = "over",
         NEW how, Stage(r)' = how
  PROVE  Book!Settle(r, how)
<1>1. Seen(r)' = Book!Nothing
  BY DEF Seen, Book!Nothing
<1>2. /\ seenNow' = [seenNow EXCEPT ![r] = Book!Nothing]
      /\ stageNow' = [stageNow EXCEPT ![r] = how]
      /\ stageNow[r] \in {"new", "begun"} /\ call' = call
  BY <1>1, NowStep
<1>. QED  BY <1>2 DEF Book!Settle, seenNow, stageNow

LEMMA BeginningSees ==
  ASSUME CatInv, NEW r \in Requests, BeginCreate(r) \/ ReadProduct(r)
  PROVE  Book!See(r, call[r])
<1>1. TypeOK /\ Grows(r) /\ pc[r] # "over" /\ \A q \in Requests : ReqInv(q)
  BY StepGrows DEF CatInv, LocalStart
<1>2. /\ pc[r] = "idle" /\ pc'[r] = "open" /\ outcome' = outcome /\ call' = call
      /\ tables' = tables /\ before'[r] = Over
      /\ \/ call[r].op = "create"
         \/ /\ call[r].op = "update" /\ Exists(call[r].product)
            /\ category'[r] = products[call[r].product].category
  BY <1>1 DEF BeginCreate, ReadProduct, Goto, Arrive, TypeOK
<1>3. \A a \in Makers : a \in {Seed} \cup Over <=> a = Seed \/ (a \in Requests /\ pc[a] = "over")
  BY DEF Makers, Over
<1>4. {b \in Branches : opener[b] \in {Seed} \cup Over} = Book!Opened
  <2>1. \A b \in Branches : opener[b] \in {Seed} \cup Over <=> opener[b] # NoRequest
    BY <1>1, <1>3, AuthorsCommitted, RequestsAssumption DEF TypeOK, Makers
  <2>. QED  BY <2>1 DEF Book!Opened
<1>5. {c \in Categories : maker[c] \in {Seed} \cup Over} = Book!Names
  <2>1. \A c \in Categories : maker[c] \in {Seed} \cup Over <=> maker[c] # NoRequest
    BY <1>1, <1>3, AuthorsCommitted, RequestsAssumption DEF TypeOK, Makers
  <2>. QED  BY <2>1 DEF Book!Names
<1>6. products' = products /\ maker' = maker /\ opener' = opener /\ events' = events
  BY <1>2 DEF tables
<1>7. Seen(r)' = [
        category |-> IF call[r].op = "update" /\ ~Asks(r)
                       THEN products[call[r].product].category ELSE NoCategory,
        branches |-> Book!Opened, names |-> Book!Names]
  BY <1>2, <1>4, <1>5, <1>6 DEF Seen, Asks
<1>8. call[r].op = "update" =>
        /\ Book!There(call[r].product)
        /\ rowsNow[call[r].product].category = products[call[r].product].category
  BY <1>1, <1>2, UpdateCall, BookWords DEF rowsNow
<1>9. seenNow' = [seenNow EXCEPT ![r] = [
        category |-> IF call[r].op = "update" /\ ~Book!Asks(call[r])
                       THEN rowsNow[call[r].product].category ELSE NoCategory,
        branches |-> Book!Opened, names |-> Book!Names]]
  BY <1>1, <1>7, <1>8, NowStep, BookWords
<1>10. rowsNow' = rowsNow
  BY <1>6 DEF rowsNow
<1>11. stageNow[r] = "new" /\ stageNow' = [stageNow EXCEPT ![r] = "begun"]
  BY <1>1, <1>2, NowStep DEF Stage
<1>. QED  BY <1>2, <1>6, <1>8, <1>9, <1>10, <1>11
     DEF Book!See, seenNow, stageNow, rowsNow

LEMMA RefusalsAbandon ==
  ASSUME CatInv, NEW r \in Requests, Refuse(r) \/ Fail(r)
  PROVE  Book!Abandon(r)
<1>1. TypeOK /\ Grows(r) /\ pc[r] # "over"
  BY StepGrows DEF CatInv, LocalStart, Rollback
<1>2. /\ pc'[r] = "over" /\ outcome'[r] \in {"refused", "error"}
      /\ tables' = tables
  BY <1>1 DEF Refuse, Fail, Abort, Finish, TypeOK
<1>3. Book!Settle(r, "abandoned")
  BY <1>1, <1>2, EndSettles DEF Stage
<1>. QED  BY <1>2, <1>3 DEF Book!Abandon, tables

LEMMA MissingIsMissing ==
  ASSUME CatInv, NEW r \in Requests, MissDetails(r)
  PROVE  Book!Miss(r, call[r])
<1>1. TypeOK /\ ReqInv(r) /\ Grows(r) /\ pc[r] # "over"
  BY StepGrows DEF CatInv, Rollback
<1>2. /\ pc[r] = "told" /\ pc'[r] = "over" /\ outcome'[r] = "not_found"
      /\ tables' = tables /\ TouchesBranch(r)
      /\ call[r].branch \notin products[target[r]].carried
  BY <1>1 DEF MissDetails, Abort, Finish, TypeOK
<1>3. call[r].op = "update" /\ Active(r)
  BY <1>1, <1>2, CallKinds DEF ReqInv, Phase, Active
<1>4. target[r] = call[r].product /\ call[r].product \in Ids
  BY <1>1, <1>3, UpdateCall DEF ReqInv, Target, Updating
<1>5. Book!Settle(r, "missing")
  BY <1>1, <1>2, EndSettles DEF Stage
<1>6. stageNow[r] = "begun"
  BY <1>2 DEF stageNow, Stage
<1>7. call[r].branch \notin rowsNow[call[r].product].carried
  BY <1>2, <1>4 DEF rowsNow
<1>. QED  BY <1>1, <1>2, <1>3, <1>5, <1>6, <1>7, BookWords
     DEF Book!Miss, tables, stageNow, rowsNow

\* A 409 is true when it is given, and was not when the call came.
LEMMA LosersLose ==
  ASSUME CatInv, NEW r \in Requests, LoseCategory(r)
  PROVE  Book!Lose(r, call[r])
<1>1. TypeOK /\ ReqInv(r) /\ Grows(r) /\ pc[r] # "over"
  BY StepGrows DEF CatInv, Rollback
<1>2. /\ pc[r] = "inserting" /\ pc'[r] = "over" /\ outcome'[r] = "conflict"
      /\ tables' = tables /\ maker[call[r].category] # NoRequest
  BY <1>1 DEF LoseCategory, Abort, Finish, TypeOK
<1>3. call[r].category \in Categories /\ maker[call[r].category] \in Requests \ before[r]
  BY <1>1, <1>2 DEF ReqInv, Found
<1>4. Book!Settle(r, "conflict")
  BY <1>1, <1>2, EndSettles DEF Stage
<1>5. stageNow[r] = "begun" /\ call[r].category \notin seenNow[r].names
  <2>1. stageNow[r] = "begun"
    BY <1>2 DEF stageNow, Stage
  <2>2. seenNow[r].names = {c \in Categories : maker[c] \in {Seed} \cup before[r]}
    BY <1>2 DEF seenNow, Seen
  <2>. QED  BY <1>3, <2>1, <2>2, RequestsAssumption
<1>6. call[r].category \in Book!Names
  BY <1>1, <1>2, <1>3, BookWords
<1>. QED  BY <1>2, <1>4, <1>5, <1>6 DEF Book!Lose, tables, seenNow, stageNow

LEMMA OpeningOpens ==
  ASSUME CatInv, NEW r \in Requests, OpenBranch(r)
  PROVE  Book!OpenBranch(r, call[r])
<1>1. TypeOK /\ Grows(r) /\ pc[r] # "over"
  BY StepGrows DEF CatInv
<1>2. /\ pc'[r] = "over" /\ outcome'[r] = "ok" /\ call[r].op = "open"
      /\ products' = products /\ maker' = maker /\ events' = events
  BY <1>1 DEF OpenBranch, Finish, TypeOK
<1>3. Book!Settle(r, "applied")
  BY <1>1, <1>2, EndSettles DEF Stage
<1>4. \E b \in Branches \ Book!Opened : opener' = [opener EXCEPT ![b] = r]
  BY DEF OpenBranch, Open, Book!Opened
<1>. QED  BY <1>2, <1>3, <1>4 DEF Book!OpenBranch
\* Nothing of a request's work is in the book before it commits.
LEMMA WorkIsUnseen ==
  ASSUME CatInv, NEW r \in Requests, LocalWork(r)
  PROVE  UNCHANGED Book!vars
<1>1. TypeOK /\ Grows(r) /\ pc[r] # "over"
  BY StepGrows DEF CatInv
<1>2. /\ pc[r] \notin {"idle", "over"} /\ pc'[r] \notin {"idle", "over"}
      /\ tables' = tables /\ call' = call /\ before' = before /\ outcome' = outcome
      /\ call[r].op = "update" /\ ~Asks(r) => category'[r] = category[r]
  <2>1. CASE NeedNoCategory(r)
    BY <1>1, <2>1 DEF NeedNoCategory, Goto, Resolved, TypeOK
  <2>2. CASE FindCategory(r)
    BY <1>1, <2>2 DEF FindCategory, Goto, Resolved, TypeOK
  <2>3. CASE InsertCategory(r)
    BY <1>1, <2>3 DEF InsertCategory, Goto, Resolved, TypeOK
  <2>4. CASE CreateProduct(r) \/ SaveProduct(r) \/ FanOut(r) \/ UpdateDetails(r)
    BY <1>1, <2>4 DEF CreateProduct, SaveProduct, FanOut, UpdateDetails, Goto, TypeOK
  <2>5. CASE LeaveProduct(r) \/ LeaveDetails(r)
    BY <1>1, <2>5 DEF LeaveProduct, LeaveDetails, Goto, open, TypeOK
  <2>. QED  BY <2>1, <2>2, <2>3, <2>4, <2>5 DEF LocalWork
<1>3. products' = products /\ maker' = maker /\ opener' = opener /\ events' = events
  BY <1>2 DEF tables
<1>4. Seen(r)' = Seen(r) /\ Stage(r)' = Stage(r)
  BY <1>2, <1>3 DEF Seen, Stage, Asks
<1>5. \A q \in Requests : Seen(q)' = Seen(q) /\ Stage(q)' = Stage(q)
  BY <1>1, <1>4, OthersSee DEF Grows, Others, Stage
<1>6. seenNow' = seenNow /\ stageNow' = stageNow
  BY <1>5 DEF seenNow, stageNow
<1>. QED  BY <1>2, <1>3, <1>6 DEF Book!vars, seenNow, stageNow

\* The name a committed call asks for is there, and it is by the call if it was
\* not there before.
LEMMA CommitNames ==
  ASSUME CatInv, BookInv, NEW r \in Requests, Commit(r)
  PROVE  Book!Name(r, call[r])
<1>1. TypeOK /\ ReqInv(r) /\ Named(r) /\ pc[r] = "detailed"
  BY DEF CatInv, BookInv, Commit
<1>2. maker' = [c \in Categories |-> IF c = making[r] THEN r ELSE maker[c]]
  BY DEF Commit
<1>3. \A c \in Categories :
        c = making[r] <=> c = call[r].category /\ maker[c] = NoRequest
  BY <1>1, CategoriesAssumption DEF Named, ReqInv, Name
<1>. QED  BY <1>2, <1>3 DEF Book!Name

LEMMA CommitSettles ==
  ASSUME CatInv, NEW r \in Requests, Commit(r)
  PROVE  /\ Book!Settle(r, "applied") /\ stageNow[r] = "begun"
         /\ Active(r) /\ call[r].op \in {"create", "update"}
<1>1. TypeOK /\ ReqInv(r) /\ Grows(r) /\ pc[r] # "over"
  BY StepGrows DEF CatInv
<1>2. pc[r] = "detailed" /\ pc'[r] = "over" /\ outcome'[r] = "ok"
  BY Rows
<1>3. Book!Settle(r, "applied")
  BY <1>1, <1>2, EndSettles DEF Stage
<1>. QED  BY <1>1, <1>2, <1>3, CallKinds DEF ReqInv, Phase, Active, stageNow, Stage

LEMMA CommitCreates ==
  ASSUME CatInv, BookInv, NEW r \in Requests, Commit(r), call[r].op = "create"
  PROVE  Book!Create(r, call[r])
<1> DEFINE c == call[r]
           p == target[r]
           S == draft[r].carried
<1>1. TypeOK /\ ReqInv(r) /\ Posted(r)
  BY DEF CatInv, BookInv
<1>2. Book!Settle(r, "applied") /\ stageNow[r] = "begun" /\ Book!Name(r, c) /\ Active(r)
  BY CommitSettles, CommitNames
<1>3. Creating(r) /\ Asks(r)
  BY <1>1, Rows, CreateCall DEF Creating
<1>4. Writing(r)
  BY <1>1, <1>3, Rows DEF ReqInv, Target, Writing
<1>5. p \in Ids /\ ~Exists(p)
  BY <1>1, <1>3, <1>4, NewVersion DEF ReqInv, Target
<1>6. /\ draft[r].creator = r /\ draft[r].writer = r
      /\ draft[r].category = c.category
  BY <1>1, <1>3, <1>4, Rows DEF ReqInv, Version, Settled
<1>7. S \in SUBSET Book!Opened
  BY <1>1, <1>3 DEF ReqInv, Covered, Open, Book!Opened, TypeOK, Row
<1>8. seenNow[r].branches \subseteq S
  <2>1. seenNow[r].branches = Known(r)
    <3>1. seenNow[r].branches = {b \in Branches : opener[b] \in {Seed} \cup before[r]}
      BY <1>2 DEF Active, seenNow, Seen
    <3>. QED  BY <3>1 DEF Known
  <2>. QED  BY <1>1, <1>3, <2>1 DEF ReqInv, Covered
<1>9. rowsNow' = [rowsNow EXCEPT ![p] =
        [creator |-> r, category |-> c.category, writer |-> r, carried |-> S]]
  <2>1. products' = [products EXCEPT ![p] = draft[r]]
    BY <1>1, <1>4, <1>5 DEF Commit, Writing, TypeOK
  <2>. QED  BY <1>1, <1>5, <1>6, <2>1 DEF rowsNow, TypeOK
<1>10. opener' = opener /\ events' = events
  BY <1>1, Rows DEF Posted
<1>11. ~Book!There(p)
  BY <1>1, <1>5, BookWords
<1>. QED  BY <1>2, <1>5, <1>7, <1>8, <1>9, <1>10, <1>11
     DEF Book!Create, stageNow, seenNow, rowsNow

LEMMA CommitUpdates ==
  ASSUME CatInv, BookInv, NEW r \in Requests, Commit(r), call[r].op = "update"
  PROVE  Book!Update(r, call[r])
<1> DEFINE c == call[r]
           p == call[r].product
           kind == IF Book!Asks(c) THEN c.category
                   ELSE IF Book!Writes(c) THEN seenNow[r].category
                   ELSE rowsNow[p].category
           by == IF Book!Renames(c) THEN r ELSE rowsNow[p].writer
           row == [creator |-> products[p].creator, category |-> kind, writer |-> by,
                   carried |-> products[p].carried]
<1>1. TypeOK /\ ReqInv(r) /\ Posted(r) /\ Drafted(r) /\ pc[r] = "detailed"
  BY DEF CatInv, BookInv, Commit
<1>2. Book!Settle(r, "applied") /\ stageNow[r] = "begun" /\ Book!Name(r, c) /\ Active(r)
  BY CommitSettles, CommitNames
<1>3. p \in Ids /\ target[r] = p
  BY <1>1, <1>2, UpdateCall DEF ReqInv, Target, Updating
<1>4. /\ rowsNow[p].creator = products[p].creator /\ rowsNow[p].category = products[p].category
      /\ rowsNow[p].writer = products[p].writer /\ rowsNow[p].carried = products[p].carried
  BY <1>3 DEF rowsNow
<1>5. ~Asks(r) => seenNow[r].category = category[r]
  BY <1>2 DEF Active, seenNow, Seen
<1>6. draft[r] # NoRow <=> TouchesProduct(r)
  BY <1>1 DEF Drafted
<1>7. rowsNow' = [rowsNow EXCEPT ![p] = row]
  <2>1. ASSUME TouchesProduct(r)
        PROVE  [creator |-> draft[r].creator, category |-> draft[r].category,
                writer |-> draft[r].writer, carried |-> draft[r].carried] = row
    <3>1. Writing(r)
      BY <1>1, <1>6, <2>1 DEF Writing
    <3>2. /\ draft[r].creator = products[p].creator /\ draft[r].carried = products[p].carried
          /\ draft[r].category = category[r]
          /\ draft[r].writer = IF TellsMeta(r) THEN r ELSE products[p].writer
      BY <1>1, <1>3, <3>1 DEF ReqInv, Version
    <3>3. Asks(r) => category[r] = c.category
      BY <1>1 DEF ReqInv, Settled
    <3>. QED  BY <1>1, <1>4, <1>5, <2>1, <3>2, <3>3, BookWords
  <2>2. ASSUME ~TouchesProduct(r)
        PROVE  rowsNow[p] = row
    <3>1. ~Asks(r) /\ ~TellsMeta(r)
      BY <2>2 DEF TouchesProduct, TellsMeta
    <3>. QED  BY <1>1, <1>3, <1>4, <2>2, <3>1, BookWords DEF rowsNow
  <2>3. products' = [q \in Ids |->
          IF q = p /\ TouchesProduct(r) THEN draft[r] ELSE products[q]]
    BY <1>3, <1>6 DEF Commit
  <2>. QED  BY <1>3, <2>1, <2>2, <2>3 DEF rowsNow
<1>8. rowsNow' = [rowsNow EXCEPT ![p].category = kind, ![p].writer = by]
  <2> HIDE DEF kind, by
  <2>1. rowsNow[p] = [creator |-> products[p].creator, category |-> products[p].category,
                      writer |-> products[p].writer, carried |-> products[p].carried]
    BY <1>3 DEF rowsNow
  <2>2. DOMAIN rowsNow = Ids /\ rowsNow = [q \in Ids |-> rowsNow[q]]
    BY DEF rowsNow
  <2>3. [rowsNow[p] EXCEPT !.category = kind, !.writer = by] = row
    <3>1. DOMAIN rowsNow[p] = {"creator", "category", "writer", "carried"}
      BY <2>1
    <3>2. [rowsNow[p] EXCEPT !.category = kind, !.writer = by] =
            [f \in DOMAIN rowsNow[p] |->
               IF f = "writer" THEN by ELSE IF f = "category" THEN kind ELSE rowsNow[p][f]]
      BY <3>1
    <3>. QED  BY <2>1, <3>1, <3>2
  <2>. QED  BY <1>3, <1>7, <2>2, <2>3
<1>9. events' = events \cup Book!EventsOf(r, c) /\ opener' = opener
  BY <1>1, Rows DEF Posted
<1>10. TouchesBranch(r) => c.branch \in rowsNow[p].carried
  BY <1>1, <1>4 DEF Posted
<1>11. Book!Details(c) => c.branch \in rowsNow[p].carried
  BY <1>1, <1>10, BookWords
<1>. QED  BY <1>2, <1>8, <1>9, <1>11
     DEF Book!Update, stageNow, seenNow, rowsNow

LEMMA BookStep == CatInv /\ BookInv /\ [Next]_vars => [Book!Next]_(Book!vars)
<1> SUFFICES ASSUME CatInv, BookInv, [Next]_vars PROVE [Book!Next]_(Book!vars)
  OBVIOUS
<1>1. CASE UNCHANGED vars
  BY <1>1 DEF vars, tables, open, Book!vars, Seen, Stage, Asks
<1>2. CASE Next
  <2>1. PICK r \in Requests :
          LocalStart(r) \/ LocalWork(r) \/ Rollback(r) \/ OpenBranch(r) \/ Commit(r)
    BY <1>2 DEF Next, Progress, LocalStart, LocalWork, Rollback
  <2>2. CASE LocalWork(r)
    BY <2>2, WorkIsUnseen
  <2>3. CASE LocalStart(r) \/ Rollback(r) \/ OpenBranch(r)
    BY <2>3, BeginningSees, RefusalsAbandon, MissingIsMissing, LosersLose, OpeningOpens
       DEF LocalStart, Rollback, Book!Next
  <2>4. CASE Commit(r)
    BY <2>4, CommitSettles, CommitCreates, CommitUpdates DEF Book!Next
  <2>. QED  BY <2>1, <2>2, <2>3, <2>4
<1>. QED  BY <1>1, <1>2

\* The transactions, the unique name and the row locks make each call one step
\* of CatalogBook or none: whatever overlaps, a call shows the whole of what it
\* did or nothing, its refusals are true, and what it saw when it began is used
\* in the three ways the book allows and in no other.
THEOREM CatalogIsBook == Spec => IsBook
<1>1. Init => CatInv /\ BookInv
  BY InitEstablishes DEF Init, BookInv, Named, Drafted, Posted
<1>2. Init => Book!Init
  <2> SUFFICES ASSUME Init PROVE Book!Init
    OBVIOUS
  <2>1. TypeOK
    BY InitType
  <2>2. rowsNow \in [Ids -> Book!Row]
    BY <2>1 DEF rowsNow, TypeOK, Row, Makers, Book!Row, Book!Makers
  <2>3. seenNow = [r \in Requests |-> Book!Nothing] /\ stageNow = [r \in Requests |-> "new"]
    BY DEF Init, seenNow, stageNow, Seen, Stage, Book!Nothing
  <2>. QED  BY <2>2, <2>3 DEF Init, Book!Init, rowsNow, seenNow, stageNow
<1>3. CatInv /\ BookInv /\ [Next]_vars => CatInv' /\ BookInv'
  BY CatStep, BookHolds
<1>4. CatInv /\ BookInv /\ [Next]_vars => [Book!Next]_(Book!vars)
  BY BookStep
<1>. QED  BY <1>1, <1>2, <1>3, <1>4, PTL DEF Spec, IsBook, Book!Spec

\* Whatever the number of calls, their locks never form a circle of waiting:
\* a call holds a branch row only when it has nothing left to wait for, a
\* product only when it waits for a branch row at most, and a category only
\* when it waits for one of these.
THEOREM LocksAreOrdered == Spec => []NoCircle
<1>1. CatInv /\ BookInv => NoCircle
  <2> SUFFICES ASSUME CatInv, BookInv, NEW S \in SUBSET Requests, S # {}
               PROVE  \E r \in S : \A q \in S : ~WaitsFor(r, q)
    BY DEF NoCircle
  <2>1. CASE \E r \in S : pc[r] \notin {"inserting", "resolved", "told"}
    <3>1. PICK r \in S : pc[r] \notin {"inserting", "resolved", "told"}
      BY <2>1
    <3>2. \A q \in S : ~WaitsFor(r, q)
      BY <3>1 DEF WaitsFor
    <3>. QED  BY <3>2
  <2>2. CASE /\ \A q \in S : pc[q] \in {"inserting", "resolved", "told"}
             /\ \E r \in S : pc[r] = "told"
    <3>1. PICK r \in S : pc[r] = "told"
      BY <2>2
    <3>2. \A q \in S : ~WaitsFor(r, q)
      BY <2>2, <3>1 DEF WaitsFor, HoldsBranch
    <3>. QED  BY <3>2
  <2>3. CASE /\ \A q \in S : pc[q] \in {"inserting", "resolved"}
             /\ \E r \in S : pc[r] = "resolved"
    <3>1. PICK r \in S : pc[r] = "resolved"
      BY <2>3
    <3>2. \A q \in S : ~WaitsFor(r, q)
      BY <2>3, <3>1 DEF WaitsFor, Writing
    <3>. QED  BY <3>2
  <2>4. CASE \A q \in S : pc[q] = "inserting"
    <3>1. \A q \in S : making[q] = NoCategory /\ call[q].category \in Categories
      BY <2>4 DEF CatInv, ReqInv, Found, BookInv, Named
    <3>. QED  BY <2>4, <3>1, CategoriesAssumption DEF WaitsFor
  <2>. QED  BY <2>1, <2>2, <2>3, <2>4
<1>2. Init => CatInv /\ BookInv
  BY InitEstablishes DEF Init, BookInv, Named, Drafted, Posted
<1>3. CatInv /\ BookInv /\ [Next]_vars => CatInv' /\ BookInv'
  BY CatStep, BookHolds
<1>. QED  BY <1>1, <1>2, <1>3, PTL DEF Spec
=============================================================================
