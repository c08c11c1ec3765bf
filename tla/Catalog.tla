------------------------------ MODULE Catalog ------------------------------
(***************************************************************************)
(* The catalog of one restaurant: ProductService.create and update with    *)
(* the category found or created by its name, the row per branch that a    *)
(* trigger adds to a new product, and the events that tell every branch of *)
(* a new name or image.  Branches are opened at the same time.             *)
(*                                                                         *)
(* create and update run in a READ COMMITTED transaction each, but update  *)
(* reads the product before its transaction begins and writes the category *)
(* it read back with whatever it changes.  Categories are never renamed or *)
(* deleted and their names are unique, so a name stands for the id.  What  *)
(* the branch part of an update does to price and stock is in Stock.       *)
(***************************************************************************)
EXTENDS Naturals

CONSTANTS
  Requests,    \* one per HTTP request
  Seed,        \* who made what was there from the beginning
  NoRequest,   \* who made what does not exist
  Categories,  \* category names
  NoCategory,  \* category_id NULL, or a blank name
  Unsaid,      \* an update whose body has no categoryName
  Branches,    \* branch ids, opened or not
  NoBranch,    \* an update without ?branchId
  Calls,       \* what the requests may ask for
  MaxId,       \* bound: the products there ever are
  InitCategory,   \* the categories of the products there to begin with
  InitBranches    \* the branches open to begin with

Ids == 1..MaxId
Global == {"name", "description", "imageUrl"}
Local == {"price", "stock", "isAvailable"}

Call ==
  [op : {"create"}, category : Categories \cup {NoCategory}]
    \cup [op : {"update"}, product : Ids, fields : SUBSET Global,
          category : Categories \cup {NoCategory, Unsaid},
          branch : Branches \cup {NoBranch}, details : SUBSET Local]
    \cup [op : {"open"}]

ASSUME RequestsAssumption == Requests \cap {Seed, NoRequest} = {} /\ Seed # NoRequest
ASSUME CategoriesAssumption ==
  Categories \cap {NoCategory, Unsaid} = {} /\ NoCategory # Unsaid
ASSUME BranchesAssumption == InitBranches \subseteq Branches /\ NoBranch \notin Branches
ASSUME CallsAssumption == Calls \subseteq Call
ASSUME MaxIdAssumption == MaxId \in Nat
ASSUME InitCategoryAssumption ==
  \E n \in 0..MaxId : InitCategory \in [1..n -> Categories \cup {NoCategory}]

VARIABLES
  products,  \* the committed product rows, with their rows per branch
  nextId,    \* the sequence of their ids
  maker,     \* who made each category
  opener,    \* who opened each branch
  events,    \* the committed rows of the outbox
  call, pc, outcome,
  category,  \* the category a request has read, then resolved
  making,    \* the category row its transaction has inserted
  draft,     \* the version of the product row it has written,
  target,    \* and the product it is of
  posted,    \* the outbox rows it has inserted
  before     \* the requests that were over when it began

tables == <<products, maker, opener, events>>
open == <<category, making, draft, target, posted>>
vars == <<tables, nextId, call, pc, outcome, open, before>>

Makers == Requests \cup {Seed, NoRequest}
Row == [creator : Makers,            \* who inserted it
        category : Categories \cup {NoCategory},
        asker : Makers,              \* who last asked for a category,
        writer : Makers,             \* and for a name or an image
        carried : SUBSET Branches]   \* where it has product_branch_details
NoRow == [creator |-> NoRequest, category |-> NoCategory, asker |-> NoRequest,
          writer |-> NoRequest, carried |-> {}]
Event == [by : Requests, product : Ids, branch : Branches,
          type : {"meta", "price", "stock"}]

Exists(p) == products[p].creator # NoRequest
Open(b) == opener[b] # NoRequest
Over == {r \in Requests : pc[r] = "over"}

Asks(r) == call[r].category # Unsaid
TellsMeta(r) == call[r].fields \cap {"name", "imageUrl"} # {}
TouchesProduct(r) == call[r].fields # {} \/ Asks(r)
TouchesBranch(r) == call[r].branch # NoBranch /\ call[r].details # {}

Init ==
  /\ products = [p \in Ids |->
       IF p \in DOMAIN InitCategory
         THEN [creator |-> Seed, category |-> InitCategory[p], asker |-> Seed,
               writer |-> Seed, carried |-> InitBranches]
         ELSE NoRow]
  /\ nextId = CHOOSE n \in 1..(MaxId + 1) : 1..(n - 1) = DOMAIN InitCategory
  /\ maker = [c \in Categories |->
       IF \E p \in DOMAIN InitCategory : InitCategory[p] = c THEN Seed ELSE NoRequest]
  /\ opener = [b \in Branches |-> IF b \in InitBranches THEN Seed ELSE NoRequest]
  /\ events = {}
  /\ call \in [Requests -> Calls]
  /\ pc = [r \in Requests |-> "idle"]
  /\ outcome = [r \in Requests |-> "none"]
  /\ category = [r \in Requests |-> NoCategory]
  /\ making = [r \in Requests |-> NoCategory]
  /\ draft = [r \in Requests |-> NoRow]
  /\ target = [r \in Requests |-> 0]
  /\ posted = [r \in Requests |-> {}]
  /\ before = [r \in Requests |-> {}]

-----------------------------------------------------------------------------
(* Locks, and the end of a transaction.                                    *)

\* Mutant: the product is read FOR UPDATE in the transaction.
WritingSinceRead(r) ==
  /\ pc[r] \notin {"idle", "over"} /\ call[r].op = "update" /\ TouchesProduct(r)

\* An uncommitted version of a row keeps others from writing it.
Writing(r) == pc[r] \in {"saved", "told", "detailed"} /\ draft[r] # NoRow
HoldsBranch(r, p, b) ==
  /\ pc[r] = "detailed" /\ call[r].op = "update" /\ TouchesBranch(r)
  /\ target[r] = p /\ call[r].branch = b
ProductLocked(r, p) == \E q \in Requests \ {r} : Writing(q) /\ target[q] = p
BranchLocked(r, p, b) == \E q \in Requests \ {r} : HoldsBranch(q, p, b)

Finish(r, what) ==
  /\ pc' = [pc EXCEPT ![r] = "over"]
  /\ outcome' = [outcome EXCEPT ![r] = what]

Goto(r, where) ==
  /\ pc' = [pc EXCEPT ![r] = where]
  /\ UNCHANGED outcome

\* Mutant: the catch block throws without trx.rollback().
ThrowOnly(r, what) ==
  /\ outcome' = [outcome EXCEPT ![r] = what]
  /\ UNCHANGED <<pc, tables, nextId, call, open, before>>

\* trx.rollback() and throw; a sequence does not go back.
Abort(r, what) ==
  /\ Finish(r, what)
  /\ making' = [making EXCEPT ![r] = NoCategory]
  /\ draft' = [draft EXCEPT ![r] = NoRow]
  /\ posted' = [posted EXCEPT ![r] = {}]
  /\ UNCHANGED <<tables, nextId, call, category, target, before>>

-----------------------------------------------------------------------------
(* The steps of a request.                                                 *)

Arrive(r) == before' = [before EXCEPT ![r] = Over]

BeginCreate(r) ==
  /\ pc[r] = "idle" /\ call[r].op = "create"
  /\ Arrive(r)
  /\ Goto(r, "open")
  /\ UNCHANGED <<tables, nextId, call, open>>

\* findProductById, outside of the transaction that follows.
ReadProduct(r) ==
  /\ pc[r] = "idle" /\ call[r].op = "update"
  /\ Exists(call[r].product)
  /\ Arrive(r)
  /\ category' = [category EXCEPT ![r] = products[call[r].product].category]
  /\ target' = [target EXCEPT ![r] = call[r].product]
  /\ Goto(r, "open")
  /\ UNCHANGED <<tables, nextId, call, making, draft, posted>>

\* Turned away before a transaction begins: there is no such product, the
\* restaurant is not active or the caller's, or the image is not a confirmed
\* upload.
Refuse(r) ==
  /\ pc[r] = "idle"
  /\ Finish(r, "refused")
  /\ UNCHANGED <<tables, nextId, call, open, before>>

\* BranchService.create: one INSERT, which knows of no product.
OpenBranch(r) ==
  /\ pc[r] = "idle" /\ call[r].op = "open"
  /\ \E b \in Branches :
       /\ ~Open(b)
       /\ opener' = [opener EXCEPT ![b] = r]
  /\ Arrive(r)
  /\ Finish(r, "ok")
  /\ UNCHANGED <<products, maker, events, nextId, call, open>>

\* Mutant: the category an update does not mention becomes null.
ResolvedOrNull(r) == IF Asks(r) THEN call[r].category ELSE NoCategory

\* The category the call names, none for a blank name, else the one read.
Resolved(r) == IF Asks(r) THEN call[r].category ELSE category[r]

\* Nothing to look up: the name is blank or not in the body.
NeedNoCategory(r) ==
  /\ pc[r] = "open"
  /\ call[r].category \in {NoCategory, Unsaid}
  /\ category' = [category EXCEPT ![r] = Resolved(r)]
  /\ Goto(r, "resolved")
  /\ UNCHANGED <<tables, nextId, call, making, draft, target, posted, before>>

\* findByNameAndRestaurant sees what has been committed.
FindCategory(r) ==
  /\ pc[r] = "open" /\ call[r].category \in Categories
  /\ IF maker[call[r].category] = NoRequest
       THEN Goto(r, "inserting") /\ UNCHANGED category
       ELSE /\ Goto(r, "resolved")
            /\ category' = [category EXCEPT ![r] = Resolved(r)]
  /\ UNCHANGED <<tables, nextId, call, making, draft, target, posted, before>>

\* The unique index makes an INSERT wait for the transaction that has inserted
\* the same name.
NameFree(r) == \A q \in Requests \ {r} : making[q] # call[r].category

\* Mutant: createCategory called without the transaction.
InsertCategoryOutside(r) ==
  /\ pc[r] = "inserting" /\ NameFree(r)
  /\ maker[call[r].category] = NoRequest
  /\ maker' = [maker EXCEPT ![call[r].category] = r]
  /\ category' = [category EXCEPT ![r] = Resolved(r)]
  /\ Goto(r, "resolved")
  /\ UNCHANGED <<products, opener, events, nextId, call, making, draft, target,
                 posted, before>>

InsertCategory(r) ==
  /\ pc[r] = "inserting" /\ NameFree(r)
  /\ maker[call[r].category] = NoRequest
  /\ making' = [making EXCEPT ![r] = call[r].category]
  /\ category' = [category EXCEPT ![r] = Resolved(r)]
  /\ Goto(r, "resolved")
  /\ UNCHANGED <<tables, nextId, call, draft, target, posted, before>>

\* Somebody has committed the name meanwhile: unique violation, 409.
LoseCategory(r) ==
  /\ pc[r] = "inserting" /\ NameFree(r)
  /\ maker[call[r].category] # NoRequest
  /\ Abort(r, "conflict")

\* Mutant: rows for the active branches only, and a new one is inactive.
CarriedFirst == {b \in Branches : opener[b] = Seed}

\* fn_insert_product_branch_details: a row for every branch there is.
CarriedBy == {b \in Branches : Open(b)}

CreateProduct(r) ==
  /\ pc[r] = "resolved" /\ call[r].op = "create"
  /\ nextId \in Ids
  /\ target' = [target EXCEPT ![r] = nextId]
  /\ nextId' = nextId + 1
  /\ draft' = [draft EXCEPT ![r] =
       [creator |-> r, category |-> category[r], asker |-> r, writer |-> r,
        carried |-> CarriedBy]]
  /\ Goto(r, "detailed")
  /\ UNCHANGED <<tables, call, category, making, posted, before>>

\* updateProduct: its UPDATE waits for the row and then changes its newest
\* version; the category is among the columns it sets in any case.
SaveProduct(r) ==
  /\ pc[r] = "resolved" /\ call[r].op = "update" /\ TouchesProduct(r)
  /\ ~ProductLocked(r, target[r])
  /\ draft' = [draft EXCEPT ![r] =
       [products[target[r]] EXCEPT
          !.category = category[r],
          !.asker = IF Asks(r) THEN r ELSE @,
          !.writer = IF TellsMeta(r) THEN r ELSE @]]
  /\ Goto(r, "saved")
  /\ UNCHANGED <<tables, nextId, call, category, making, target, posted, before>>

LeaveProduct(r) ==
  /\ pc[r] = "resolved" /\ call[r].op = "update" /\ ~TouchesProduct(r)
  /\ Goto(r, "told")
  /\ UNCHANGED <<tables, nextId, call, open, before>>

EventOf(r, b, t) == [by |-> r, product |-> target[r], branch |-> b, type |-> t]

\* Mutant: a call that tells its own branch something tells no other.
FanOutElse(r) ==
  /\ pc[r] = "saved"
  /\ posted' = [posted EXCEPT ![r] =
       IF TellsMeta(r) /\ ~TouchesBranch(r)
         THEN {EventOf(r, b, "meta") : b \in products[target[r]].carried}
         ELSE {}]
  /\ Goto(r, "told")
  /\ UNCHANGED <<tables, nextId, call, category, making, draft, target, before>>

\* A meta event for every branch that findBranchIdsByProduct returns.
FanOut(r) ==
  /\ pc[r] = "saved"
  /\ posted' = [posted EXCEPT ![r] =
       IF TellsMeta(r)
         THEN {EventOf(r, b, "meta") : b \in products[target[r]].carried}
         ELSE {}]
  /\ Goto(r, "told")
  /\ UNCHANGED <<tables, nextId, call, category, making, draft, target, before>>

TypeOf(d) == IF d = "isAvailable" THEN "meta" ELSE d

\* updateBranchDetails and its events.
UpdateDetails(r) ==
  /\ pc[r] = "told" /\ TouchesBranch(r)
  /\ call[r].branch \in products[target[r]].carried
  /\ ~BranchLocked(r, target[r], call[r].branch)
  /\ posted' = [posted EXCEPT ![r] =
       @ \cup {EventOf(r, call[r].branch, TypeOf(d)) : d \in call[r].details}]
  /\ Goto(r, "detailed")
  /\ UNCHANGED <<tables, nextId, call, category, making, draft, target, before>>

\* No row of that branch: everything the transaction did goes.
MissDetails(r) ==
  /\ pc[r] = "told" /\ TouchesBranch(r)
  /\ call[r].branch \notin products[target[r]].carried
  /\ Abort(r, "not_found")

LeaveDetails(r) ==
  /\ pc[r] = "told" /\ ~TouchesBranch(r)
  /\ Goto(r, "detailed")
  /\ UNCHANGED <<tables, nextId, call, open, before>>

\* What the caller hears of it is not modelled: outcome is what happened.
Commit(r) ==
  /\ pc[r] = "detailed"
  /\ products' = [p \in Ids |->
       IF p = target[r] /\ draft[r] # NoRow THEN draft[r] ELSE products[p]]
  /\ maker' = [c \in Categories |-> IF c = making[r] THEN r ELSE maker[c]]
  /\ events' = events \cup posted[r]
  /\ making' = [making EXCEPT ![r] = NoCategory]
  /\ draft' = [draft EXCEPT ![r] = NoRow]
  /\ posted' = [posted EXCEPT ![r] = {}]
  /\ Finish(r, "ok")
  /\ UNCHANGED <<opener, nextId, call, category, target, before>>

\* A statement fails or the process dies, and the transaction is rolled back.
Fail(r) ==
  /\ pc[r] \notin {"idle", "over"}
  /\ Abort(r, "error")

Progress(r) ==
  \/ NeedNoCategory(r) \/ FindCategory(r) \/ InsertCategory(r) \/ LoseCategory(r)
  \/ CreateProduct(r) \/ SaveProduct(r) \/ LeaveProduct(r)
  \/ FanOut(r) \/ UpdateDetails(r) \/ MissDetails(r) \/ LeaveDetails(r)
  \/ Commit(r)

Next ==
  \E r \in Requests :
    \/ BeginCreate(r) \/ ReadProduct(r) \/ Refuse(r) \/ OpenBranch(r)
    \/ Progress(r) \/ Fail(r)

Spec == Init /\ [][Next]_vars

\* The event loop and PostgreSQL keep a request going; PostgreSQL's deadlock
\* detector is not among the steps.
FairSpec == Spec /\ \A r \in Requests : WF_vars(Progress(r))

-----------------------------------------------------------------------------
(* Properties.                                                             *)

\* Every variable holds a value of its kind.
TypeOK ==
  /\ products \in [Ids -> Row]
  /\ nextId \in 1..(MaxId + 1)
  /\ maker \in [Categories -> Makers]
  /\ opener \in [Branches -> Makers]
  /\ events \subseteq Event
  /\ call \in [Requests -> Calls]
  /\ pc \in [Requests -> {"idle", "open", "inserting", "resolved", "saved",
                          "told", "detailed", "over"}]
  /\ outcome \in [Requests -> {"none", "ok", "refused", "not_found", "conflict", "error"}]
  /\ category \in [Requests -> Categories \cup {NoCategory}]
  /\ making \in [Requests -> Categories \cup {NoCategory}]
  /\ draft \in [Requests -> Row]
  /\ target \in [Requests -> {0} \cup Ids]
  /\ posted \in [Requests -> SUBSET Event]
  /\ before \in [Requests -> SUBSET Requests]

Committed(r) == outcome[r] = "ok"
Overlapped(q, r) == q # r /\ q \notin before[r] /\ r \notin before[q]

Authors ==
  {maker[c] : c \in Categories} \cup {opener[b] : b \in Branches}
    \cup {e.by : e \in events}
    \cup (UNION {{products[p].creator, products[p].asker, products[p].writer} : p \in Ids})

\* A call that has not been committed, because it is under way, was refused on
\* its branch row or lost the race for a category, has left no category, no
\* product, no change and no event that anybody else can see.
NoTraceWithoutCommit == Authors \cap Requests \subseteq {r \in Requests : Committed(r)}

\* The category an owner last asked for: what the row should have.
AskedFor(p) ==
  LET q == products[p].asker IN
    IF q = Seed THEN InitCategory[p] ELSE call[q].category

\* updateProduct writes the category back that was read before the transaction
\* (product.service.ts:215, 289), so an update of the name can undo another
\* request's category.  It takes two updates that overlap: with one at a time a
\* product keeps the category last asked for.
CategoryLossNeedsOverlap ==
  \A p \in Ids :
    Exists(p) /\ products[p].category # AskedFor(p) =>
      products[p].asker \in Requests /\ \E r \in Requests :
        /\ Committed(r) /\ call[r].op = "update" /\ call[r].product = p
        /\ Overlapped(products[p].asker, r)

\* A call is refused with 409 for the name of a category only if another call
\* made that category while it ran: a retry finds it.
ConflictNeedsOverlap ==
  \A r \in Requests :
    outcome[r] = "conflict" =>
      LET q == maker[call[r].category] IN
        q \in Requests /\ Committed(q) /\ Overlapped(q, r)

\* The trigger runs in the middle of a transaction, with branches being opened
\* around it: no branch that was open when the call came is without a row, and
\* no row is of a branch that is not there.
RowsCoverBranches ==
  \A p \in Ids :
    LET q == products[p].creator
        known == {b \in Branches : opener[b] = Seed \/ opener[b] \in before[q]} IN
      q \in Requests =>
        /\ known \subseteq products[p].carried
        /\ \A b \in products[p].carried : Open(b)

\* The order service caches name and image per branch and drops them on a meta
\* event: whoever's name or image a product has, each branch that carries it
\* has been sent an event of that change.
EveryChangeIsTold ==
  \A p \in Ids :
    LET w == products[p].writer IN
      w \in Requests /\ w # products[p].creator =>
        \A b \in products[p].carried :
          [by |-> w, product |-> p, branch |-> b, type |-> "meta"] \in events

\* What a call saw when it began, and how far it is.
Seen(r) ==
  IF pc[r] \in {"idle", "over"}
    THEN [category |-> NoCategory, branches |-> {}, names |-> {}]
    ELSE [category |-> IF call[r].op = "update" /\ ~Asks(r) THEN category[r] ELSE NoCategory,
          branches |-> {b \in Branches : opener[b] \in {Seed} \cup before[r]},
          names |-> {c \in Categories : maker[c] \in {Seed} \cup before[r]}]
Stage(r) ==
  CASE pc[r] = "idle" -> "new"
    [] pc[r] # "over" /\ pc[r] # "idle" -> "begun"
    [] pc[r] = "over" /\ outcome[r] = "ok" -> "applied"
    [] pc[r] = "over" /\ outcome[r] = "not_found" -> "missing"
    [] pc[r] = "over" /\ outcome[r] = "conflict" -> "conflict"
    [] OTHER -> "abandoned"

Book == INSTANCE CatalogBook WITH
  plan <- call,
  rows <- [p \in Ids |->
    [creator |-> products[p].creator, category |-> products[p].category,
     writer |-> products[p].writer, carried |-> products[p].carried]],
  seen <- [r \in Requests |-> Seen(r)],
  stage <- [r \in Requests |-> Stage(r)]

\* Three statements and a trigger after a read outside of the transaction:
\* still each call is one step of the book, or none, with what it had seen
\* used in the three ways the book allows and in no other.
IsBook == Book!Spec

\* r waits for the end of q's transaction, which has inserted the category r
\* inserts, or has written the product or the branch row r is about to write.
WaitsFor(r, q) ==
  /\ q # r
  /\ \/ pc[r] = "inserting" /\ making[q] = call[r].category
     \/ /\ pc[r] = "resolved" /\ call[r].op = "update" /\ TouchesProduct(r)
        /\ Writing(q) /\ target[q] = target[r]
     \/ /\ pc[r] = "told" /\ TouchesBranch(r)
        /\ HoldsBranch(q, target[r], call[r].branch)

\* A call locks a category, a product and a branch row as it comes to them and
\* waits with those it has.  Yet calls never wait in a circle: among any of
\* them there is one that waits for none of the others.
NoCircle ==
  \A S \in (SUBSET Requests) \ {{}} : \E r \in S : \A q \in S : ~WaitsFor(r, q)

\* Category, product and branch row are locked in this order by every call, so
\* no two wait for each other and each call ends without a deadlock victim.
EveryCallEnds == \A r \in Requests : pc[r] # "idle" ~> pc[r] = "over"
=============================================================================
