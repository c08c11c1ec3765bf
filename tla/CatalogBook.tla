---------------------------- MODULE CatalogBook ----------------------------
(***************************************************************************)
(* What the catalog of a restaurant promises: each call takes effect at    *)
(* one instant, with its category, its product, the rows of its branches   *)
(* and its events, or has no effect; a refusal is true when it is decided. *)
(* A call may act on what it saw when it began in three ways only: an      *)
(* update that does not mention the category writes back the one it saw, a *)
(* new product may miss the branches opened since, and a name made since   *)
(* may be refused.  Catalog implements this statement by statement.        *)
(***************************************************************************)
CONSTANTS Requests, Seed, NoRequest, Categories, NoCategory, Unsaid, Branches,
          NoBranch, Calls, Ids

VARIABLES
  plan,       \* what each call asks for
  rows,       \* of the products: who made it, its category, who wrote its
              \* name and image last, and the branches that carry it
  maker, opener, events,
  seen,       \* what a call saw when it began,
  stage       \* and whether it has begun, or how it ended

vars == <<plan, rows, maker, opener, events, seen, stage>>

Makers == Requests \cup {Seed, NoRequest}
Row == [creator : Makers, category : Categories \cup {NoCategory}, writer : Makers,
        carried : SUBSET Branches]
Nothing == [category |-> NoCategory, branches |-> {}, names |-> {}]

There(p) == rows[p].creator # NoRequest
Opened == {b \in Branches : opener[b] # NoRequest}
Names == {c \in Categories : maker[c] # NoRequest}

Asks(c) == c.category # Unsaid
Renames(c) == c.fields \cap {"name", "imageUrl"} # {}
Writes(c) == c.fields # {} \/ Asks(c)
Details(c) == c.branch # NoBranch /\ c.details # {}

Init ==
  /\ plan \in [Requests -> Calls]
  /\ rows \in [Ids -> Row]
  /\ maker \in [Categories -> {Seed, NoRequest}]
  /\ opener \in [Branches -> {Seed, NoRequest}]
  /\ events = {}
  /\ seen = [r \in Requests |-> Nothing]
  /\ stage = [r \in Requests |-> "new"]

See(r, c) ==
  /\ stage[r] = "new"
  /\ c.op = "create" \/ (c.op = "update" /\ There(c.product))
  /\ seen' = [seen EXCEPT ![r] =
       [category |->
          IF c.op = "update" /\ ~Asks(c) THEN rows[c.product].category ELSE NoCategory,
        branches |-> Opened, names |-> Names]]
  /\ stage' = [stage EXCEPT ![r] = "begun"]
  /\ UNCHANGED <<plan, rows, maker, opener, events>>

Settle(r, how) ==
  /\ stage[r] \in {"new", "begun"}
  /\ stage' = [stage EXCEPT ![r] = how]
  /\ seen' = [seen EXCEPT ![r] = Nothing]
  /\ UNCHANGED plan

OpenBranch(r, c) ==
  /\ c.op = "open"
  /\ \E b \in Branches \ Opened : opener' = [opener EXCEPT ![b] = r]
  /\ Settle(r, "applied")
  /\ UNCHANGED <<rows, maker, events>>

\* The category a call names is there from now on.
Name(r, c) ==
  maker' = [n \in Categories |->
    IF n = c.category /\ maker[n] = NoRequest THEN r ELSE maker[n]]

Create(r, c) ==
  /\ c.op = "create" /\ stage[r] = "begun"
  /\ Name(r, c)
  /\ \E p \in Ids, S \in SUBSET Opened :
       /\ ~There(p) /\ seen[r].branches \subseteq S
       /\ rows' = [rows EXCEPT ![p] =
            [creator |-> r, category |-> c.category, writer |-> r, carried |-> S]]
  /\ Settle(r, "applied")
  /\ UNCHANGED <<opener, events>>

EventsOf(r, c) ==
  [by : {r}, product : {c.product}, type : {t \in {"meta"} : Renames(c)},
   branch : rows[c.product].carried]
    \cup [by : {r}, product : {c.product}, branch : {b \in {c.branch} : Details(c)},
          type : {IF d = "isAvailable" THEN "meta" ELSE d : d \in c.details}]

Update(r, c) ==
  /\ c.op = "update" /\ stage[r] = "begun"
  /\ Details(c) => c.branch \in rows[c.product].carried
  /\ Name(r, c)
  /\ rows' = [rows EXCEPT
       ![c.product].category =
         IF Asks(c) THEN c.category ELSE IF Writes(c) THEN seen[r].category ELSE @,
       ![c.product].writer = IF Renames(c) THEN r ELSE @]
  /\ events' = events \cup EventsOf(r, c)
  /\ Settle(r, "applied")
  /\ UNCHANGED opener

\* 404: the branch does not carry the product.
Miss(r, c) ==
  /\ c.op = "update" /\ stage[r] = "begun"
  /\ Details(c) /\ c.branch \notin rows[c.product].carried
  /\ Settle(r, "missing")
  /\ UNCHANGED <<rows, maker, opener, events>>

\* 409: somebody has made the category since the call began.
Lose(r, c) ==
  /\ stage[r] = "begun" /\ c.category \in Names \ seen[r].names
  /\ Settle(r, "conflict")
  /\ UNCHANGED <<rows, maker, opener, events>>

\* Turned away before it begins, or a failure: no effect.
Abandon(r) ==
  /\ Settle(r, "abandoned")
  /\ UNCHANGED <<rows, maker, opener, events>>

Next ==
  \E r \in Requests :
    \/ See(r, plan[r]) \/ OpenBranch(r, plan[r]) \/ Create(r, plan[r])
    \/ Update(r, plan[r]) \/ Miss(r, plan[r]) \/ Lose(r, plan[r]) \/ Abandon(r)

Spec == Init /\ [][Next]_vars
=============================================================================
