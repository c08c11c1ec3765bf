------------------------------- MODULE Listing -------------------------------
(***************************************************************************)
(* The public lists: clients that read a list page by page, the response   *)
(* cache in front of it and the table behind, which changes meanwhile.     *)
(*                                                                         *)
(* A page is the rows past the cursor in the order of one column, cut at   *)
(* the limit; its cursor is the last row's key as text.  Each API process  *)
(* lets one request per cache key through to PostgreSQL and gives its      *)
(* answer to those that come meanwhile; what it stores in Redis arrives    *)
(* there later, or not at all, and stays for the time to live: nothing     *)
(* that changes the table clears it.                                       *)
(***************************************************************************)
EXTENDS Integers, FiniteSets

CONSTANTS
  Walks,       \* clients, each going through a list once
  Processes,   \* of the API
  Nobody,      \* the process of a client between two requests
  Rows,
  NoRow,
  Keys,        \* what the sort column holds
  Null,        \* a row without a key, a page without a cursor
  Printed,     \* the key that the cursor made from a key stands for
  Limit,
  Nearby,      \* whether the list is /branches/nearby
  Tables,      \* the tables the writers may produce
  TTL,
  MaxTime,     \* bounds: of the clock,
  MaxVersion,  \* of the changes of the table,
  MaxShown,    \* of how often a walk is shown a row
  MaxFaults    \* and of crashes, failed queries and failed look-ups

Row == [there : BOOLEAN, key : Keys \cup {Null}]
Cursors == Keys \cup {Null}
Orders == {"asc", "desc"}

ASSUME KeysAssumption == Keys \subseteq Int /\ Null \notin Int
ASSUME NamesAssumption == NoRow \notin Rows /\ Nobody \notin Processes
\* A number's text is exact; a Date holds the milliseconds of a timestamp.
ASSUME PrintedAssumption ==
  /\ Printed \in [Keys -> Keys]
  /\ \A k \in Keys : Printed[k] <= k /\ Printed[Printed[k]] = Printed[k]
  /\ \A j, k \in Keys : j <= k => Printed[j] <= Printed[k]
ASSUME LimitAssumption == Limit \in Nat \ {0}
ASSUME NearbyAssumption == Nearby \in BOOLEAN
ASSUME TablesAssumption == Tables \subseteq [Rows -> Row]
ASSUME BoundsAssumption ==
  TTL \in Nat \ {0} /\ MaxTime \in Nat /\ MaxVersion \in Nat /\ MaxShown \in Nat /\ MaxFaults \in Nat

VARIABLES
  table, version,
  changed,     \* the version that last changed a row
  since,       \* and when that was
  now,
  redis,       \* the entry of each cache key
  sets,        \* the SETs under way
  order,       \* sortOrder of each walk
  cursor,      \* the cursor it asks with
  pc, at,      \* where its request is, and at which process
  answer,      \* what its query has returned
  shown,       \* how often it was shown a row
  oldest,      \* the oldest version it was shown
  ends,        \* the rows that ended its pages, with the cursors made of them
  faults

data == <<table, version, changed, since>>
cache == <<redis, sets>>
walk == <<order, cursor, shown, oldest, ends>>
vars == <<data, now, cache, walk, pc, at, answer, faults>>

\* last: the row that ends a page with more behind it; end: its key.
Page == [rows : SUBSET Rows, more : BOOLEAN, last : Rows \cup {NoRow},
         end : Cursors, version : 0..MaxVersion]
NoPage == [rows |-> {}, more |-> FALSE, last |-> NoRow, end |-> Null, version |-> 0]
Slots == Orders \X Cursors

\* landed: the version of the table when the SET was executed.
Entry == [page : Page, landed : 0..MaxVersion, until : Nat]
NoEntry == [page |-> NoPage, landed |-> 0, until |-> 0]

Init ==
  /\ table \in Tables
  /\ version = 0
  /\ changed = [r \in Rows |-> 0]
  /\ since = [r \in Rows |-> 0]
  /\ now = 0
  /\ redis = [s \in Slots |-> NoEntry]
  /\ sets = {}
  /\ order \in [Walks -> Orders]
  /\ cursor = [w \in Walks |-> Null]
  /\ pc = [w \in Walks |-> "reading"]
  /\ at = [w \in Walks |-> Nobody]
  /\ answer = [w \in Walks |-> NoPage]
  /\ shown = [w \in Walks |-> [r \in Rows |-> 0]]
  /\ oldest = [w \in Walks |-> MaxVersion]
  /\ ends = [w \in Walks |-> {}]
  /\ faults = 0

-----------------------------------------------------------------------------
(* What PostgreSQL answers.                                                *)

\* Mutant: >= instead of >.
PastOrAt(d, k, c) ==
  \/ c = Null
  \/ k # Null /\ (IF d = "asc" THEN k >= c ELSE k <= c)

\* The WHERE of applyCursorPagination; a comparison with NULL is never true.
Past(d, k, c) ==
  \/ c = Null
  \/ k # Null /\ (IF d = "asc" THEN k > c ELSE k < c)

\* Its ORDER BY: PostgreSQL has NULL behind all other values.
Ahead(d, j, k) ==
  IF d = "asc"
    THEN j # Null /\ (k = Null \/ j < k)
    ELSE k # Null /\ (j = Null \/ j > k)

Matching(d, c) == {r \in Rows : table[r].there /\ Past(d, table[r].key, c)}

\* The first Limit of them; rows that tie come in any order.
FirstOf(d, M) ==
  {S \in SUBSET M : /\ Cardinality(S) = Limit
                    /\ \A r \in S, q \in M \ S : ~Ahead(d, table[q].key, table[r].key)}

LastOf(d, S) == {l \in S : \A r \in S : ~Ahead(d, table[l].key, table[r].key)}

\* LIMIT limit + 1, and buildPaginationResult of it.
PagesOf(d, c) ==
  LET M == Matching(d, c)
  IN IF Cardinality(M) <= Limit
       THEN {[rows |-> M, more |-> FALSE, last |-> NoRow, end |-> Null, version |-> version]}
       ELSE UNION {{[rows |-> S, more |-> TRUE, last |-> l, end |-> table[l].key,
                     version |-> version] : l \in LastOf(d, S)} : S \in FirstOf(d, M)}

\* nextCursor: there is none behind a last row without a key.
NextCursor(p) == IF p.end = Null THEN Null ELSE Printed[p.end]

\* One committed statement of the management routes, which may hide or move
\* several rows (a restaurant that is suspended takes its branches with it).
Write(t) ==
  /\ version < MaxVersion /\ t # table
  /\ table' = t
  /\ version' = version + 1
  /\ changed' = [r \in Rows |-> IF t[r] = table[r] THEN changed[r] ELSE version + 1]
  /\ since' = [r \in Rows |-> IF t[r] = table[r] THEN since[r] ELSE now]
  /\ UNCHANGED <<now, cache, walk, pc, at, answer, faults>>

-----------------------------------------------------------------------------
(* The response cache.                                                     *)

\* The cache key: the URL, or for nearby the rounded position alone.
Slot(w) == IF Nearby THEN <<"asc", Null>> ELSE <<order[w], cursor[w]>>

Together(v, w) == at[v] = at[w] /\ Slot(v) = Slot(w)

\* The requests that inFlightRequests holds, and those that wait for one.
Leads(w) == pc[w] \in {"querying", "answered"}
Led(w) == {v \in Walks : pc[v] = "waiting" /\ Together(v, w)}
InFlight(w) == \E v \in Walks : Leads(v) /\ Together(v, w)

\* The client is between two requests, and may go on.
Reading(w) == pc[w] = "reading" /\ \A r \in Rows : shown[w][r] < MaxShown

Leave(W) ==
  /\ at' = [w \in Walks |-> IF w \in W THEN Nobody ELSE at[w]]
  /\ answer' = [w \in Walks |-> IF w \in W THEN NoPage ELSE answer[w]]

\* The page p is the response of the requests W.
Receive(W, p) ==
  /\ shown' = [w \in Walks |-> [r \in Rows |->
       IF w \in W /\ r \in p.rows THEN shown[w][r] + 1 ELSE shown[w][r]]]
  /\ oldest' = [w \in Walks |->
       IF w \in W /\ p.version < oldest[w] THEN p.version ELSE oldest[w]]
  /\ ends' = [w \in Walks |->
       IF w \in W /\ NextCursor(p) # Null
         THEN ends[w] \cup {<<p.last, NextCursor(p)>>} ELSE ends[w]]
  /\ cursor' = [w \in Walks |->
       IF w \in W /\ NextCursor(p) # Null THEN NextCursor(p) ELSE cursor[w]]
  /\ pc' = [w \in Walks |->
       IF w \notin W THEN pc[w]
       ELSE IF NextCursor(p) # Null THEN "reading"
       ELSE IF p.more THEN "cut" ELSE "done"]
  /\ Leave(W)
  /\ UNCHANGED order

\* The requests W end with an error; the client may ask again.
Refuse(W) ==
  /\ pc' = [w \in Walks |-> IF w \in W THEN "reading" ELSE pc[w]]
  /\ Leave(W)

\* The client asks process p, and Redis executes the GET.
Hit(w, p) ==
  /\ Reading(w) /\ redis[Slot(w)] # NoEntry
  /\ Receive({w}, redis[Slot(w)].page)
  /\ UNCHANGED <<data, now, cache, faults>>

Miss(w, p) ==
  /\ Reading(w) /\ redis[Slot(w)] = NoEntry
  /\ pc' = [pc EXCEPT ![w] = "missed"]
  /\ at' = [at EXCEPT ![w] = p]
  /\ UNCHANGED <<data, now, cache, walk, answer, faults>>

\* Redis fails and the store gives nothing,
Overlook(w, p) ==
  /\ Reading(w) /\ redis[Slot(w)] # NoEntry /\ faults < MaxFaults
  /\ pc' = [pc EXCEPT ![w] = "missed"]
  /\ at' = [at EXCEPT ![w] = p]
  /\ faults' = faults + 1
  /\ UNCHANGED <<data, now, cache, walk, answer>>

\* or throws, and the handler runs outside the cache.
Bypass(w, p) ==
  /\ Reading(w) /\ faults < MaxFaults
  /\ \E page \in PagesOf(order[w], cursor[w]) : Receive({w}, page)
  /\ faults' = faults + 1
  /\ UNCHANGED <<data, now, cache>>

\* Mutant: the in-flight map is not looked at.
JoinNot(w) ==
  /\ pc[w] = "missed"
  /\ pc' = [pc EXCEPT ![w] = "querying"]
  /\ UNCHANGED <<data, now, cache, walk, at, answer, faults>>

\* Back with a miss, it joins the stream of a request under way or becomes one;
\* the entry may be there by now.
Join(w) ==
  /\ pc[w] = "missed"
  /\ pc' = [pc EXCEPT ![w] = IF InFlight(w) THEN "waiting" ELSE "querying"]
  /\ UNCHANGED <<data, now, cache, walk, at, answer, faults>>

Query(w) ==
  /\ pc[w] = "querying"
  /\ \E page \in PagesOf(order[w], cursor[w]) : answer' = [answer EXCEPT ![w] = page]
  /\ pc' = [pc EXCEPT ![w] = "answered"]
  /\ UNCHANGED <<data, now, cache, walk, at, faults>>

\* tap sends the SET and finalize clears the map before the next request runs.
Complete(w) ==
  /\ pc[w] = "answered"
  /\ sets' = sets \cup {[slot |-> Slot(w), page |-> answer[w]]}
  /\ Receive({w} \cup Led(w), answer[w])
  /\ UNCHANGED <<data, now, redis, faults>>

\* Mutant: the error reaches the leader alone.
FailQueryAlone(w) ==
  /\ pc[w] = "querying" /\ faults < MaxFaults
  /\ Refuse({w})
  /\ faults' = faults + 1
  /\ UNCHANGED <<data, now, cache, walk>>

\* The handler throws: finalize clears the map, and share passes the error on.
FailQuery(w) ==
  /\ pc[w] = "querying" /\ faults < MaxFaults
  /\ Refuse({w} \cup Led(w))
  /\ faults' = faults + 1
  /\ UNCHANGED <<data, now, cache, walk>>

\* The process dies with its map and its requests, if it has any.
Crash(p) ==
  /\ faults < MaxFaults /\ \E w \in Walks : at[w] = p
  /\ Refuse({w \in Walks : at[w] = p})
  /\ faults' = faults + 1
  /\ UNCHANGED <<data, now, cache, walk>>

\* Mutant: a SET without a time to live.
LandForGood(m) ==
  /\ redis' = [redis EXCEPT ![m.slot] =
       [page |-> m.page, landed |-> version, until |-> MaxTime + TTL + 1]]
  /\ sets' = sets \ {m}
  /\ UNCHANGED <<data, now, walk, pc, at, answer, faults>>

\* Redis executes a SET, in whatever order they come from the processes; one
\* that fails, which is only logged, stays under way for ever.
Land(m) ==
  /\ redis' = [redis EXCEPT ![m.slot] =
       [page |-> m.page, landed |-> version, until |-> now + TTL]]
  /\ sets' = sets \ {m}
  /\ UNCHANGED <<data, now, walk, pc, at, answer, faults>>

\* Time passes, and Redis drops what is out of date.
Tick ==
  /\ now < MaxTime
  /\ now' = now + 1
  /\ redis' = [s \in Slots |-> IF redis[s].until <= now + 1 THEN NoEntry ELSE redis[s]]
  /\ UNCHANGED <<data, sets, walk, pc, at, answer, faults>>

-----------------------------------------------------------------------------
Progress(w) == Join(w) \/ Query(w) \/ Complete(w)

Next ==
  \/ \E t \in Tables : Write(t)
  \/ \E w \in Walks :
       \/ \E p \in Processes : Hit(w, p) \/ Miss(w, p) \/ Overlook(w, p) \/ Bypass(w, p)
       \/ Progress(w) \/ FailQuery(w)
  \/ \E p \in Processes : Crash(p)
  \/ \E m \in sets : Land(m)
  \/ Tick

Spec == Init /\ [][Next]_vars

\* The processes go on with what they have begun and PostgreSQL answers; no
\* client has to ask for more.
Fairness == \A w \in Walks : WF_vars(Progress(w))

FairSpec == Spec /\ Fairness
-----------------------------------------------------------------------------
(* Properties.                                                             *)

\* Every variable holds a value of its kind.
TypeOK ==
  /\ table \in [Rows -> Row] /\ version \in 0..MaxVersion
  /\ changed \in [Rows -> 0..MaxVersion] /\ since \in [Rows -> Nat]
  /\ now \in Nat
  /\ redis \in [Slots -> Entry]
  /\ sets \subseteq [slot : Slots, page : Page]
  /\ order \in [Walks -> Orders] /\ cursor \in [Walks -> Cursors]
  /\ pc \in [Walks -> {"reading", "missed", "waiting", "querying", "answered",
                       "cut", "done"}]
  /\ at \in [Walks -> Processes \cup {Nobody}]
  /\ answer \in [Walks -> Page]
  /\ shown \in [Walks -> [Rows -> Nat]]
  /\ oldest \in [Walks -> 0..MaxVersion]
  /\ ends \in [Walks -> SUBSET ((Rows \cup {NoRow}) \X Keys)]
  /\ faults \in Nat

\* Not changed since the oldest version that the walk was shown.
Steady(w, r) == changed[r] <= oldest[w]

\* No page of the walk ended within what a cursor can tell apart from the row,
\* unless it ended with the row itself and the cursor is its whole key.
Clear(w, r) ==
  \A e \in ends[w] : e[2] = Printed[table[r].key] => e = <<r, table[r].key>>

Counts(w, r) == Steady(w, r) /\ table[r].key # Null

\* A walk that comes to the end of a list has been shown each of its rows
\* exactly once, whatever is inserted, hidden or moved meanwhile and however
\* old the pages are that come from the cache, unless the row changed, has no
\* key, or ties with the end of a page as far as the cursor can tell.
RowsShownOnce ==
  \A w \in Walks : pc[w] = "done" =>
    \A r \in Rows : Counts(w, r) /\ Clear(w, r) /\ table[r].there => shown[w][r] = 1

\* No page shows again what came before its cursor (applyCursorPagination:
\* "If sorting ascending, get rows GREATER than cursor"): /branches/nearby is
\* cached without the cursor and does.
NoRowTwice ==
  \A w \in Walks, r \in Rows : Counts(w, r) /\ Clear(w, r) => shown[w][r] <= 1

\* A change is hidden by the cache for longer than the time to live only if a
\* SET that was under way when it was made landed after it.
StaleEntryNeedsLateSet ==
  \A s \in Slots, r \in Rows :
    /\ redis[s] # NoEntry
    /\ redis[s].page.version < changed[r]
    /\ since[r] + TTL <= now
    => changed[r] <= redis[s].landed

\* "The shield": of the requests of one process for one key that missed, one is
\* at PostgreSQL, and every other waits for one that is.
OneQueryPerProcess ==
  /\ \A v, w \in Walks : Leads(v) /\ Leads(w) /\ Together(v, w) => v = w
  /\ \A w \in Walks : pc[w] = "waiting" => InFlight(w)

\* Every request is answered or refused, also when the one it waits for fails
\* or dies.
EveryRequestEnds ==
  \A w \in Walks :
    pc[w] \notin {"reading", "done", "cut"} ~> pc[w] \in {"reading", "done", "cut"}
=============================================================================
