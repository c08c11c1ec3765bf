---------------------------- MODULE ListingProofs ----------------------------
(***************************************************************************)
(* Proofs about Listing, for any walks, processes, rows, tables and cursor *)
(* texts: type correctness, that every list whose cache key is its whole   *)
(* URL shows a row once, what a stale entry needs, and the shield; and at  *)
(* the end about Storefront, for any requests, restaurants, branches and   *)
(* uploads.                                                                *)
(***************************************************************************)
EXTENDS Listing, Storefront, TLAPS

\* The variables of the walks and their requests.
WalkType ==
  /\ order \in [Walks -> Orders] /\ cursor \in [Walks -> Cursors]
  /\ pc \in [Walks -> {"reading", "missed", "waiting", "querying", "answered",
                       "cut", "done"}]
  /\ at \in [Walks -> Processes \cup {Nobody}]
  /\ answer \in [Walks -> Page]
  /\ shown \in [Walks -> [Rows -> Nat]]
  /\ oldest \in [Walks -> 0..MaxVersion]
  /\ ends \in [Walks -> SUBSET ((Rows \cup {NoRow}) \X Keys)]

DataType ==
  /\ table \in [Rows -> Row] /\ version \in 0..MaxVersion
  /\ changed \in [Rows -> 0..MaxVersion] /\ since \in [Rows -> Nat]
  /\ now \in Nat /\ faults \in Nat

CacheType == redis \in [Slots -> Entry] /\ sets \subseteq [slot : Slots, page : Page]

LEMMA TypeParts == TypeOK <=> WalkType /\ DataType /\ CacheType
  BY DEF TypeOK, WalkType, DataType, CacheType

LEMMA NoPageType == NoPage \in Page /\ NoEntry \in Entry
  BY BoundsAssumption DEF NoPage, NoEntry, Page, Entry, Cursors

LEMMA SlotType ==
  ASSUME TypeOK, NEW w \in Walks
  PROVE  Slot(w) \in Slots
  BY DEF TypeOK, Slot, Slots, Orders, Cursors

LEMMA PagesAreTyped ==
  ASSUME TypeOK, NEW d, NEW c, NEW p \in PagesOf(d, c)
  PROVE  p \in Page
<1> DEFINE M == Matching(d, c)
<1>1. M \subseteq Rows
  BY DEF Matching
<1>2. CASE p = [rows |-> M, more |-> FALSE, last |-> NoRow, end |-> Null, version |-> version]
  BY <1>1, <1>2 DEF TypeOK, Page, Cursors
<1>3. CASE \E S \in FirstOf(d, M) : \E l \in LastOf(d, S) :
             p = [rows |-> S, more |-> TRUE, last |-> l, end |-> table[l].key,
                  version |-> version]
  <2>1. PICK S \in FirstOf(d, M) : \E l \in LastOf(d, S) :
               p = [rows |-> S, more |-> TRUE, last |-> l, end |-> table[l].key,
                    version |-> version]
    BY <1>3
  <2>2. PICK l \in LastOf(d, S) :
               p = [rows |-> S, more |-> TRUE, last |-> l, end |-> table[l].key,
                    version |-> version]
    BY <2>1
  <2>3. S \subseteq Rows /\ l \in Rows
    BY <1>1, <2>1, <2>2 DEF FirstOf, LastOf
  <2>4. table[l].key \in Cursors
    BY <2>3 DEF TypeOK, Row, Cursors
  <2>. QED  BY <2>2, <2>3, <2>4 DEF TypeOK, Page
<1>. QED  BY <1>2, <1>3 DEF PagesOf

LEMMA NextCursorType ==
  ASSUME NEW p \in Page
  PROVE  NextCursor(p) \in Cursors
  BY PrintedAssumption DEF NextCursor, Page, Cursors

LEMMA ReceiveKeepsType ==
  ASSUME TypeOK, NEW W, NEW p \in Page, Receive(W, p)
  PROVE  WalkType'
<1> DEFINE n == NextCursor(p)
<1>0. n \in Cursors
  BY NextCursorType
<1>1. n # Null => <<p.last, n>> \in (Rows \cup {NoRow}) \X Keys
  BY <1>0 DEF Page, Cursors
<1> HIDE DEF n
<1>2. shown' \in [Walks -> [Rows -> Nat]]
  BY DEF TypeOK, Receive
<1>3. oldest' \in [Walks -> 0..MaxVersion]
  BY DEF TypeOK, Receive, Page
<1>4. ends' \in [Walks -> SUBSET ((Rows \cup {NoRow}) \X Keys)]
  BY <1>1 DEF TypeOK, Receive, n
<1>5. cursor' \in [Walks -> Cursors]
  BY <1>0 DEF TypeOK, Receive, n
<1>6. pc' \in [Walks -> {"reading", "missed", "waiting", "querying", "answered",
                         "cut", "done"}]
  BY DEF TypeOK, Receive
<1>7. at' \in [Walks -> Processes \cup {Nobody}] /\ answer' \in [Walks -> Page]
  BY NoPageType DEF TypeOK, Receive, Leave
<1>. QED  BY <1>2, <1>3, <1>4, <1>5, <1>6, <1>7 DEF WalkType, Receive, TypeOK

LEMMA RefuseKeepsType ==
  ASSUME TypeOK, NEW W, Refuse(W), UNCHANGED walk
  PROVE  WalkType'
  BY NoPageType DEF TypeOK, WalkType, Refuse, Leave, walk

LEMMA TypeInit == Init => TypeOK
<1> SUFFICES ASSUME Init PROVE TypeOK
  OBVIOUS
<1>1. WalkType
  BY NoPageType, BoundsAssumption DEF Init, WalkType, Cursors
<1>2. DataType
  BY TablesAssumption, BoundsAssumption DEF Init, DataType
<1>3. CacheType
  BY NoPageType DEF Init, CacheType
<1>. QED  BY <1>1, <1>2, <1>3, TypeParts

LEMMA TypeStep == TypeOK /\ [Next]_vars => TypeOK'
<1> SUFFICES ASSUME TypeOK, [Next]_vars PROVE TypeOK'
  OBVIOUS
<1> USE DEF data, cache, walk
<1>0. WalkType /\ DataType /\ CacheType
  BY TypeParts
<1>1. ASSUME NEW t \in Tables, Write(t) PROVE TypeOK'
  <2>1. DataType'
    BY <1>1, TablesAssumption, BoundsAssumption DEF TypeOK, Write, DataType
  <2>. QED  BY <1>0, <1>1, <2>1 DEF Write, TypeOK, DataType, WalkType, CacheType
<1>2. ASSUME NEW w \in Walks, NEW p \in Processes, Hit(w, p) PROVE TypeOK'
  <2>1. redis[Slot(w)].page \in Page
    BY SlotType DEF TypeOK, Entry
  <2>2. WalkType'
    BY <1>2, <2>1, ReceiveKeepsType DEF Hit
  <2>. QED  BY <1>0, <1>2, <2>2 DEF Hit, TypeOK, DataType, WalkType, CacheType
<1>3. ASSUME NEW w \in Walks, NEW p \in Processes, Miss(w, p) PROVE TypeOK'
  BY <1>3 DEF Miss, TypeOK
<1>4. ASSUME NEW w \in Walks, NEW p \in Processes, Overlook(w, p) PROVE TypeOK'
  BY <1>4 DEF Overlook, TypeOK
<1>5. ASSUME NEW w \in Walks, NEW p \in Processes, Bypass(w, p) PROVE TypeOK'
  <2>1. PICK page \in PagesOf(order[w], cursor[w]) : Receive({w}, page)
    BY <1>5 DEF Bypass
  <2>2. WalkType'
    BY <2>1, PagesAreTyped, ReceiveKeepsType
  <2>. QED  BY <1>0, <1>5, <2>2 DEF Bypass, TypeOK, DataType, WalkType, CacheType
<1>6. ASSUME NEW w \in Walks, Join(w) PROVE TypeOK'
  BY <1>6 DEF Join, TypeOK
<1>7. ASSUME NEW w \in Walks, Query(w) PROVE TypeOK'
  <2>1. PICK page \in PagesOf(order[w], cursor[w]) : answer' = [answer EXCEPT ![w] = page]
    BY <1>7 DEF Query
  <2>2. answer' \in [Walks -> Page]
    BY <2>1, PagesAreTyped DEF TypeOK
  <2>. QED  BY <1>7, <2>2 DEF Query, TypeOK
<1>8. ASSUME NEW w \in Walks, Complete(w) PROVE TypeOK'
  <2>1. answer[w] \in Page
    BY DEF TypeOK
  <2>2. WalkType'
    BY <1>8, <2>1, ReceiveKeepsType DEF Complete
  <2>3. CacheType'
    BY <1>0, <1>8, <2>1, SlotType DEF Complete, CacheType
  <2>. QED  BY <1>0, <1>8, <2>2, <2>3 DEF Complete, TypeOK, DataType, WalkType, CacheType
<1>9. ASSUME NEW w \in Walks, FailQuery(w) PROVE TypeOK'
  <2>1. WalkType'
    BY <1>9, RefuseKeepsType DEF FailQuery
  <2>. QED  BY <1>0, <1>9, <2>1 DEF FailQuery, TypeOK, DataType, WalkType, CacheType
<1>10. ASSUME NEW p \in Processes, Crash(p) PROVE TypeOK'
  <2>1. WalkType'
    BY <1>10, RefuseKeepsType DEF Crash
  <2>. QED  BY <1>0, <1>10, <2>1 DEF Crash, TypeOK, DataType, WalkType, CacheType
<1>11. ASSUME NEW m \in sets, Land(m) PROVE TypeOK'
  <2>1. [page |-> m.page, landed |-> version, until |-> now + TTL] \in Entry
    BY BoundsAssumption DEF TypeOK, Entry
  <2>. QED  BY <1>11, <2>1 DEF Land, TypeOK
<1>12. CASE Tick
  BY <1>12, NoPageType DEF Tick, TypeOK
<1>13. CASE UNCHANGED vars
  BY <1>13 DEF vars, TypeOK
<1>. QED  BY <1>1, <1>2, <1>3, <1>4, <1>5, <1>6, <1>7, <1>8, <1>9, <1>10, <1>11,
             <1>12, <1>13 DEF Next, Progress

\* Every variable holds a value of its kind, in every reachable state.
THEOREM ListingTypeCorrect == Spec => []TypeOK
<1>. QED  BY TypeInit, TypeStep, PTL DEF Spec
-----------------------------------------------------------------------------
(* The shield.                                                             *)

LEMMA ShieldInit == Init => OneQueryPerProcess
  BY DEF Init, OneQueryPerProcess, Leads

\* Requests leave, every waiting one together with the request it waits for.
LEMMA ShieldLeave ==
  ASSUME TypeOK, OneQueryPerProcess, NEW W \in SUBSET Walks,
         \A v \in Walks : v \in W => ~Leads(v)' /\ pc'[v] # "waiting",
         \A v \in Walks : v \notin W =>
           pc'[v] = pc[v] /\ at'[v] = at[v] /\ cursor'[v] = cursor[v],
         order' = order,
         \A v \in Walks : v \in W /\ Leads(v) => Led(v) \subseteq W
  PROVE  OneQueryPerProcess'
<1>1. ASSUME NEW v \in Walks, v \notin W
      PROVE  (Leads(v)' <=> Leads(v)) /\ Slot(v)' = Slot(v)
  BY <1>1 DEF Leads, Slot
<1>2. ASSUME NEW v \in Walks, NEW w \in Walks, v \notin W, w \notin W
      PROVE  Together(v, w)' <=> Together(v, w)
  BY <1>1, <1>2 DEF Together
<1>3. ASSUME NEW v \in Walks, NEW w \in Walks, Leads(v)', Leads(w)', Together(v, w)'
      PROVE  v = w
  BY <1>1, <1>2, <1>3 DEF OneQueryPerProcess
<1>4. ASSUME NEW w \in Walks, pc'[w] = "waiting" PROVE InFlight(w)'
  <2>1. w \notin W /\ pc[w] = "waiting"
    BY <1>4
  <2>2. PICK v \in Walks : Leads(v) /\ Together(v, w)
    BY <2>1 DEF OneQueryPerProcess, InFlight
  <2>3. w \in Led(v)
    BY <2>1, <2>2 DEF Led, Together
  <2>4. v \notin W
    BY <2>1, <2>2, <2>3
  <2>. QED  BY <1>1, <1>2, <2>1, <2>2, <2>4 DEF InFlight
<1>. QED  BY <1>3, <1>4 DEF OneQueryPerProcess

\* Nobody leaves and nobody begins to lead or to wait.
LEMMA ShieldStay ==
  ASSUME OneQueryPerProcess, UNCHANGED <<pc, at, order, cursor>>
  PROVE  OneQueryPerProcess'
  BY DEF OneQueryPerProcess, Leads, Together, InFlight, Slot

LEMMA ShieldReceive ==
  ASSUME TypeOK, OneQueryPerProcess, NEW W \in SUBSET Walks, NEW p, Receive(W, p),
         \A v \in Walks : v \in W /\ Leads(v) => Led(v) \subseteq W
  PROVE  OneQueryPerProcess'
<1>1. \A v \in Walks : v \in W => ~Leads(v)' /\ pc'[v] # "waiting"
  BY DEF Receive, Leads
<1>2. \A v \in Walks : v \notin W =>
        pc'[v] = pc[v] /\ at'[v] = at[v] /\ cursor'[v] = cursor[v]
  BY DEF Receive, Leave
<1>. QED  BY <1>1, <1>2, ShieldLeave DEF Receive

LEMMA ShieldRefuse ==
  ASSUME TypeOK, OneQueryPerProcess, NEW W \in SUBSET Walks, Refuse(W), UNCHANGED walk,
         \A v \in Walks : v \in W /\ Leads(v) => Led(v) \subseteq W
  PROVE  OneQueryPerProcess'
<1>1. \A v \in Walks : v \in W => ~Leads(v)' /\ pc'[v] # "waiting"
  BY DEF Refuse, Leads
<1>2. \A v \in Walks : v \notin W =>
        pc'[v] = pc[v] /\ at'[v] = at[v] /\ cursor'[v] = cursor[v]
  BY DEF Refuse, Leave, walk
<1>. QED  BY <1>1, <1>2, ShieldLeave DEF walk

\* The request that leads w is the only one its followers wait for.
LEMMA LedTogether ==
  ASSUME OneQueryPerProcess, NEW w \in Walks, Leads(w),
         NEW v \in {w} \cup Led(w), Leads(v)
  PROVE  v = w
  BY DEF Led, Leads

LEMMA ShieldStep == TypeOK /\ OneQueryPerProcess /\ [Next]_vars => OneQueryPerProcess'
<1> SUFFICES ASSUME TypeOK, OneQueryPerProcess, [Next]_vars PROVE OneQueryPerProcess'
  OBVIOUS
<1> USE DEF data, cache
<1>1. ASSUME NEW w \in Walks, NEW p, Receive({w}, p), pc[w] = "reading"
      PROVE  OneQueryPerProcess'
  BY <1>1, ShieldReceive DEF Leads
<1>2. ASSUME NEW w \in Walks, NEW p \in Processes, Hit(w, p) \/ Bypass(w, p)
      PROVE  OneQueryPerProcess'
  BY <1>1, <1>2 DEF Hit, Bypass, Reading
<1>3. ASSUME NEW w \in Walks, NEW p \in Processes, Miss(w, p) \/ Overlook(w, p)
      PROVE  OneQueryPerProcess'
  <2>1. pc[w] = "reading" /\ pc' = [pc EXCEPT ![w] = "missed"]
        /\ at' = [at EXCEPT ![w] = p] /\ order' = order /\ cursor' = cursor
    BY <1>3 DEF Miss, Overlook, Reading, walk
  <2>2. ~Leads(w) /\ ~Leads(w)' /\ pc'[w] # "waiting"
    BY <2>1 DEF Leads, TypeOK
  <2>3. \A v \in Walks : v # w => pc'[v] = pc[v] /\ at'[v] = at[v]
    BY <2>1 DEF TypeOK
  <2>4. /\ \A v \in Walks : v \in {w} => ~Leads(v)' /\ pc'[v] # "waiting"
        /\ \A v \in Walks : v \notin {w} =>
             pc'[v] = pc[v] /\ at'[v] = at[v] /\ cursor'[v] = cursor[v]
    BY <2>1, <2>2, <2>3
  <2>5. \A v \in Walks : v \in {w} /\ Leads(v) => Led(v) \subseteq {w}
    BY <2>2
  <2>6. {w} \in SUBSET Walks
    OBVIOUS
  <2>. QED  BY <2>1, <2>4, <2>5, <2>6, ShieldLeave
<1>4. ASSUME NEW w \in Walks, Join(w) PROVE OneQueryPerProcess'
  <2>1. UNCHANGED <<at, order, cursor>> /\ \A v \in Walks : v # w => pc'[v] = pc[v]
    BY <1>4 DEF Join, walk, TypeOK
  <2>2. pc[w] = "missed" /\ pc'[w] = IF InFlight(w) THEN "waiting" ELSE "querying"
    BY <1>4 DEF Join, TypeOK
  <2>3. \A u, v \in Walks : Together(u, v)' <=> Together(u, v)
    BY <2>1 DEF Together, Slot
  <2>4. \A v \in Walks : v # w => (Leads(v)' <=> Leads(v))
    BY <2>1 DEF Leads
  <2>5. Leads(w)' <=> ~InFlight(w)
    BY <2>2 DEF Leads
  <2>6. ASSUME NEW u \in Walks, NEW v \in Walks, Leads(u)', Leads(v)', Together(u, v)'
        PROVE  u = v
    <3>1. Together(v, u)
      BY <2>3, <2>6 DEF Together
    <3>. QED  BY <2>3, <2>4, <2>5, <2>6, <3>1 DEF OneQueryPerProcess, InFlight
  <2>7. ASSUME NEW v \in Walks, pc'[v] = "waiting" PROVE InFlight(v)'
    <3>1. InFlight(v)
      BY <2>1, <2>2, <2>7 DEF OneQueryPerProcess
    <3>2. PICK u \in Walks : Leads(u) /\ Together(u, v)
      BY <3>1 DEF InFlight
    <3>3. u # w
      BY <2>2, <3>2 DEF Leads
    <3>. QED  BY <2>3, <2>4, <3>2, <3>3 DEF InFlight
  <2>. QED  BY <2>6, <2>7 DEF OneQueryPerProcess
<1>5. ASSUME NEW w \in Walks, Query(w) PROVE OneQueryPerProcess'
  <2>1. UNCHANGED <<at, order, cursor>> /\ \A v \in Walks : Leads(v)' <=> Leads(v)
    BY <1>5 DEF Query, walk, TypeOK, Leads
  <2>2. \A v \in Walks : pc'[v] = "waiting" => pc[v] = "waiting"
    BY <1>5 DEF Query, TypeOK
  <2>3. \A u, v \in Walks : Together(u, v)' <=> Together(u, v)
    BY <2>1 DEF Together, Slot
  <2>. QED  BY <2>1, <2>2, <2>3 DEF OneQueryPerProcess, InFlight
<1>6. ASSUME NEW w \in Walks, Complete(w) \/ FailQuery(w) PROVE OneQueryPerProcess'
  <2>1. Leads(w)
    BY <1>6 DEF Complete, FailQuery, Leads
  <2>2. \A v \in Walks : v \in {w} \cup Led(w) /\ Leads(v) => Led(v) \subseteq {w} \cup Led(w)
    BY <2>1, LedTogether
  <2>3. {w} \cup Led(w) \in SUBSET Walks
    BY DEF Led
  <2>. QED  BY <1>6, <2>2, <2>3, ShieldReceive, ShieldRefuse DEF Complete, FailQuery
<1>7. ASSUME NEW p \in Processes, Crash(p) PROVE OneQueryPerProcess'
  <2>1. \A v \in Walks : v \in {w \in Walks : at[w] = p} /\ Leads(v) =>
          Led(v) \subseteq {w \in Walks : at[w] = p}
    BY DEF Led, Together
  <2>. QED  BY <1>7, <2>1, ShieldRefuse DEF Crash
<1>8. CASE (\E t \in Tables : Write(t)) \/ (\E m \in sets : Land(m)) \/ Tick \/ UNCHANGED vars
  BY <1>8, ShieldStay DEF Write, Land, Tick, vars, walk
<1>. QED  BY <1>2, <1>3, <1>4, <1>5, <1>6, <1>7, <1>8 DEF Next, Progress

\* "The shield": of the requests of one process for one key that missed, one is
\* at PostgreSQL, and every other waits for one that is.
THEOREM OneQueryAtATime == Spec => []OneQueryPerProcess
<1>. QED  BY TypeInit, TypeStep, ShieldInit, ShieldStep, PTL DEF Spec
-----------------------------------------------------------------------------
(* What a stale entry needs.                                               *)

\* An entry is dropped when its time is over, and a row that changed after an
\* entry landed changed within its time.
EntriesEnd ==
  \A s \in Slots : redis[s] # NoEntry =>
    /\ now < redis[s].until /\ redis[s].until <= now + TTL
    /\ \A r \in Rows : redis[s].landed < changed[r] => redis[s].until <= since[r] + TTL

Changes == \A r \in Rows : changed[r] <= version

LEMMA ChangesInit == Init => Changes
  BY DEF Init, Changes

LEMMA ChangesStep == TypeOK /\ Changes /\ [Next]_vars => Changes'
<1> SUFFICES ASSUME TypeOK, Changes, [Next]_vars PROVE Changes'
  OBVIOUS
<1> USE DEF data
<1>1. ASSUME NEW t \in Tables, Write(t) PROVE Changes'
  BY <1>1, BoundsAssumption DEF Write, Changes, TypeOK
<1>2. CASE UNCHANGED data
  BY <1>2 DEF Changes
<1>. QED  BY <1>1, <1>2
          DEF Next, Progress, Hit, Miss, Overlook, Bypass, Join, Query, Complete,
              FailQuery, Crash, Land, Tick, vars

LEMMA EntriesInit == Init => EntriesEnd
  BY DEF Init, EntriesEnd

LEMMA EntriesStep == TypeOK /\ Changes /\ EntriesEnd /\ [Next]_vars => EntriesEnd'
<1> SUFFICES ASSUME TypeOK, Changes, EntriesEnd, [Next]_vars PROVE EntriesEnd'
  OBVIOUS
<1> USE BoundsAssumption DEF data, cache, walk
<1>0. now \in Nat /\ since \in [Rows -> Nat] /\ changed \in [Rows -> 0..MaxVersion]
      /\ \A s \in Slots : redis[s].until \in Nat /\ redis[s].landed \in 0..MaxVersion
  BY DEF TypeOK, Entry
<1>1. ASSUME UNCHANGED <<redis, now, changed, since>> PROVE EntriesEnd'
  BY <1>1 DEF EntriesEnd
<1>2. ASSUME NEW t \in Tables, Write(t) PROVE EntriesEnd'
  <2>1. UNCHANGED <<redis, now>>
    BY <1>2 DEF Write
  <2>2. \A r \in Rows : \/ changed'[r] = changed[r] /\ since'[r] = since[r]
                        \/ since'[r] = now
    BY <1>2 DEF Write
  <2>. QED  BY <1>0, <2>1, <2>2 DEF EntriesEnd
<1>3. ASSUME NEW m \in sets, Land(m) PROVE EntriesEnd'
  <2>1. UNCHANGED <<now, changed, since>> /\ \A s \in Slots :
          \/ redis'[s] = redis[s]
          \/ redis'[s] = [page |-> m.page, landed |-> version, until |-> now + TTL]
    BY <1>3 DEF Land, TypeOK
  <2>2. version \in Nat /\ \A r \in Rows : ~(version < changed[r])
    BY <1>0, BoundsAssumption DEF Changes, TypeOK
  <2>3. ASSUME NEW s \in Slots,
               redis'[s] = [page |-> m.page, landed |-> version, until |-> now + TTL]
        PROVE  /\ now < redis'[s].until /\ redis'[s].until <= now + TTL
               /\ \A r \in Rows : ~(redis'[s].landed < changed[r])
    BY <1>0, <2>2, <2>3
  <2>. QED  BY <1>0, <2>1, <2>3 DEF EntriesEnd
<1>4. CASE Tick
  <2>1. now' = now + 1 /\ UNCHANGED <<changed, since>> /\ \A s \in Slots :
          redis'[s] # NoEntry => redis'[s] = redis[s] /\ ~(redis[s].until <= now + 1)
    BY <1>4 DEF Tick
  <2>. QED  BY <1>0, <2>1 DEF EntriesEnd
<1>. QED  BY <1>1, <1>2, <1>3, <1>4
          DEF Next, Progress, Hit, Miss, Overlook, Bypass, Join, Query, Complete,
              FailQuery, Crash, vars

\* A change is hidden by the cache for longer than the time to live only if a
\* SET that was under way when it was made landed after it.
THEOREM StaleEntriesNeedLateSets == Spec => []StaleEntryNeedsLateSet
<1>1. TypeOK /\ EntriesEnd => StaleEntryNeedsLateSet
  <2> SUFFICES ASSUME TypeOK, EntriesEnd, NEW s \in Slots, NEW r \in Rows,
                      redis[s] # NoEntry, since[r] + TTL <= now,
                      ~(changed[r] <= redis[s].landed)
               PROVE  FALSE
    BY DEF StaleEntryNeedsLateSet
  <2>1. now \in Nat /\ since[r] \in Nat /\ changed[r] \in 0..MaxVersion
        /\ redis[s].until \in Nat /\ redis[s].landed \in 0..MaxVersion
    BY DEF TypeOK, Entry
  <2>2. redis[s].landed < changed[r] /\ now < redis[s].until
    BY <2>1, BoundsAssumption DEF EntriesEnd
  <2>3. redis[s].until <= since[r] + TTL
    BY <2>2 DEF EntriesEnd
  <2>. QED  BY <2>1, <2>2, <2>3, BoundsAssumption
<1>. QED  BY <1>1, TypeInit, TypeStep, ChangesInit, ChangesStep, EntriesInit, EntriesStep,
             PTL DEF Spec
-----------------------------------------------------------------------------
(* Each row once.                                                          *)

\* What a page read with cursor c in the order d says of the rows that have not
\* changed since.
Faithful(p, d, c) ==
  /\ p.version <= version
  /\ ~p.more => p.end = Null
  /\ p.more => p.last \in p.rows
  /\ c # Null /\ p.end # Null => Past(d, p.end, c)
  /\ \A r \in Rows : changed[r] <= p.version /\ table[r].key # Null =>
       /\ r \in p.rows => table[r].there /\ Past(d, table[r].key, c)
       /\ table[r].there /\ Past(d, table[r].key, c) /\ ~p.more => r \in p.rows
       /\ p.end # Null /\ r \in p.rows => ~Past(d, table[r].key, p.end)
       /\ p.end # Null /\ table[r].there /\ Past(d, table[r].key, c) /\ r \notin p.rows
            => ~Ahead(d, table[r].key, p.end)

PagesFaithful ==
  /\ \A s \in Slots : redis[s] # NoEntry => Faithful(redis[s].page, s[1], s[2])
  /\ \A m \in sets : Faithful(m.page, m.slot[1], m.slot[2])
  /\ \A w \in Walks : pc[w] = "answered" => Faithful(answer[w], order[w], cursor[w])

\* Only a walk that was shown nothing knows of no version.
WalksBegun ==
  \A w \in Walks :
    /\ \/ oldest[w] <= version
       \/ /\ cursor[w] = Null /\ pc[w] \notin {"done", "cut"}
          /\ \A r \in Rows : shown[w][r] = 0
    /\ cursor[w] # Null => Printed[cursor[w]] = cursor[w]

\* A row the walk can rely on is behind its cursor and shown, or before it and not.
ShownSoFar(w, r) ==
  Counts(w, r) /\ Clear(w, r) =>
    /\ ~table[r].there => shown[w][r] = 0
    /\ table[r].there /\ pc[w] \notin {"done", "cut"} =>
         shown[w][r] = IF Past(order[w], table[r].key, cursor[w]) THEN 0 ELSE 1
    /\ table[r].there /\ pc[w] = "done" => shown[w][r] = 1
    /\ shown[w][r] <= 1

\* A request that is at no process is not under way, and the other way round.
Resting == \A w \in Walks : pc[w] \in {"reading", "done", "cut"} => at[w] = Nobody

LEMMA RestingInit == Init => Resting
  BY DEF Init, Resting

LEMMA RestingStep == TypeOK /\ Resting /\ [Next]_vars => Resting'
<1> SUFFICES ASSUME TypeOK, Resting, [Next]_vars PROVE Resting'
  OBVIOUS
<1>1. ASSUME NEW W, NEW p, Receive(W, p) PROVE Resting'
  BY <1>1 DEF Receive, Leave, Resting, TypeOK
<1>2. ASSUME NEW W, Refuse(W) PROVE Resting'
  BY <1>2 DEF Refuse, Leave, Resting, TypeOK
<1>3. ASSUME NEW w \in Walks, NEW p \in Processes, Miss(w, p) \/ Overlook(w, p)
      PROVE  Resting'
  BY <1>3 DEF Miss, Overlook, Resting, TypeOK
<1>4. ASSUME NEW w \in Walks, Join(w) \/ Query(w) PROVE Resting'
  BY <1>4 DEF Join, Query, Resting, TypeOK
<1>5. CASE UNCHANGED <<pc, at>>
  BY <1>5 DEF Resting
<1>. QED  BY <1>1, <1>2, <1>3, <1>4, <1>5
          DEF Next, Progress, Hit, Bypass, Complete, FailQuery, Crash, Write, Land, Tick, vars

WalkInv ==
  /\ Changes /\ PagesFaithful /\ WalksBegun
  /\ \A w \in Walks, r \in Rows : ShownSoFar(w, r)

\* A cursor's text stands for the least key it cannot tell from its own.
LEMMA SamePrint ==
  ASSUME NEW k \in Keys, NEW e \in Keys, Printed[e] <= k, k <= e
  PROVE  Printed[k] = Printed[e]
<1>1. Printed[e] \in Keys /\ Printed[k] \in Keys /\ Printed[k] \in Int /\ Printed[e] \in Int
  BY PrintedAssumption, KeysAssumption
<1>2. Printed[Printed[e]] <= Printed[k] /\ Printed[k] <= Printed[e]
  BY <1>1, PrintedAssumption
<1>3. Printed[Printed[e]] = Printed[e]
  BY PrintedAssumption
<1>. QED  BY <1>1, <1>2, <1>3

LEMMA KeysAreInts == \A k \in Cursors : k # Null => k \in Keys /\ k \in Int
  BY KeysAssumption DEF Cursors

LEMMA PagesAreFaithful ==
  ASSUME TypeOK, Changes, NEW d \in Orders, NEW c \in Cursors, NEW p \in PagesOf(d, c)
  PROVE  Faithful(p, d, c)
<1> DEFINE M == Matching(d, c)
<1>1. version \in Nat /\ version <= version
  BY BoundsAssumption DEF TypeOK
<1>2. \A r \in Rows : r \in M <=> table[r].there /\ Past(d, table[r].key, c)
  BY DEF Matching
<1>3. M \subseteq Rows
  BY DEF Matching
<1>4. \A r \in Rows : table[r].key \in Cursors
  BY DEF TypeOK, Row, Cursors
<1>5. CASE p = [rows |-> M, more |-> FALSE, last |-> NoRow, end |-> Null, version |-> version]
  BY <1>1, <1>2, <1>5 DEF Faithful
<1>6. CASE \E S \in FirstOf(d, M) : \E l \in LastOf(d, S) :
             p = [rows |-> S, more |-> TRUE, last |-> l, end |-> table[l].key,
                  version |-> version]
  <2>1. PICK S \in FirstOf(d, M) : \E l \in LastOf(d, S) :
               p = [rows |-> S, more |-> TRUE, last |-> l, end |-> table[l].key,
                    version |-> version]
    BY <1>6
  <2>2. PICK l \in LastOf(d, S) :
               p = [rows |-> S, more |-> TRUE, last |-> l, end |-> table[l].key,
                    version |-> version]
    BY <2>1
  <2>3. S \subseteq M /\ l \in S /\ l \in Rows
        /\ (\A r \in S, q \in M \ S : ~Ahead(d, table[q].key, table[r].key))
        /\ (\A r \in S : ~Ahead(d, table[l].key, table[r].key))
    BY <1>3, <2>1, <2>2 DEF FirstOf, LastOf
  <2>4. p.rows = S /\ p.more = TRUE /\ p.last = l /\ p.end = table[l].key
        /\ p.version = version
    BY <2>2
  <2>5. c # Null /\ table[l].key # Null => Past(d, table[l].key, c)
    BY <1>2, <2>3
  <2>6. ASSUME NEW r \in Rows, table[r].key # Null, table[l].key # Null
        PROVE  /\ r \in S => ~Past(d, table[r].key, table[l].key)
               /\ r \in M /\ r \notin S => ~Ahead(d, table[r].key, table[l].key)
    BY <1>4, <2>3, <2>6, KeysAreInts DEF Past, Ahead
  <2>. QED  BY <1>1, <1>2, <2>3, <2>4, <2>5, <2>6 DEF Faithful
<1>. QED  BY <1>5, <1>6 DEF PagesOf

\* A page stays faithful when the table changes.
LEMMA FaithfulStays ==
  ASSUME TypeOK, Changes, NEW p \in Page, NEW d, NEW c, Faithful(p, d, c),
         version' \in Nat, version <= version',
         \A r \in Rows : \/ table'[r] = table[r] /\ changed'[r] = changed[r]
                         \/ changed'[r] = version' /\ version < version'
  PROVE  Faithful(p, d, c)'
<1>1. version \in Nat /\ p.version \in Nat
  BY BoundsAssumption DEF TypeOK, Page
<1>2. p.version <= version'
  BY <1>1 DEF Faithful
<1>3. ASSUME NEW r \in Rows, changed'[r] <= p.version
      PROVE  table'[r] = table[r] /\ changed'[r] = changed[r]
  BY <1>1, <1>3 DEF Faithful
<1>. QED  BY <1>2, <1>3 DEF Faithful, Past, Ahead

\* A walk goes on from the page p to the page behind its cursor.
LEMMA NextPage ==
  ASSUME NEW d \in Orders, NEW c \in Cursors, NEW e \in Keys, NEW k \in Keys,
         NEW there \in BOOLEAN, NEW in \in BOOLEAN, NEW same \in BOOLEAN,
         c # Null => Printed[c] = c /\ Past(d, e, c),
         in => there /\ Past(d, k, c) /\ ~Past(d, k, e),
         there /\ Past(d, k, c) /\ ~in => ~Ahead(d, k, e),
         Printed[e] = Printed[k] => same /\ Printed[e] = k,
         same => in
  PROVE  /\ there /\ ~Past(d, k, c) => ~Past(d, k, Printed[e]) /\ ~in
         /\ there /\ Past(d, k, c) => (in <=> ~Past(d, k, Printed[e]))
<1>1. Printed[e] \in Keys /\ Printed[e] \in Int /\ Printed[e] # Null /\ e \in Int
      /\ k \in Int /\ k # Null /\ e # Null /\ Printed[e] <= e
  BY PrintedAssumption, KeysAssumption
<1>2. (c # Null => c \in Keys /\ c \in Int)
  BY KeysAreInts
<1>3. Printed[e] <= k /\ k <= e => k = Printed[e] /\ in
  BY SamePrint
<1>4. c # Null /\ c <= e => c <= Printed[e]
  BY <1>2, PrintedAssumption
<1>5. CASE d = "asc"
  BY <1>1, <1>2, <1>3, <1>4, <1>5 DEF Past, Ahead
<1>6. CASE d = "desc"
  BY <1>1, <1>2, <1>3, <1>4, <1>6 DEF Past, Ahead
<1>. QED  BY <1>5, <1>6 DEF Orders

\* What a walk was shown with the page p.
LEMMA ShownReceive ==
  ASSUME TypeOK, WalkInv, NEW W \in SUBSET Walks, NEW p \in Page, Receive(W, p),
         UNCHANGED data, NEW w \in W, Faithful(p, order[w], cursor[w]),
         pc[w] \notin {"done", "cut"}, NEW r \in Rows
  PROVE  ShownSoFar(w, r)'
<1> SUFFICES ASSUME Counts(w, r)', Clear(w, r)'
             PROVE  /\ ~table[r].there => shown'[w][r] = 0
                    /\ table[r].there /\ pc'[w] \notin {"done", "cut"} =>
                         shown'[w][r] =
                           IF Past(order[w], table[r].key, cursor'[w]) THEN 0 ELSE 1
                    /\ table[r].there /\ pc'[w] = "done" => shown'[w][r] = 1
                    /\ shown'[w][r] <= 1
  BY DEF ShownSoFar, Receive, data, Past
<1> DEFINE k == table[r].key
           n == NextCursor(p)
<1>0. /\ w \in Walks /\ table[r] \in Row /\ k \in Cursors /\ order[w] \in Orders
      /\ cursor[w] \in Cursors /\ shown[w][r] \in Nat /\ oldest[w] \in Nat
      /\ p.version \in Nat /\ changed[r] \in Nat
  BY BoundsAssumption DEF TypeOK, Row, Cursors, Page
<1>1. /\ shown'[w][r] = IF r \in p.rows THEN shown[w][r] + 1 ELSE shown[w][r]
      /\ oldest'[w] = IF p.version < oldest[w] THEN p.version ELSE oldest[w]
      /\ ends'[w] = IF n # Null THEN ends[w] \cup {<<p.last, n>>} ELSE ends[w]
      /\ cursor'[w] = IF n # Null THEN n ELSE cursor[w]
      /\ pc'[w] = IF n # Null THEN "reading" ELSE IF p.more THEN "cut" ELSE "done"
  BY <1>0 DEF Receive, TypeOK
<1>2. k # Null /\ changed[r] <= oldest[w] /\ changed[r] <= p.version
  BY <1>0, <1>1 DEF Counts, Steady, data
<1>3. Counts(w, r) /\ Clear(w, r)
  BY <1>1, <1>2 DEF Counts, Steady, Clear, data
<1>4. /\ ~table[r].there => shown[w][r] = 0
      /\ table[r].there => shown[w][r] = IF Past(order[w], k, cursor[w]) THEN 0 ELSE 1
  BY <1>0, <1>3 DEF WalkInv, ShownSoFar
<1>5. /\ r \in p.rows => table[r].there /\ Past(order[w], k, cursor[w])
      /\ table[r].there /\ Past(order[w], k, cursor[w]) /\ ~p.more => r \in p.rows
  BY <1>2 DEF Faithful
<1>6. CASE p.end = Null
  <2>1. n = Null
    BY <1>6 DEF NextCursor
  <2>. QED  BY <1>0, <1>1, <1>4, <1>5, <2>1
<1>7. CASE p.end # Null
  <2>1. p.end \in Keys /\ n = Printed[p.end] /\ n # Null /\ k \in Keys
    BY <1>0, <1>2, <1>7, PrintedAssumption, KeysAssumption DEF NextCursor, Page, Cursors
  <2>2. p.more /\ p.last \in p.rows
    BY <1>7 DEF Faithful, Page
  <2>3. cursor[w] # Null =>
          Printed[cursor[w]] = cursor[w] /\ Past(order[w], p.end, cursor[w])
    BY <1>0, <1>7 DEF WalkInv, WalksBegun, Faithful
  <2>4. Printed[p.end] = Printed[k] => p.last = r /\ Printed[p.end] = k
    BY <1>1, <2>1 DEF Clear, data
  <2>5. /\ r \in p.rows => ~Past(order[w], k, p.end)
        /\ table[r].there /\ Past(order[w], k, cursor[w]) /\ r \notin p.rows
             => ~Ahead(order[w], k, p.end)
    BY <1>2, <1>7 DEF Faithful
  <2>6. table[r].there \in BOOLEAN
    BY <1>0 DEF Row
  <2>7. /\ table[r].there /\ ~Past(order[w], k, cursor[w]) =>
             ~Past(order[w], k, n) /\ r \notin p.rows
        /\ table[r].there /\ Past(order[w], k, cursor[w]) =>
             (r \in p.rows <=> ~Past(order[w], k, n))
    <3> DEFINE there == table[r].there
               in == r \in p.rows
               same == p.last = r
    <3>1. same => in
      BY <2>2
    <3>2. in \in BOOLEAN /\ same \in BOOLEAN /\ there \in BOOLEAN
      BY <2>6
    <3>3. in => there /\ Past(order[w], k, cursor[w]) /\ ~Past(order[w], k, p.end)
      BY <1>5, <2>5
    <3>4. there /\ Past(order[w], k, cursor[w]) /\ ~in => ~Ahead(order[w], k, p.end)
      BY <2>5
    <3>5. Printed[p.end] = Printed[k] => same /\ Printed[p.end] = k
      BY <2>4
    <3> HIDE DEF there, in, same, k, n
    <3>6. /\ there /\ ~Past(order[w], k, cursor[w]) => ~Past(order[w], k, Printed[p.end]) /\ ~in
          /\ there /\ Past(order[w], k, cursor[w]) =>
               (in <=> ~Past(order[w], k, Printed[p.end]))
      BY <1>0, <2>1, <2>3, <3>1, <3>2, <3>3, <3>4, <3>5, NextPage
    <3>. QED  BY <2>1, <3>6 DEF there, in
  <2>. QED  BY <1>0, <1>1, <1>4, <1>5, <2>1, <2>7
<1>. QED  BY <1>6, <1>7

LEMMA ReceiveKeeps ==
  ASSUME TypeOK, WalkInv, NEW W \in SUBSET Walks, NEW p \in Page, Receive(W, p),
         UNCHANGED data,
         \A w \in W : Faithful(p, order[w], cursor[w]) /\ pc[w] \notin {"done", "cut"}
  PROVE  WalksBegun' /\ \A w \in Walks, r \in Rows : ShownSoFar(w, r)'
<1>1. ASSUME NEW w \in Walks, w \notin W
      PROVE  pc'[w] = pc[w] /\ cursor'[w] = cursor[w] /\ shown'[w] = shown[w]
             /\ oldest'[w] = oldest[w] /\ ends'[w] = ends[w] /\ order' = order
  BY <1>1 DEF Receive, TypeOK
<1>2. ASSUME NEW w \in Walks, NEW r \in Rows PROVE ShownSoFar(w, r)'
  <2>1. CASE w \in W
    BY <2>1, ShownReceive
  <2>2. CASE w \notin W
    BY <1>1, <2>2 DEF WalkInv, ShownSoFar, Counts, Steady, Clear, data
  <2>. QED  BY <2>1, <2>2
<1>3. ASSUME NEW w \in Walks
      PROVE  /\ \/ oldest'[w] <= version
                \/ /\ cursor'[w] = Null /\ pc'[w] \notin {"done", "cut"}
                   /\ \A r \in Rows : shown'[w][r] = 0
             /\ cursor'[w] # Null => Printed[cursor'[w]] = cursor'[w]
  <2>1. CASE w \notin W
    BY <1>1, <2>1 DEF WalkInv, WalksBegun
  <2>2. CASE w \in W
    <3>1. oldest'[w] = IF p.version < oldest[w] THEN p.version ELSE oldest[w]
      BY <2>2 DEF Receive, TypeOK
    <3>2. oldest[w] \in Nat /\ p.version \in Nat /\ version \in Nat /\ p.version <= version
      BY <2>2, BoundsAssumption DEF TypeOK, Page, Faithful
    <3>3. cursor'[w] = IF NextCursor(p) # Null THEN NextCursor(p) ELSE cursor[w]
      BY <2>2 DEF Receive, TypeOK
    <3>4. NextCursor(p) # Null => Printed[NextCursor(p)] = NextCursor(p)
      BY PrintedAssumption DEF NextCursor, Page, Cursors
    <3>. QED  BY <2>2, <3>1, <3>2, <3>3, <3>4 DEF WalkInv, WalksBegun
  <2>. QED  BY <2>1, <2>2
<1>. QED  BY <1>2, <1>3 DEF WalksBegun, data

\* Requests move without an answer, and the table stays.
LEMMA MoveKeeps ==
  ASSUME TypeOK, WalkInv, UNCHANGED <<data, walk>>,
         \A w \in Walks : \/ pc'[w] = pc[w]
                          \/ /\ pc[w] \notin {"done", "cut"}
                             /\ pc'[w] \notin {"done", "cut"}
  PROVE  Changes' /\ WalksBegun' /\ \A w \in Walks, r \in Rows : ShownSoFar(w, r)'
<1> USE DEF data, walk
<1>1. Changes' /\ WalksBegun'
  BY DEF WalkInv, Changes, WalksBegun
<1>2. ASSUME NEW w \in Walks, NEW r \in Rows PROVE ShownSoFar(w, r)'
  BY DEF WalkInv, ShownSoFar, Counts, Steady, Clear, Past
<1>. QED  BY <1>1, <1>2

LEMMA PlainSlot ==
  ASSUME ~Nearby, NEW w \in Walks
  PROVE  Slot(w)[1] = order[w] /\ Slot(w)[2] = cursor[w]
  BY NearbyAssumption DEF Slot

\* The pages stay where they are, or vanish.
LEMMA PagesStay ==
  ASSUME WalkInv, UNCHANGED data, redis' = redis, sets' = sets,
         \A w \in Walks : pc'[w] = "answered" =>
           pc[w] = "answered" /\ answer'[w] = answer[w]
           /\ order'[w] = order[w] /\ cursor'[w] = cursor[w]
  PROVE  PagesFaithful'
  BY DEF WalkInv, PagesFaithful, Faithful, Past, Ahead, data

LEMMA WalkInit == TypeOK /\ Init => WalkInv
<1> SUFFICES ASSUME TypeOK, Init PROVE WalkInv
  OBVIOUS
<1>1. Changes /\ PagesFaithful /\ WalksBegun
  BY ChangesInit DEF Init, PagesFaithful, WalksBegun
<1>2. ASSUME NEW w \in Walks, NEW r \in Rows PROVE ShownSoFar(w, r)
  BY DEF Init, ShownSoFar, Past
<1>. QED  BY <1>1, <1>2 DEF WalkInv

LEMMA WriteKeepsWalks ==
  ASSUME TypeOK, WalkInv, NEW t \in Tables, Write(t)
  PROVE  WalkInv'
<1> USE DEF data, cache, walk
<1>1. /\ version \in Nat /\ version' = version + 1 /\ version' <= MaxVersion
      /\ \A r \in Rows : \/ table'[r] = table[r] /\ changed'[r] = changed[r]
                         \/ changed'[r] = version'
      /\ UNCHANGED <<redis, sets, walk, pc, answer>>
  BY BoundsAssumption, TablesAssumption DEF Write, TypeOK
<1>2. Changes'
  BY <1>1, BoundsAssumption DEF WalkInv, Changes, TypeOK
<1>3. ASSUME NEW p \in Page, NEW d, NEW c, Faithful(p, d, c)
      PROVE  Faithful(p, d, c)'
  BY <1>1, <1>3, FaithfulStays DEF WalkInv
<1>4. PagesFaithful'
  <2>1. \A s \in Slots : redis[s].page \in Page
    BY DEF TypeOK, Entry
  <2>2. \A m \in sets : m.page \in Page
    BY DEF TypeOK
  <2>3. \A w \in Walks : answer[w] \in Page
    BY DEF TypeOK
  <2>4. ASSUME NEW s \in Slots, redis[s] # NoEntry
        PROVE  Faithful(redis[s].page, s[1], s[2])'
    <3>1. PICK p, d, c : p \in Page /\ p = redis[s].page /\ d = s[1] /\ c = s[2]
      BY <2>1
    <3>2. Faithful(p, d, c)
      BY <3>1, <2>4 DEF WalkInv, PagesFaithful
    <3>3. Faithful(p, d, c)'
      BY <1>3, <3>1, <3>2
    <3>. QED  BY <1>1, <3>1, <3>3 DEF Faithful, Past, Ahead, walk
  <2>5. ASSUME NEW m \in sets
        PROVE  Faithful(m.page, m.slot[1], m.slot[2])'
    <3>1. PICK p, d, c : p \in Page /\ p = m.page /\ d = m.slot[1] /\ c = m.slot[2]
      BY <2>2
    <3>2. Faithful(p, d, c)
      BY <3>1 DEF WalkInv, PagesFaithful
    <3>3. Faithful(p, d, c)'
      BY <1>3, <3>1, <3>2
    <3>. QED  BY <1>1, <3>1, <3>3 DEF Faithful, Past, Ahead, walk
  <2>6. ASSUME NEW w \in Walks, pc[w] = "answered"
        PROVE  Faithful(answer[w], order[w], cursor[w])'
    <3>1. PICK p, d, c : p \in Page /\ p = answer[w] /\ d = order[w] /\ c = cursor[w]
      BY <2>3
    <3>2. Faithful(p, d, c)
      BY <3>1, <2>6 DEF WalkInv, PagesFaithful
    <3>3. Faithful(p, d, c)'
      BY <1>3, <3>1, <3>2
    <3>. QED  BY <1>1, <3>1, <3>3 DEF Faithful, Past, Ahead, walk
  <2>. QED  BY <1>1, <2>4, <2>5, <2>6 DEF PagesFaithful
<1>5. WalksBegun'
  BY <1>1, BoundsAssumption DEF WalkInv, WalksBegun, TypeOK
<1>6. ASSUME NEW w \in Walks, NEW r \in Rows PROVE ShownSoFar(w, r)'
  <2>1. CASE table'[r] = table[r] /\ changed'[r] = changed[r]
    BY <1>1, <2>1 DEF WalkInv, ShownSoFar, Counts, Steady, Clear, Past
  <2>2. CASE changed'[r] = version'
    <3>1. oldest[w] \in Nat
      BY BoundsAssumption DEF TypeOK
    <3>2. CASE oldest[w] <= version
      BY <1>1, <2>2, <3>1, <3>2 DEF ShownSoFar, Counts, Steady
    <3>3. CASE /\ cursor[w] = Null /\ pc[w] \notin {"done", "cut"}
               /\ \A q \in Rows : shown[w][q] = 0
      BY <1>1, <3>3 DEF ShownSoFar, Past
    <3>. QED  BY <3>2, <3>3 DEF WalkInv, WalksBegun
  <2>. QED  BY <1>1, <2>1, <2>2
<1>. QED  BY <1>2, <1>4, <1>5, <1>6 DEF WalkInv

LEMMA WalkStep ==
  ASSUME ~Nearby
  PROVE  TypeOK /\ Resting /\ WalkInv /\ [Next]_vars => WalkInv'
<1> SUFFICES ASSUME TypeOK, Resting, WalkInv, [Next]_vars PROVE WalkInv'
  OBVIOUS
<1> USE DEF data, cache
<1>1. ASSUME UNCHANGED <<data, walk, redis, sets>>,
             \A w \in Walks : \/ pc'[w] = pc[w] /\ answer'[w] = answer[w]
                              \/ /\ pc[w] \notin {"done", "cut"}
                                 /\ pc'[w] \notin {"answered", "done", "cut"}
      PROVE  WalkInv'
  <2>1. Changes' /\ WalksBegun' /\ \A w \in Walks, r \in Rows : ShownSoFar(w, r)'
    BY <1>1, MoveKeeps
  <2>2. PagesFaithful'
    BY <1>1, PagesStay DEF walk
  <2>. QED  BY <2>1, <2>2 DEF WalkInv
<1>2. ASSUME NEW w \in Walks, NEW p \in Page, Receive({w}, p), pc[w] = "reading",
             Faithful(p, order[w], cursor[w]), UNCHANGED <<data, cache>>
      PROVE  WalkInv'
  <2>1. WalksBegun' /\ \A v \in Walks, r \in Rows : ShownSoFar(v, r)'
    BY <1>2, ReceiveKeeps
  <2>2. PagesFaithful'
    <3>1. \A v \in Walks : pc'[v] = "answered" =>
            pc[v] = "answered" /\ answer'[v] = answer[v]
            /\ order'[v] = order[v] /\ cursor'[v] = cursor[v]
      BY <1>2 DEF Receive, Leave, TypeOK
    <3>. QED  BY <1>2, <3>1, PagesStay
  <2>. QED  BY <1>2, <2>1, <2>2 DEF WalkInv, Changes
<1>3. ASSUME NEW w \in Walks, NEW p \in Processes, Hit(w, p) PROVE WalkInv'
  <2>1. redis[Slot(w)].page \in Page /\ Faithful(redis[Slot(w)].page, order[w], cursor[w])
    BY <1>3, SlotType, PlainSlot DEF Hit, WalkInv, PagesFaithful, TypeOK, Entry
  <2>. QED  BY <1>2, <1>3, <2>1 DEF Hit, Reading
<1>4. ASSUME NEW w \in Walks, NEW p \in Processes, Bypass(w, p) PROVE WalkInv'
  <2>1. PICK page \in PagesOf(order[w], cursor[w]) : Receive({w}, page)
    BY <1>4 DEF Bypass
  <2>2. order[w] \in Orders /\ cursor[w] \in Cursors
    BY DEF TypeOK
  <2>3. page \in Page /\ Faithful(page, order[w], cursor[w])
    BY <2>2, PagesAreTyped, PagesAreFaithful DEF WalkInv
  <2>. QED  BY <1>2, <1>4, <2>1, <2>3 DEF Bypass, Reading
<1>5. ASSUME NEW w \in Walks, NEW p \in Processes, Miss(w, p) \/ Overlook(w, p)
      PROVE  WalkInv'
  BY <1>1, <1>5 DEF Miss, Overlook, Reading, walk, TypeOK
<1>6. ASSUME NEW w \in Walks, Join(w) PROVE WalkInv'
  BY <1>1, <1>6 DEF Join, walk, TypeOK
<1>7. ASSUME NEW w \in Walks, Query(w) PROVE WalkInv'
  <2>1. PICK page \in PagesOf(order[w], cursor[w]) : answer' = [answer EXCEPT ![w] = page]
    BY <1>7 DEF Query
  <2>2. order[w] \in Orders /\ cursor[w] \in Cursors
    BY DEF TypeOK
  <2>3. Faithful(page, order[w], cursor[w])
    BY <2>2, PagesAreFaithful DEF WalkInv
  <2>4. UNCHANGED <<data, cache, walk>> /\ \A v \in Walks :
          \/ v # w /\ pc'[v] = pc[v] /\ answer'[v] = answer[v]
          \/ v = w /\ pc[v] = "querying" /\ pc'[v] = "answered" /\ answer'[v] = page
    BY <1>7, <2>1 DEF Query, TypeOK
  <2>5. Changes' /\ WalksBegun' /\ \A v \in Walks, r \in Rows : ShownSoFar(v, r)'
    BY <2>4, MoveKeeps
  <2>6. PagesFaithful'
    BY <2>3, <2>4 DEF WalkInv, PagesFaithful, Faithful, Past, Ahead, walk
  <2>. QED  BY <2>5, <2>6 DEF WalkInv
<1>8. ASSUME NEW w \in Walks, Complete(w) PROVE WalkInv'
  <2>1. answer[w] \in Page /\ Faithful(answer[w], order[w], cursor[w])
    BY <1>8 DEF Complete, WalkInv, PagesFaithful, TypeOK
  <2>2. \A v \in {w} \cup Led(w) : order[v] = order[w] /\ cursor[v] = cursor[w]
          /\ pc[v] \notin {"done", "cut"}
    BY <1>8, PlainSlot DEF Complete, Led, Together
  <2>3. {w} \cup Led(w) \in SUBSET Walks
    BY DEF Led
  <2>4. WalksBegun' /\ \A v \in Walks, r \in Rows : ShownSoFar(v, r)'
    BY <1>8, <2>1, <2>2, <2>3, ReceiveKeeps DEF Complete
  <2>5. \A v \in Walks : pc'[v] = "answered" =>
          pc[v] = "answered" /\ answer'[v] = answer[v]
          /\ order'[v] = order[v] /\ cursor'[v] = cursor[v]
    BY <1>8 DEF Complete, Receive, Leave, TypeOK
  <2>6. sets' = sets \cup {[slot |-> Slot(w), page |-> answer[w]]}
        /\ UNCHANGED <<data, redis>>
    BY <1>8 DEF Complete
  <2>7. PagesFaithful'
    <3>1. \A m \in sets' : Faithful(m.page, m.slot[1], m.slot[2])
      BY <2>1, <2>6, PlainSlot DEF WalkInv, PagesFaithful
    <3>. QED  BY <2>5, <2>6, <3>1
              DEF WalkInv, PagesFaithful, Faithful, Past, Ahead
  <2>. QED  BY <2>4, <2>6, <2>7 DEF WalkInv, Changes
<1>9. ASSUME NEW W \in SUBSET Walks, Refuse(W), UNCHANGED <<data, cache, walk>>,
             \A w \in W : pc[w] \notin {"done", "cut"}
      PROVE  WalkInv'
  BY <1>1, <1>9 DEF Refuse, Leave, TypeOK
<1>10. ASSUME NEW w \in Walks, FailQuery(w) PROVE WalkInv'
  BY <1>9, <1>10 DEF FailQuery, Led
<1>11. ASSUME NEW p \in Processes, Crash(p) PROVE WalkInv'
  <2>1. \A w \in Walks : at[w] = p => pc[w] \notin {"done", "cut"}
    BY NamesAssumption DEF Resting
  <2>. QED  BY <1>9, <1>11, <2>1 DEF Crash
<1>12. ASSUME NEW m \in sets, Land(m) PROVE WalkInv'
  <2>1. UNCHANGED <<data, walk, pc, answer>> /\ sets' = sets \ {m}
    BY <1>12 DEF Land
  <2>2. ASSUME NEW s \in Slots
        PROVE  redis'[s] = redis[s] \/ (s = m.slot /\ redis'[s].page = m.page)
    <3>1. \/ redis'[s] = redis[s]
          \/ /\ s = m.slot
             /\ redis'[s] = [page |-> m.page, landed |-> version, until |-> now + TTL]
      BY <1>12 DEF Land, TypeOK
    <3>. QED  BY <3>1
  <2>3. Changes' /\ WalksBegun' /\ \A v \in Walks, r \in Rows : ShownSoFar(v, r)'
    BY <2>1, MoveKeeps
  <2>4. PagesFaithful'
    BY <2>1, <2>2 DEF WalkInv, PagesFaithful, Faithful, Past, Ahead, walk
  <2>. QED  BY <2>3, <2>4 DEF WalkInv
<1>13. CASE Tick
  <2>1. UNCHANGED <<data, walk, pc, answer, sets>>
    BY <1>13 DEF Tick
  <2>2. \A s \in Slots : redis'[s] # NoEntry => redis'[s] = redis[s]
    BY <1>13 DEF Tick
  <2>3. Changes' /\ WalksBegun' /\ \A v \in Walks, r \in Rows : ShownSoFar(v, r)'
    BY <2>1, MoveKeeps
  <2>4. PagesFaithful'
    BY <2>1, <2>2 DEF WalkInv, PagesFaithful, Faithful, Past, Ahead, walk
  <2>. QED  BY <2>3, <2>4 DEF WalkInv
<1>14. CASE UNCHANGED vars
  BY <1>1, <1>14 DEF vars
<1>. QED  BY <1>3, <1>4, <1>5, <1>6, <1>7, <1>8, <1>10, <1>11, <1>12, <1>13, <1>14,
             WriteKeepsWalks DEF Next, Progress

\* A walk through a list whose cache key is its whole URL, once at the end, was
\* shown each row exactly once, whatever is inserted, hidden or moved meanwhile
\* and however old the pages are that come from the cache, unless the row
\* changed, has no key or ties with the end of a page.
THEOREM RowsAreShownOnce == ~Nearby => (Spec => []RowsShownOnce)
<1> SUFFICES ASSUME ~Nearby PROVE Spec => []RowsShownOnce
  OBVIOUS
<1>1. WalkInv => RowsShownOnce
  BY DEF WalkInv, ShownSoFar, RowsShownOnce
<1>2. TypeOK /\ Resting /\ WalkInv /\ [Next]_vars => WalkInv'
  BY WalkStep
<1>. QED  BY <1>1, <1>2, TypeInit, TypeStep, RestingInit, RestingStep, WalkInit, PTL DEF Spec

\* And at no time was it shown one of these rows twice.
THEOREM NoRowIsShownTwice == ~Nearby => (Spec => []NoRowTwice)
<1> SUFFICES ASSUME ~Nearby PROVE Spec => []NoRowTwice
  OBVIOUS
<1>1. WalkInv => NoRowTwice
  BY DEF WalkInv, ShownSoFar, NoRowTwice
<1>2. TypeOK /\ Resting /\ WalkInv /\ [Next]_vars => WalkInv'
  BY WalkStep
<1>. QED  BY <1>1, <1>2, TypeInit, TypeStep, RestingInit, RestingStep, WalkInit, PTL DEF Spec

-----------------------------------------------------------------------------
(* The storefront, whose restaurants and branches these lists show.        *)

\* Type correctness of the storefront.
ShopType ==
  /\ status \in [Restaurants -> Statuses]
  /\ logo \in [Restaurants -> Uploads \cup {Blank}]
  /\ DOMAIN branch \subseteq Branches /\ branch \in [DOMAIN branch -> Branch]
  /\ DOMAIN media \subseteq Uploads /\ media \in [DOMAIN media -> Media]
  /\ object \in [Uploads -> Objects \cup {"nothing"}]
  /\ urls \subseteq DOMAIN media
  /\ place \in [Requests -> {"idle", "found", "checked", "over"}]
  /\ call \in [Requests -> Call]
  /\ before \in [Requests -> SUBSET Requests]
  /\ reviewer \in [Restaurants -> Requests \cup {Seed}]
  /\ kept \in [Branches -> [by : Requests \cup {Seed}, status : Statuses,
                            reviewer : Requests \cup {Seed}]]
  /\ word \in [Branches -> BOOLEAN]
  /\ puts \in [Uploads -> Nat] /\ headed \in [Requests -> Nat]

LEMMA InitShopType == ShopInit => ShopType
  BY CallsAssumption, StartAssumption DEF ShopInit, ShopType, Objects, Statuses

\* The requests that read, and what all of them leave alone.
ShopReads(r) ==
  \/ FindBranch(r) \/ FindActiveRestaurant(r) \/ FindRestaurant(r)
  \/ AssertCompletedMediaUrl(r) \/ FindMedia(r) \/ Fail(r)

Places == {"idle", "found", "checked", "over"}

LEMMA ShopReadsChange ==
  ASSUME NEW r \in Requests, ShopReads(r)
  PROVE  /\ \E p \in Places \ {"idle"} : Goto(r, p)
         /\ UNCHANGED <<rows, s3, ghosts>>
  BY DEF ShopReads, Places, FindBranch, FindActiveRestaurant, FindRestaurant,
         AssertCompletedMediaUrl, FindMedia, Fail, Check

LEMMA GotoTyped ==
  ASSUME ShopType, NEW r \in Requests, NEW p \in Places \ {"idle"}, Goto(r, p)
  PROVE  /\ place' \in [Requests -> Places] /\ call' = call
         /\ before' \in [Requests -> SUBSET Requests]
  BY DEF ShopType, Places, Goto, Over

LEMMA GotoMoves ==
  ASSUME ShopType, NEW r \in Requests, NEW p \in Places \ {"idle"}, Goto(r, p)
  PROVE  /\ place'[r] = p /\ (place[r] # "idle" => before'[r] = before[r])
         /\ \A q \in Requests \ {r} : place'[q] = place[q] /\ before'[q] = before[q]
  BY DEF ShopType, Places, Goto, Over

\* What a call of each kind carries.
LEMMA CallsCarry ==
  ASSUME NEW c \in Call
  PROVE  /\ c.op \in {"open", "patch", "review", "upload", "confirm"} =>
              c.restaurant \in Restaurants
         /\ c.op \in {"patchBranch", "showBranch"} => c.branch \in Branches
         /\ c.op \in {"upload"} => c.user \in Users /\ c.type \in Types
         /\ c.op = "patchBranch" => c.open \in BOOLEAN \cup {Same}
         /\ c.op = "showBranch" => c.active \in BOOLEAN \cup {Same}
         /\ c.op = "patch" => c.logo \in Uploads \cup {Blank, Same}
         /\ c.op = "review" => c.status \in Statuses
         /\ c.op = "confirm" => c.upload \in Uploads
  BY DEF Call, Flag

\* A statement of the end is of a request in "checked", which is then over.
LEMMA EndsMove ==
  ASSUME ShopType, NEW r \in Requests, NEW op, Ends(r, op)
  PROVE  /\ place[r] = "checked" /\ call[r].op = op /\ call[r] \in Call
         /\ Goto(r, "over") /\ "over" \in Places \ {"idle"}
         /\ place'[r] = "over" /\ before' = before
         /\ \A q \in Requests \ {r} : place'[q] = place[q]
  BY DEF ShopType, Places, Ends, Does, Goto

LEMMA AboutType ==
  ASSUME ShopType, NEW r \in Requests,
         call[r].op \in {"patchBranch", "showBranch"} => call[r].branch \in DOMAIN branch
  PROVE  About(r) \in Restaurants
<1>1. call[r] \in Call
  BY DEF ShopType
<1>2. CASE call[r].op \in {"patchBranch", "showBranch"}
  BY <1>2 DEF ShopType, About, Branch
<1>3. CASE call[r].op \notin {"patchBranch", "showBranch"}
  <2>1. call[r].op \in {"open", "patch", "review", "upload", "confirm"}
    BY <1>1, <1>3 DEF Call
  <2> QED
    BY <1>1, <1>3, <2>1, CallsCarry DEF About
<1> QED
  BY <1>2, <1>3

\* The branch of a request that has found it is there.
BranchesFound ==
  \A r \in Requests :
    place[r] \in {"found", "checked"} /\ call[r].op \in {"patchBranch", "showBranch"} =>
      call[r].branch \in DOMAIN branch

\* One column of one row is set.
LEMMA BranchColumns ==
  ASSUME NEW t, t \in [DOMAIN t -> Branch], NEW b \in DOMAIN t, NEW v \in BOOLEAN
  PROVE  /\ [t EXCEPT ![b].open = v] \in [DOMAIN t -> Branch]
         /\ \A i \in DOMAIN t :
              LET u == [t EXCEPT ![b].open = v]
              IN u[i].restaurant = t[i].restaurant /\ u[i].active = t[i].active
         /\ [t EXCEPT ![b].active = v] \in [DOMAIN t -> Branch]
         /\ \A i \in DOMAIN t :
              LET u == [t EXCEPT ![b].active = v]
              IN /\ u[i].restaurant = t[i].restaurant
                 /\ u[i].active = IF i = b THEN v ELSE t[i].active
<1>1. t[b] \in Branch
  OBVIOUS
<1>2. /\ [t[b] EXCEPT !.open = v] \in Branch /\ [t[b] EXCEPT !.active = v] \in Branch
      /\ [t[b] EXCEPT !.open = v].restaurant = t[b].restaurant
      /\ [t[b] EXCEPT !.open = v].active = t[b].active
      /\ [t[b] EXCEPT !.active = v].restaurant = t[b].restaurant
      /\ [t[b] EXCEPT !.active = v].active = v
  BY <1>1 DEF Branch
<1> QED
  BY <1>2

LEMMA MediaColumn ==
  ASSUME NEW t, t \in [DOMAIN t -> Media], NEW m
  PROVE  /\ [t EXCEPT ![m].done = TRUE] \in [DOMAIN t -> Media]
         /\ \A i \in DOMAIN t :
              LET u == [t EXCEPT ![m].done = TRUE]
              IN /\ u[i].restaurant = t[i].restaurant /\ u[i].by = t[i].by /\ u[i].type = t[i].type
                 /\ u[i].done = IF i = m THEN TRUE ELSE t[i].done
<1> DEFINE u == [t EXCEPT ![m].done = TRUE]
<1>1. ASSUME NEW i \in DOMAIN t
      PROVE  u[i] = IF i = m THEN [t[i] EXCEPT !.done = TRUE] ELSE t[i]
  OBVIOUS
<1>2. ASSUME NEW i \in DOMAIN t
      PROVE  /\ u[i] \in Media
             /\ u[i].restaurant = t[i].restaurant /\ u[i].by = t[i].by /\ u[i].type = t[i].type
             /\ u[i].done = IF i = m THEN TRUE ELSE t[i].done
  <2>1. t[i] \in Media
    OBVIOUS
  <2>2. u[i] = IF i = m THEN [t[i] EXCEPT !.done = TRUE] ELSE t[i]
    BY <1>1
  <2> QED
    BY <2>1, <2>2 DEF Media
<1>3. u \in [DOMAIN t -> Media]
  BY <1>2
<1> QED
  BY <1>2, <1>3

LEMMA NextShopType ==
  ShopType /\ BranchesFound /\ [ShopNext]_shopVars => ShopType'
<1> SUFFICES ASSUME ShopType, BranchesFound, [ShopNext]_shopVars
             PROVE  ShopType'
  OBVIOUS
<1> USE DEF Places
<1>1. CASE UNCHANGED shopVars
  BY <1>1 DEF shopVars, rows, s3, ghosts, ShopType
<1>2. ASSUME NEW r \in Requests, ShopReads(r)
      PROVE  ShopType'
  <2>1. PICK p \in Places \ {"idle"} : Goto(r, p)
    BY <1>2, ShopReadsChange
  <2> QED
    BY <1>2, <2>1, GotoTyped, ShopReadsChange DEF ShopType, rows, s3, ghosts
<1>3. ASSUME NEW r \in Requests, Head(r)
      PROVE  ShopType'
  <2>1. PICK p \in Places \ {"idle"} : Goto(r, p)
    BY <1>3 DEF Head
  <2>2. call[r].op = "confirm" /\ call[r] \in Call
    BY <1>3 DEF Head, Does, ShopType
  <2>3. call[r].upload \in Uploads
    BY <2>2, CallsCarry
  <2>4. headed' \in [Requests -> Nat]
    BY <1>3, <2>3 DEF Head, ShopType
  <2> QED
    BY <1>3, <2>1, <2>4, GotoTyped DEF ShopType, Head, rows, s3
<1>4. ASSUME NEW r \in Requests, InsertBranch(r)
      PROVE  ShopType'
  <2> USE <1>4 DEF InsertBranch
  <2>1. Ends(r, "open")
    OBVIOUS
  <2>2. About(r) \in Restaurants
    BY <2>1, EndsMove, AboutType
  <2>3. PICK b \in Branches \ DOMAIN branch :
          /\ branch' = [i \in DOMAIN branch \cup {b} |->
               IF i = b THEN [restaurant |-> About(r), active |-> FALSE, open |-> TRUE]
               ELSE branch[i]]
          /\ Keep(r, b, About(r))
    OBVIOUS
  <2>4. DOMAIN branch' \subseteq Branches /\ branch' \in [DOMAIN branch' -> Branch]
    BY <2>2, <2>3 DEF ShopType, Branch
  <2>5. kept' \in [Branches -> [by : Requests \cup {Seed}, status : Statuses,
                                reviewer : Requests \cup {Seed}]]
    BY <2>2, <2>3 DEF ShopType, Keep
  <2> QED
    BY <2>1, <2>4, <2>5, EndsMove, GotoTyped DEF ShopType, s3
<1>5. ASSUME NEW r \in Requests, UpdateBranch(r)
      PROVE  ShopType'
  <2> USE <1>5 DEF UpdateBranch
  <2>1. Ends(r, "patchBranch")
    OBVIOUS
  <2>2. call[r].branch \in DOMAIN branch /\ call[r].open \in BOOLEAN \cup {Same}
    BY <2>1, EndsMove, CallsCarry DEF BranchesFound
  <2>3. About(r) \in Restaurants
    BY <2>1, <2>2, EndsMove, AboutType
  <2>4. DOMAIN branch' = DOMAIN branch /\ branch' \in [DOMAIN branch -> Branch]
    BY <2>2, BranchColumns DEF ShopType
  <2>5. kept' \in [Branches -> [by : Requests \cup {Seed}, status : Statuses,
                                reviewer : Requests \cup {Seed}]]
    BY <2>3 DEF ShopType, Keep
  <2> QED
    BY <2>1, <2>4, <2>5, EndsMove, GotoTyped DEF ShopType, s3
<1>6. ASSUME NEW r \in Requests, UpdateBranchStatus(r)
      PROVE  ShopType'
  <2> USE <1>6 DEF UpdateBranchStatus
  <2>1. Ends(r, "showBranch")
    OBVIOUS
  <2>2. call[r].branch \in DOMAIN branch /\ call[r].active \in BOOLEAN \cup {Same}
    BY <2>1, EndsMove, CallsCarry DEF BranchesFound
  <2>3. DOMAIN branch' = DOMAIN branch /\ branch' \in [DOMAIN branch -> Branch]
    <3>1. CASE call[r].active = Same
      BY <3>1 DEF ShopType
    <3>2. CASE call[r].active # Same
      <4>1. branch' = [branch EXCEPT ![call[r].branch].active = call[r].active]
        BY <3>2
      <4> QED
        BY <2>2, <3>2, <4>1, BranchColumns DEF ShopType
    <3> QED
      BY <3>1, <3>2
  <2>4. word' \in [Branches -> BOOLEAN]
    BY <2>2 DEF ShopType
  <2> QED
    BY <2>1, <2>3, <2>4, EndsMove, GotoTyped DEF ShopType, s3
<1>7. ASSUME NEW r \in Requests, UpdateRestaurant(r)
      PROVE  ShopType'
  <2> USE <1>7 DEF UpdateRestaurant
  <2>1. Ends(r, "patch")
    OBVIOUS
  <2>2. call[r].logo \in Uploads \cup {Blank, Same}
    BY <2>1, EndsMove, CallsCarry
  <2>3. logo' \in [Restaurants -> Uploads \cup {Blank}]
    BY <2>2 DEF ShopType
  <2> QED
    BY <2>1, <2>3, EndsMove, GotoTyped DEF ShopType, s3, ghosts
<1>8. ASSUME NEW r \in Requests, UpdateRestaurantStatus(r)
      PROVE  ShopType'
  <2> USE <1>8 DEF UpdateRestaurantStatus
  <2>1. Ends(r, "review")
    OBVIOUS
  <2>2. call[r].status \in Statuses
    BY <2>1, EndsMove, CallsCarry
  <2>3. status' \in [Restaurants -> Statuses]
    BY <2>2 DEF ShopType
  <2>4. reviewer' \in [Restaurants -> Requests \cup {Seed}]
    BY DEF ShopType
  <2> QED
    BY <2>1, <2>3, <2>4, EndsMove, GotoTyped DEF ShopType, s3
<1>9. ASSUME NEW r \in Requests, CreateMedia(r)
      PROVE  ShopType'
  <2> USE <1>9 DEF CreateMedia
  <2>1. Ends(r, "upload")
    OBVIOUS
  <2>2. call[r].restaurant \in Restaurants /\ call[r].user \in Users /\ call[r].type \in Types
    BY <2>1, EndsMove, CallsCarry
  <2>3. PICK m \in Uploads \ DOMAIN media :
          /\ media' = [i \in DOMAIN media \cup {m} |->
               IF i = m THEN [restaurant |-> call[r].restaurant, by |-> call[r].user,
                              type |-> call[r].type, done |-> FALSE]
               ELSE media[i]]
          /\ urls' = urls \cup {m}
    OBVIOUS
  <2>4. /\ DOMAIN media' \subseteq Uploads /\ media' \in [DOMAIN media' -> Media]
        /\ urls' \subseteq DOMAIN media'
    BY <2>2, <2>3 DEF ShopType, Media
  <2> QED
    BY <2>1, <2>4, EndsMove, GotoTyped DEF ShopType, ghosts
<1>10. ASSUME NEW r \in Requests, MarkCompleted(r)
       PROVE  ShopType'
  <2> USE <1>10 DEF MarkCompleted
  <2>1. Ends(r, "confirm")
    OBVIOUS
  <2>2. DOMAIN media' = DOMAIN media /\ media' \in [DOMAIN media -> Media]
    BY MediaColumn DEF ShopType
  <2> QED
    BY <2>1, <2>2, EndsMove, GotoTyped DEF ShopType, s3, ghosts
<1>11. ASSUME NEW m \in Uploads, NEW o \in Objects, Put(m, o)
       PROVE  ShopType'
  <2>1. object' \in [Uploads -> Objects \cup {"nothing"}] /\ puts' \in [Uploads -> Nat]
    BY <1>11 DEF ShopType, Put
  <2> QED
    BY <1>11, <2>1 DEF ShopType, Put, rows, ghosts
<1>12. ASSUME NEW m \in Uploads, Expire(m)
       PROVE  ShopType'
  BY <1>12 DEF ShopType, Expire, rows, ghosts
<1> QED
  BY <1>1, <1>2, <1>3, <1>4, <1>5, <1>6, <1>7, <1>8, <1>9, <1>10, <1>11, <1>12
  DEF ShopNext, ShopReads

\* Which actions write what.
LEMMA Writers ==
  ASSUME [ShopNext]_shopVars
  PROVE  /\ \/ UNCHANGED <<branch, word>>
            \/ \E r \in Requests :
                 InsertBranch(r) \/ UpdateBranch(r) \/ UpdateBranchStatus(r)
         /\ UNCHANGED kept \/ \E r \in Requests : InsertBranch(r) \/ UpdateBranch(r)
         /\ UNCHANGED media \/ \E r \in Requests : CreateMedia(r) \/ MarkCompleted(r)
         /\ UNCHANGED logo \/ \E r \in Requests : UpdateRestaurant(r)
         /\ UNCHANGED <<status, reviewer>> \/ \E r \in Requests : UpdateRestaurantStatus(r)
         /\ UNCHANGED <<object, puts>> \/ \E m \in Uploads : \E o \in Objects : Put(m, o)
         /\ UNCHANGED headed \/ \E r \in Requests : Head(r)
<1>1. CASE UNCHANGED shopVars
  BY <1>1 DEF shopVars, rows, s3, ghosts
<1>2. CASE \E r \in Requests : ShopReads(r)
  BY <1>2, ShopReadsChange DEF rows, s3, ghosts
<1>3. CASE \E r \in Requests : Head(r)
  BY <1>3 DEF Head, rows, s3
<1>4. CASE \E r \in Requests :
             InsertBranch(r) \/ UpdateBranch(r) \/ UpdateBranchStatus(r)
  BY <1>4 DEF InsertBranch, UpdateBranch, UpdateBranchStatus, s3
<1>5. CASE \E r \in Requests : UpdateRestaurant(r) \/ UpdateRestaurantStatus(r)
  BY <1>5 DEF UpdateRestaurant, UpdateRestaurantStatus, s3, ghosts
<1>6. CASE \E r \in Requests : CreateMedia(r) \/ MarkCompleted(r)
  BY <1>6 DEF CreateMedia, MarkCompleted, s3, ghosts
<1>7. CASE \E m \in Uploads : (\E o \in Objects : Put(m, o)) \/ Expire(m)
  BY <1>7 DEF Put, Expire, rows, ghosts
<1> QED
  BY <1>1, <1>2, <1>3, <1>4, <1>5, <1>6, <1>7 DEF ShopNext, ShopReads

\* The statements at the end.
ShopWrites(r) ==
  \/ InsertBranch(r) \/ UpdateBranch(r) \/ UpdateBranchStatus(r)
  \/ UpdateRestaurant(r) \/ UpdateRestaurantStatus(r)
  \/ CreateMedia(r) \/ MarkCompleted(r)

LEMMA WritesEnd ==
  ASSUME NEW r, ShopWrites(r)
  PROVE  \E op : Ends(r, op)
  BY DEF ShopWrites, InsertBranch, UpdateBranch, UpdateBranchStatus,
         UpdateRestaurant, UpdateRestaurantStatus, CreateMedia, MarkCompleted

LEMMA ShopSteps ==
  ASSUME [ShopNext]_shopVars
  PROVE  \/ UNCHANGED <<place, call, before>>
         \/ \E r \in Requests : ShopReads(r) \/ Head(r) \/ ShopWrites(r)
<1>1. CASE UNCHANGED shopVars
  BY <1>1 DEF shopVars
<1>2. CASE \E m \in Uploads : (\E o \in Objects : Put(m, o)) \/ Expire(m)
  BY <1>2 DEF Put, Expire
<1> QED
  BY <1>1, <1>2 DEF ShopNext, ShopReads, ShopWrites

\* One request moves at a time, never back to "idle" and never from "over".
LEMMA OneMoves ==
  ASSUME [ShopNext]_shopVars
  PROVE  \/ UNCHANGED <<place, call, before>>
         \/ \E r \in Requests : \E p \in Places \ {"idle"} : place[r] # "over" /\ Goto(r, p)
<1>1. ASSUME NEW r \in Requests, ShopReads(r)
      PROVE  place[r] # "over" /\ \E p \in Places \ {"idle"} : Goto(r, p)
  <2>1. place[r] # "over"
    BY <1>1 DEF ShopReads, FindBranch, FindActiveRestaurant, FindRestaurant,
                AssertCompletedMediaUrl, FindMedia, Fail
  <2> QED
    BY <1>1, <2>1, ShopReadsChange
<1>2. ASSUME NEW r \in Requests, Head(r)
      PROVE  place[r] # "over" /\ \E p \in Places \ {"idle"} : Goto(r, p)
  BY <1>2 DEF Head, Places
<1>3. ASSUME NEW r \in Requests, NEW op, Ends(r, op)
      PROVE  place[r] # "over" /\ \E p \in Places \ {"idle"} : Goto(r, p)
  BY <1>3 DEF Ends, Places
<1> QED
  BY <1>1, <1>2, <1>3, WritesEnd, ShopSteps

\* Who has begun goes on, and who is over stays so.
LEMMA RequestsGoOn ==
  ASSUME ShopType, [ShopNext]_shopVars
  PROVE  /\ call' = call
         /\ \A r \in Requests :
              /\ place[r] # "idle" => place'[r] # "idle" /\ before'[r] = before[r]
              /\ place[r] = "over" => place'[r] = "over"
              /\ \A q \in before'[r] : q \in Requests /\ (q \in before[r] \/ place[q] = "over")
<1>1. CASE UNCHANGED <<place, call, before>>
  BY <1>1 DEF ShopType
<1>2. ASSUME NEW r \in Requests, NEW p \in Places \ {"idle"}, place[r] # "over", Goto(r, p)
      PROVE  /\ call' = call
             /\ \A q \in Requests :
                  /\ place[q] # "idle" => place'[q] # "idle" /\ before'[q] = before[q]
                  /\ place[q] = "over" => place'[q] = "over"
                  /\ \A s \in before'[q] : s \in Requests /\ (s \in before[q] \/ place[s] = "over")
  <2>1. \A s \in before'[r] : s \in Requests /\ (s \in before[r] \/ place[s] = "over")
    BY <1>2 DEF Goto, Over, ShopType
  <2> QED
    BY <1>2, <2>1, GotoMoves, GotoTyped DEF ShopType
<1> QED
  BY <1>1, <1>2, OneMoves

\* What the updates of a branch do to its row.
LEMMA BranchUpdates ==
  ASSUME ShopType, BranchesFound, NEW r \in Requests,
         UpdateBranch(r) \/ UpdateBranchStatus(r)
  PROVE  /\ DOMAIN branch' = DOMAIN branch
         /\ \A b \in DOMAIN branch : branch'[b].restaurant = branch[b].restaurant
         /\ UpdateBranch(r) => \A b \in DOMAIN branch : branch'[b].active = branch[b].active
         /\ UpdateBranchStatus(r) /\ call[r].active # Same =>
              \A b \in DOMAIN branch :
                branch'[b].active = IF b = call[r].branch THEN call[r].active ELSE branch[b].active
<1> DEFINE n == call[r].branch
<1>1. branch \in [DOMAIN branch -> Branch]
  BY DEF ShopType
<1>2. CASE UpdateBranch(r)
  <2>1. n \in DOMAIN branch /\ call[r].open \in BOOLEAN \cup {Same}
    BY <1>2, EndsMove, CallsCarry DEF BranchesFound, UpdateBranch
  <2>2. CASE call[r].open = Same
    BY <1>2, <2>2 DEF UpdateBranch, UpdateBranchStatus, Ends, Does
  <2>3. CASE call[r].open # Same
    <3>1. branch' = [branch EXCEPT ![n].open = call[r].open] /\ call[r].open \in BOOLEAN
      BY <1>2, <2>1, <2>3 DEF UpdateBranch
    <3>2. ~UpdateBranchStatus(r)
      BY <1>2 DEF UpdateBranch, UpdateBranchStatus, Ends, Does
    <3> QED
      BY <1>1, <2>1, <3>1, <3>2, BranchColumns
  <2> QED
    BY <2>2, <2>3
<1>3. CASE UpdateBranchStatus(r)
  <2>1. n \in DOMAIN branch /\ call[r].active \in BOOLEAN \cup {Same}
    BY <1>3, EndsMove, CallsCarry DEF BranchesFound, UpdateBranchStatus
  <2>2. CASE call[r].active = Same
    BY <1>3, <2>2 DEF UpdateBranch, UpdateBranchStatus, Ends, Does
  <2>3. CASE call[r].active # Same
    <3>1. branch' = [branch EXCEPT ![n].active = call[r].active] /\ call[r].active \in BOOLEAN
      BY <1>3, <2>1, <2>3 DEF UpdateBranchStatus
    <3>2. ~UpdateBranch(r)
      BY <1>3 DEF UpdateBranch, UpdateBranchStatus, Ends, Does
    <3> QED
      BY <1>1, <2>1, <3>1, <3>2, BranchColumns
  <2> QED
    BY <2>2, <2>3
<1> QED
  BY <1>2, <1>3

\* No row goes away, changes its restaurant or loses what it has.
LEMMA RowsStay ==
  ASSUME ShopType, BranchesFound, [ShopNext]_shopVars
  PROVE  /\ \A b \in DOMAIN branch :
              b \in DOMAIN branch' /\ branch'[b].restaurant = branch[b].restaurant
         /\ \A m \in DOMAIN media :
              /\ m \in DOMAIN media' /\ media'[m] \in Media
              /\ media'[m].restaurant = media[m].restaurant /\ media'[m].type = media[m].type
              /\ media[m].done => media'[m].done
<1>1. \A b \in DOMAIN branch :
        b \in DOMAIN branch' /\ branch'[b].restaurant = branch[b].restaurant
  <2>1. CASE UNCHANGED branch
    BY <2>1
  <2>2. CASE \E r \in Requests : InsertBranch(r)
    BY <2>2 DEF InsertBranch
  <2>3. ASSUME NEW r \in Requests, UpdateBranch(r) \/ UpdateBranchStatus(r)
        PROVE  \A b \in DOMAIN branch :
                 b \in DOMAIN branch' /\ branch'[b].restaurant = branch[b].restaurant
    BY <2>3, BranchUpdates
  <2> QED
    BY <2>1, <2>2, <2>3, Writers
<1>2. ASSUME NEW m \in DOMAIN media
      PROVE  /\ m \in DOMAIN media' /\ media'[m] \in Media
             /\ media'[m].restaurant = media[m].restaurant /\ media'[m].type = media[m].type
             /\ media[m].done => media'[m].done
  <2>0. media[m] \in Media
    BY DEF ShopType
  <2>1. CASE UNCHANGED media
    BY <2>0, <2>1
  <2>2. CASE \E r \in Requests : CreateMedia(r)
    BY <2>0, <2>2 DEF CreateMedia
  <2>3. CASE \E r \in Requests : MarkCompleted(r)
    <3>1. PICK r \in Requests : media' = [media EXCEPT ![call[r].upload].done = TRUE]
      BY <2>3 DEF MarkCompleted
    <3>2. media \in [DOMAIN media -> Media]
      BY DEF ShopType
    <3>3. /\ media' \in [DOMAIN media -> Media]
          /\ media'[m].restaurant = media[m].restaurant /\ media'[m].type = media[m].type
          /\ media'[m].done = IF m = call[r].upload THEN TRUE ELSE media[m].done
      BY <3>1, <3>2, MediaColumn
    <3>4. m \in DOMAIN media' /\ media'[m] \in Media
      BY <3>3
    <3> QED
      BY <3>3, <3>4
  <2> QED
    BY <2>1, <2>2, <2>3, Writers
<1> QED
  BY <1>1, <1>2

\* A request moves by an action of its own.
LEMMA MoverActs ==
  ASSUME ShopType, [ShopNext]_shopVars, NEW r \in Requests, place'[r] # place[r]
  PROVE  \/ ShopReads(r) \/ Head(r)
         \/ ShopWrites(r) /\ place'[r] = "over"
<1>1. ASSUME NEW q \in Requests, ShopReads(q) \/ Head(q) \/ ShopWrites(q)
      PROVE  \E p \in Places \ {"idle"} : Goto(q, p)
  <2>1. ASSUME NEW op, Ends(q, op)
        PROVE  Goto(q, "over") /\ "over" \in Places \ {"idle"}
    BY <2>1, EndsMove
  <2>2. Head(q) => \E p \in Places \ {"idle"} : Goto(q, p)
    BY DEF Head, Places
  <2> QED
    BY <1>1, <2>1, <2>2, ShopReadsChange, WritesEnd
<1>2. PICK q \in Requests : ShopReads(q) \/ Head(q) \/ ShopWrites(q)
  BY ShopSteps
<1>3. q = r
  BY <1>1, <1>2, GotoMoves
<1>4. ShopWrites(r) => place'[r] = "over"
  BY WritesEnd, EndsMove
<1> QED
  BY <1>2, <1>3, <1>4

\* What a request knows when it gets to "found" or to its statement.
LEMMA BecomesFound ==
  ASSUME ShopType, [ShopNext]_shopVars, NEW r \in Requests,
         place[r] = "idle", place'[r] \in {"found", "checked"},
         call[r].op \in {"patchBranch", "showBranch"}
  PROVE  call[r].branch \in DOMAIN branch
<1>1. ShopReads(r)
  BY MoverActs DEF Head
<1> QED
  BY <1>1, GotoMoves DEF ShopReads, Places, FindBranch, FindActiveRestaurant,
     FindRestaurant, AssertCompletedMediaUrl, FindMedia, Fail, Check,
     Does

LEMMA BecomesChecked ==
  ASSUME ShopType, [ShopNext]_shopVars, NEW r \in Requests,
         place[r] # "checked", place'[r] = "checked"
  PROVE  /\ call[r].op = "patch" /\ call[r].logo \in Uploads =>
              Confirmed(call[r].logo, call[r].restaurant, "logo")
         /\ call[r].op \in {"open", "patchBranch"} => MayKeep(r)
         /\ call[r].op = "confirm" => Head(r)
<1>1. ShopReads(r) \/ Head(r)
  BY MoverActs
<1>2. CASE Head(r)
  BY <1>2 DEF Head, Does
<1>3. CASE ShopReads(r)
  BY <1>3, GotoMoves DEF ShopReads, Places, FindBranch, FindActiveRestaurant,
     FindRestaurant, AssertCompletedMediaUrl, FindMedia, Fail, Check,
     Does
<1> QED
  BY <1>1, <1>2, <1>3

-----------------------------------------------------------------------------
\* A branch is active only while an admin's last word on it was yes.
WordIsKept == \A b \in DOMAIN branch : branch[b].active => word[b]

\* What a PATCH has checked stays so until its statement.
LogoChecked ==
  \A r \in Requests :
    place[r] = "checked" /\ call[r].op = "patch" /\ call[r].logo \in Uploads =>
      Confirmed(call[r].logo, call[r].restaurant, "logo")

\* An image that a HEAD accepted is the last one put, or another was put since.
HeadsSaw ==
  /\ \A m \in Uploads : object[m] = "nothing" <=> puts[m] = 0
  /\ \A r \in Requests : call[r].op = "confirm" /\ headed[r] # 0 =>
       LET m == call[r].upload
       IN headed[r] <= puts[m] /\ (headed[r] = puts[m] => object[m] = "image")
  /\ \A r \in Requests : call[r].op = "confirm" /\ place[r] = "checked" => headed[r] # 0
  /\ \A m \in DOMAIN media : media[m].done =>
       \E r \in Requests : call[r].op = "confirm" /\ call[r].upload = m /\ headed[r] # 0

\* A restaurant that stopped being active after a request found it so was set
\* by a request that overlaps it.
IsAbout(r, x) == About(r) = x

StatusChanged ==
  /\ \A r \in Requests : \A q \in before[r] : place[q] = "over"
  /\ \A r \in Requests, x \in Restaurants :
       /\ place[r] = "checked" /\ call[r].op \in {"open", "patchBranch"}
       /\ IsAbout(r, x) /\ status[x] # "active"
       => Overlapped(reviewer[x], r) /\ place[reviewer[x]] # "idle"
  /\ \A b \in Branches : kept[b].status # "active" =>
       /\ Overlapped(kept[b].reviewer, kept[b].by)
       /\ place[kept[b].reviewer] # "idle" /\ place[kept[b].by] # "idle"

ShopInv ==
  /\ ShopType /\ BranchesFound /\ WordIsKept
  /\ LogoChecked /\ LogoWasConfirmed
  /\ HeadsSaw /\ StatusChanged

LEMMA InitShopInv ==
  ASSUME ShopInit
  PROVE  ShopInv
<1>1. ShopType
  BY InitShopType
<1>2. BranchesFound /\ WordIsKept /\ LogoChecked /\ LogoWasConfirmed
  BY StartAssumption DEF ShopInit, BranchesFound, WordIsKept, LogoChecked,
         LogoWasConfirmed
<1>3. HeadsSaw
  BY StartAssumption DEF ShopInit, HeadsSaw
<1>4. StatusChanged
  BY DEF ShopInit, StatusChanged
<1> QED
  BY <1>1, <1>2, <1>3, <1>4 DEF ShopInv

LEMMA NextFound ==
  ASSUME ShopType, BranchesFound, [ShopNext]_shopVars
  PROVE  BranchesFound'
<1> SUFFICES ASSUME NEW r \in Requests, place'[r] \in {"found", "checked"},
                    call[r].op \in {"patchBranch", "showBranch"}
             PROVE  call[r].branch \in DOMAIN branch'
  BY RequestsGoOn DEF BranchesFound
<1>1. CASE place[r] \in {"found", "checked"}
  BY <1>1, RowsStay DEF BranchesFound
<1>2. CASE place[r] = "idle"
  BY <1>2, BecomesFound, RowsStay
<1>3. place[r] # "over"
  BY RequestsGoOn
<1> QED
  BY <1>1, <1>2, <1>3 DEF ShopType

LEMMA NextWord ==
  ASSUME ShopType, BranchesFound, WordIsKept, [ShopNext]_shopVars
  PROVE  WordIsKept'
<1>1. CASE UNCHANGED <<branch, word>>
  BY <1>1 DEF WordIsKept
<1>2. ASSUME NEW r \in Requests, InsertBranch(r)
      PROVE  WordIsKept'
  BY <1>2 DEF InsertBranch, WordIsKept
<1>3. ASSUME NEW r \in Requests, UpdateBranch(r)
      PROVE  WordIsKept'
  BY <1>3, BranchUpdates DEF UpdateBranch, WordIsKept
<1>4. ASSUME NEW r \in Requests, UpdateBranchStatus(r)
      PROVE  WordIsKept'
  <2>1. CASE call[r].active = Same
    BY <1>4, <2>1 DEF UpdateBranchStatus, WordIsKept
  <2>2. CASE call[r].active # Same
    <3>1. word' = [word EXCEPT ![call[r].branch] = call[r].active]
      BY <1>4, <2>2 DEF UpdateBranchStatus
    <3> QED
      BY <1>4, <2>2, <3>1, BranchUpdates DEF WordIsKept, ShopType
  <2> QED
    BY <2>1, <2>2
<1> QED
  BY <1>1, <1>2, <1>3, <1>4, Writers

LEMMA ConfirmedStays ==
  ASSUME ShopType, BranchesFound, [ShopNext]_shopVars,
         NEW m, NEW x, NEW type, Confirmed(m, x, type)
  PROVE  Confirmed(m, x, type)'
<1>1. /\ m \in DOMAIN media /\ media[m].restaurant = x
      /\ media[m].type = type /\ media[m].done = TRUE
  BY DEF Confirmed
<1>2. /\ m \in DOMAIN media' /\ media'[m] \in Media
      /\ media'[m].restaurant = x /\ media'[m].type = type /\ media'[m].done
  BY <1>1, RowsStay
<1> QED
  BY <1>2 DEF Confirmed, Media

LEMMA NextLogo ==
  ASSUME ShopType, BranchesFound, LogoChecked, LogoWasConfirmed, [ShopNext]_shopVars
  PROVE  LogoChecked' /\ LogoWasConfirmed'
<1>1. LogoChecked'
  <2> SUFFICES ASSUME NEW r \in Requests, place'[r] = "checked", call[r].op = "patch",
                      call[r].logo \in Uploads
               PROVE  Confirmed(call[r].logo, call[r].restaurant, "logo")'
    BY RequestsGoOn DEF LogoChecked, Confirmed
  <2>1. Confirmed(call[r].logo, call[r].restaurant, "logo")
    BY BecomesChecked DEF LogoChecked
  <2>2. \A m, x, type : Confirmed(m, x, type) => Confirmed(m, x, type)'
    BY ConfirmedStays
  <2> QED
    BY <2>1, <2>2, RequestsGoOn DEF Confirmed
<1>2. LogoWasConfirmed'
  <2> SUFFICES ASSUME NEW x \in Restaurants, logo'[x] # Blank
               PROVE  Confirmed(logo'[x], x, "logo")
    BY ConfirmedStays DEF LogoWasConfirmed, Confirmed
  <2>1. CASE logo'[x] = logo[x]
    BY <2>1 DEF LogoWasConfirmed
  <2>2. ASSUME NEW r \in Requests, UpdateRestaurant(r), logo'[x] # logo[x]
        PROVE  Confirmed(logo'[x], x, "logo")
    <3>1. /\ place[r] = "checked" /\ call[r].op = "patch"
          /\ call[r].logo \in Uploads \cup {Blank, Same}
      BY <2>2, EndsMove, CallsCarry DEF UpdateRestaurant
    <3>2. x = call[r].restaurant /\ logo'[x] = call[r].logo /\ call[r].logo # Same
      BY <2>2 DEF UpdateRestaurant, ShopType
    <3> QED
      BY <3>1, <3>2 DEF LogoChecked
  <2> QED
    BY <2>1, <2>2, Writers
<1> QED
  BY <1>1, <1>2

LEMMA NextHeads ==
  ASSUME ShopType, BranchesFound, HeadsSaw, [ShopNext]_shopVars
  PROVE  HeadsSaw'
<1> USE DEF HeadsSaw
<1>0. \A r \in Requests : call[r].op = "confirm" => call[r].upload \in Uploads
  BY CallsCarry DEF ShopType
<1>1. ASSUME NEW m \in Uploads, NEW o \in Objects, Put(m, o)
      PROVE  HeadsSaw'
  <2>1. /\ object' = [object EXCEPT ![m] = o] /\ puts' = [puts EXCEPT ![m] = puts[m] + 1]
        /\ UNCHANGED <<media, place, call, headed>>
    BY <1>1 DEF Put, rows, ghosts
  <2>2. \A i \in Uploads : puts[i] \in Nat /\ \A r \in Requests : headed[r] \in Nat
    BY DEF ShopType
  <2>3. \A i \in Uploads : object'[i] = "nothing" <=> puts'[i] = 0
    BY <2>1, <2>2 DEF ShopType, Objects
  <2>4. \A r \in Requests : call[r].op = "confirm" /\ headed[r] # 0 =>
          LET i == call[r].upload
          IN headed[r] <= puts'[i] /\ (headed[r] = puts'[i] => object'[i] = "image")
    BY <1>0, <2>1, <2>2 DEF ShopType
  <2> QED
    BY <2>1, <2>3, <2>4
<1>2. ASSUME NEW r \in Requests, Head(r)
      PROVE  HeadsSaw'
  <2>1. /\ call[r].op = "confirm" /\ place[r] = "found" /\ call' = call
        /\ UNCHANGED <<media, object, puts>>
    BY <1>2 DEF Head, rows, s3, Does, Goto
  <2>2. CASE object[call[r].upload] = "image"
    <3>1. /\ headed' = [headed EXCEPT ![r] = puts[call[r].upload]]
          /\ puts[call[r].upload] # 0
      BY <1>0, <1>2, <2>1, <2>2 DEF Head
    <3>2. \A q \in Requests : headed'[q] = IF q = r THEN puts[call[r].upload] ELSE headed[q]
      BY <3>1 DEF ShopType
    <3>3. \A q \in Requests \ {r} : place'[q] = place[q]
      BY <1>2, GotoMoves DEF Head, Places
    <3>4. \A q \in Requests : call[q].op = "confirm" /\ headed'[q] # 0 =>
            LET m == call[q].upload
            IN headed'[q] <= puts[m] /\ (headed'[q] = puts[m] => object[m] = "image")
      BY <1>0, <2>1, <2>2, <3>2 DEF ShopType
    <3> QED
      BY <2>1, <3>1, <3>2, <3>3, <3>4
  <2>3. CASE object[call[r].upload] # "image"
    <3>1. headed' = headed /\ Goto(r, "over")
      BY <1>2, <2>3 DEF Head
    <3>2. \A q \in Requests : place'[q] = "checked" => place[q] = "checked"
      BY <3>1, GotoMoves DEF Places
    <3> QED
      BY <2>1, <3>1, <3>2
  <2> QED
    BY <2>2, <2>3
<1>3. ASSUME UNCHANGED <<object, puts, headed>>
      PROVE  HeadsSaw'
  <2>1. \A r \in Requests : call[r].op = "confirm" /\ place'[r] = "checked" => headed[r] # 0
    <3> SUFFICES ASSUME NEW r \in Requests, call[r].op = "confirm", place'[r] = "checked"
                 PROVE  headed[r] # 0
      OBVIOUS
    <3>1. CASE Head(r)
      <4>1. object[call[r].upload] = "image"
        BY <3>1, GotoMoves DEF Head, Places
      <4>2. headed'[r] = puts[call[r].upload]
        BY <3>1, <4>1 DEF Head, ShopType
      <4> QED
        BY <1>0, <1>3, <4>1, <4>2
    <3> QED
      BY <3>1, BecomesChecked
  <2>2. ASSUME NEW m \in DOMAIN media', media'[m].done
        PROVE  \E r \in Requests : call[r].op = "confirm" /\ call[r].upload = m /\ headed[r] # 0
    <3>1. CASE UNCHANGED media
      BY <2>2, <3>1
    <3>2. CASE \E r \in Requests : CreateMedia(r)
      BY <2>2, <3>2 DEF CreateMedia
    <3>3. ASSUME NEW r \in Requests, MarkCompleted(r)
          PROVE  \E q \in Requests : call[q].op = "confirm" /\ call[q].upload = m /\ headed[q] # 0
      <4>1. /\ place[r] = "checked" /\ call[r].op = "confirm"
            /\ media' = [media EXCEPT ![call[r].upload].done = TRUE]
        BY <3>3, EndsMove DEF MarkCompleted
      <4>2. media \in [DOMAIN media -> Media] /\ m \in DOMAIN media
        BY <2>2, <4>1 DEF ShopType
      <4>3. media'[m].done = IF m = call[r].upload THEN TRUE ELSE media[m].done
        BY <4>1, <4>2, MediaColumn
      <4>4. m = call[r].upload \/ media[m].done
        BY <2>2, <4>3
      <4> QED
        BY <4>1, <4>2, <4>4
    <3> QED
      BY <3>1, <3>2, <3>3, Writers
  <2> QED
    BY <1>3, <2>1, <2>2, RequestsGoOn
<1> QED
  BY <1>1, <1>2, <1>3, Writers

LEMMA NextStatus ==
  ASSUME ShopType, BranchesFound, StatusChanged, [ShopNext]_shopVars
  PROVE  StatusChanged'
<1> USE DEF StatusChanged
<1>1. \A r \in Requests : \A q \in before'[r] : place'[q] = "over"
  BY RequestsGoOn
<1>2. ASSUME NEW r \in Requests, NEW x \in Restaurants, place'[r] = "checked",
             call[r].op \in {"open", "patchBranch"}, IsAbout(r, x)', status'[x] # "active"
      PROVE  Overlapped(reviewer[x], r)' /\ place'[reviewer'[x]] # "idle"
  <2>1. call[r].op = "patchBranch" => call[r].branch \in DOMAIN branch
    BY <1>2, BecomesFound, RequestsGoOn DEF BranchesFound, ShopType
  <2>2. IsAbout(r, x)
    BY <2>1, <1>2, RowsStay, RequestsGoOn DEF IsAbout, About
  <2>3. place[r] # "checked" => status[x] = "active"
    BY <1>2, <2>2, BecomesChecked DEF MayKeep, IsAbout
  <2>4. CASE status'[x] = status[x] /\ reviewer'[x] = reviewer[x]
    <3>1. place[r] = "checked" /\ status[x] # "active"
      BY <1>2, <2>2, <2>3, <2>4
    <3>2. Overlapped(reviewer[x], r) /\ place[reviewer[x]] # "idle"
      BY <1>2, <2>2, <3>1
    <3> QED
      BY <2>4, <3>1, <3>2, RequestsGoOn DEF Overlapped
  <2>5. ASSUME NEW q \in Requests, UpdateRestaurantStatus(q),
               ~(status'[x] = status[x] /\ reviewer'[x] = reviewer[x])
        PROVE  Overlapped(reviewer[x], r)' /\ place'[reviewer'[x]] # "idle"
    <3>1. /\ place[q] = "checked" /\ call[q].op = "review"
          /\ before' = before /\ place'[q] = "over"
      BY <2>5, EndsMove DEF UpdateRestaurantStatus
    <3>2. reviewer'[x] = q
      BY <2>2, <2>5 DEF UpdateRestaurantStatus, ShopType
    <3>3. q # r /\ place[r] = "checked"
      BY <1>2, <2>5, <3>1, EndsMove DEF UpdateRestaurantStatus
    <3> QED
      BY <3>1, <3>2, <3>3 DEF Overlapped
  <2> QED
    BY <2>2, <2>4, <2>5, Writers
<1>3. ASSUME NEW b \in Branches, kept'[b].status # "active"
      PROVE  /\ Overlapped(kept[b].reviewer, kept[b].by)'
             /\ place'[kept'[b].reviewer] # "idle" /\ place'[kept'[b].by] # "idle"
  <2>1. CASE kept'[b] = kept[b]
    BY <1>3, <2>1, RequestsGoOn DEF Overlapped
  <2>2. ASSUME NEW r \in Requests, InsertBranch(r) \/ UpdateBranch(r), kept'[b] # kept[b]
        PROVE  /\ Overlapped(kept[b].reviewer, kept[b].by)'
               /\ place'[kept'[b].reviewer] # "idle" /\ place'[kept'[b].by] # "idle"
    <3> DEFINE x == About(r)
    <3>1. PICK op \in {"open", "patchBranch"} : Ends(r, op)
      BY <2>2 DEF InsertBranch, UpdateBranch
    <3>2. place[r] = "checked" /\ call[r].op \in {"open", "patchBranch"} /\ before' = before
      BY <3>1, EndsMove
    <3>3. kept'[b] = [by |-> r, status |-> status[x], reviewer |-> reviewer[x]]
      BY <2>2 DEF InsertBranch, UpdateBranch, Keep, ShopType
    <3>4. x \in Restaurants
      BY <3>2, AboutType DEF BranchesFound
    <3>5. Overlapped(reviewer[x], r) /\ place[reviewer[x]] # "idle"
      BY <1>3, <3>2, <3>3, <3>4 DEF IsAbout
    <3> QED
      BY <3>2, <3>3, <3>5, RequestsGoOn DEF Overlapped
  <2> QED
    BY <2>1, <2>2, Writers
<1> QED
  BY <1>1, <1>2, <1>3, RequestsGoOn

LEMMA NextShopInv ==
  ShopInv /\ [ShopNext]_shopVars => ShopInv'
  BY NextShopType, NextFound, NextWord, NextLogo, NextHeads, NextStatus DEF ShopInv

\* The inductive invariant of the storefront, whatever is asked of it.
THEOREM ShopInvariant == ShopSpec => []ShopInv
<1>1. ShopInit => ShopInv
  BY InitShopInv
<1> QED
  BY <1>1, NextShopInv, PTL DEF ShopSpec

\* Type correctness: every row, upload and request of the storefront has its shape.
THEOREM StorefrontIsTyped == ShopSpec => []ShopType
<1>1. ShopInv => ShopType
  BY DEF ShopInv
<1> QED
  BY <1>1, ShopInvariant, PTL

\* A visible branch is one that an admin last said yes to: no creation and no
\* PATCH, on whatever row it read, shows one.
THEOREM AdminsShowBranches == ShopSpec => []VisibleByReview
<1>1. ShopInv => VisibleByReview
  BY DEF ShopInv, WordIsKept, VisibleByReview, Visible
<1> QED
  BY <1>1, ShopInvariant, PTL

\* A restaurant's logo is an upload that was confirmed, as a logo and for it:
\* what a PATCH has checked cannot be taken back before its statement.
THEOREM LogosWereConfirmed == ShopSpec => []LogoWasConfirmed
<1>1. ShopInv => LogoWasConfirmed
  BY DEF ShopInv
<1> QED
  BY <1>1, ShopInvariant, PTL

\* Behind a completed upload is the announced image, or the client has put
\* another one after every HEAD that accepted it.
THEOREM OnlyLatePutsSwap == ShopSpec => []SwapNeedsLatePut
<1>1. ShopInv => SwapNeedsLatePut
  <2> SUFFICES ASSUME ShopInv, NEW m \in DOMAIN media, media[m].done, object[m] # "image"
               PROVE  LET heads == {r \in Requests : /\ Does(r, "confirm")
                                                     /\ call[r].upload = m /\ headed[r] # 0}
                      IN heads # {} /\ \A r \in heads : headed[r] < puts[m]
    BY DEF SwapNeedsLatePut
  <2>1. m \in Uploads /\ puts[m] \in Nat /\ \A r \in Requests : headed[r] \in Nat
    BY DEF ShopInv, ShopType
  <2>2. \A r \in Requests : Does(r, "confirm") /\ call[r].upload = m /\ headed[r] # 0 =>
          headed[r] < puts[m]
    BY <2>1 DEF ShopInv, HeadsSaw, Does
  <2>3. \E r \in Requests : Does(r, "confirm") /\ call[r].upload = m /\ headed[r] # 0
    BY DEF ShopInv, HeadsSaw, Does
  <2> QED
    BY <2>2, <2>3
<1> QED
  BY <1>1, ShopInvariant, PTL

\* A branch is made or changed for its owner in a restaurant that is not
\* active only by a request that overlaps the review which set that status.
THEOREM BranchesAreKeptWhileActive == ShopSpec => []KeptWhileActive
<1>1. ShopInv => KeptWhileActive
  BY DEF ShopInv, StatusChanged, KeptWhileActive
<1> QED
  BY <1>1, ShopInvariant, PTL
=============================================================================
