--------------------------- MODULE AddressProofs ---------------------------
(***************************************************************************)
(* Proofs about Address, for any users, requests, calls and rows: type     *)
(* correctness, that two defaults need overlapping requests, and that an   *)
(* answered update stands.                                                 *)
(***************************************************************************)
EXTENDS Address, TLAPS

\* A request knows only requests that were over when it began.
BeforeIsOver ==
  \A r \in Requests : \A q \in before[r] : pc[q] = "over"

\* The request that made a row default is past its write.
Setters ==
  \A i \in Ids :
    setter[i] \in Requests => pc[setter[i]] \in {"rereading", "over"}

\* Between its two statements a request meets no default older than itself.
Cleared ==
  \A r \in Requests : pc[r] = "writing" /\ MakesDefault(r) =>
    \A i \in default : owner[i] = call[r].user =>
      setter[i] \in Requests /\ setter[i] \notin before[r]

\* The rows from nextId on do not exist yet.
Fresh == \A i \in Ids : i >= nextId => owner[i] = Nobody

AddressInv ==
  /\ TypeOK /\ BeforeIsOver /\ Setters /\ Cleared /\ Fresh
  /\ TwoDefaultsNeedOverlap

-----------------------------------------------------------------------------
LEMMA InitEstablishes == Init => AddressInv
<1> SUFFICES ASSUME Init PROVE AddressInv
  OBVIOUS
<1> USE DEF Init, Ids
<1>0. owner \in [Ids -> Users \cup {Nobody}]
  BY MaxIdAssumption, InitOwnerAssumption
<1>1. default \subseteq {i \in Ids : owner[i] # Nobody}
  BY MaxIdAssumption, InitOwnerAssumption, NobodyAssumption
<1>2. nextId \in Nat \ {0}
  BY MaxIdAssumption
<1>3. TypeOK
  <2>1. /\ text \in [Ids -> Requests \cup {NoRequest}]
        /\ setter \in [Ids -> Requests \cup {NoRequest}]
        /\ before \in [Requests -> SUBSET Requests]
    OBVIOUS
  <2>2. /\ pc \in [Requests -> {"idle", "clearing", "writing", "rereading", "over"}]
        /\ outcome \in [Requests -> {"none", "ok", "not_found", "error"}]
        /\ call \in [Requests -> Calls]
    OBVIOUS
  <2>. QED  BY <1>0, <1>1, <1>2, <2>1, <2>2 DEF TypeOK
<1>4. BeforeIsOver /\ Setters /\ Cleared
  BY NoRequestAssumption DEF BeforeIsOver, Setters, Cleared
<1>5. Fresh
  BY MaxIdAssumption DEF Fresh
<1>6. TwoDefaultsNeedOverlap
  BY DEF TwoDefaultsNeedOverlap
<1>. QED  BY <1>3, <1>4, <1>5, <1>6 DEF AddressInv

\* Begin, SkipUpdate, Reread, RejectUpdate, Fail: the rows stay.
LEMMA RowsStay ==
  ASSUME AddressInv, UNCHANGED <<rowVars, call>>,
         NEW r \in Requests, pc[r] # "over",
         NEW where \in {"clearing", "writing", "rereading", "over"},
         pc' = [pc EXCEPT ![r] = where],
         outcome' \in [Requests -> {"none", "ok", "not_found", "error"}],
         \/ before' = before
         \/ pc[r] = "idle" /\ before' = [before EXCEPT ![r] = Over],
         where = "writing" => ~MakesDefault(r),
         pc[r] = "rereading" => where = "over"
  PROVE  AddressInv'
<1> USE DEF AddressInv, rowVars
<1>1. TypeOK'
  <2>1. before' \in [Requests -> SUBSET Requests]
    <3>1. Over \subseteq Requests
      BY DEF Over
    <3>. QED  BY <3>1 DEF TypeOK
  <2>2. pc' \in [Requests -> {"idle", "clearing", "writing", "rereading", "over"}]
    BY DEF TypeOK
  <2>. QED  BY <2>1, <2>2 DEF TypeOK
<1>2. BeforeIsOver'
  BY DEF BeforeIsOver, TypeOK, Over
<1>3. Setters'
  BY DEF Setters, TypeOK
<1>4. Cleared'
  BY DEF Cleared, TypeOK, MakesDefault
<1>5. Fresh'
  BY DEF Fresh, TypeOK
<1>6. TwoDefaultsNeedOverlap'
  <2> SUFFICES ASSUME NEW i \in default, NEW j \in default,
                      i # j, owner[i] = owner[j]
               PROVE  Overlapped(setter[i], setter[j])'
    BY DEF TwoDefaultsNeedOverlap
  <2>1. Overlapped(setter[i], setter[j])
    BY DEF TwoDefaultsNeedOverlap
  <2>2. pc[setter[i]] # "idle" /\ pc[setter[j]] # "idle"
    BY <2>1 DEF Overlapped, Setters, TypeOK
  <2>. QED  BY <2>1, <2>2 DEF Overlapped, TypeOK
<1>. QED  BY <1>1, <1>2, <1>3, <1>4, <1>5, <1>6

LEMMA ClearKeeps ==
  ASSUME AddressInv, NEW r \in Requests, Clear(r)
  PROVE  AddressInv'
<1> USE DEF AddressInv, Clear, Continue, Of
<1>1. TypeOK'
  BY DEF TypeOK
<1>2. BeforeIsOver' /\ Setters' /\ Fresh'
  BY DEF BeforeIsOver, Setters, Fresh, TypeOK
<1>3. Cleared'
  BY DEF Cleared, TypeOK, MakesDefault
<1>4. TwoDefaultsNeedOverlap'
  BY DEF TwoDefaultsNeedOverlap, Overlapped
<1>. QED  BY <1>1, <1>2, <1>3, <1>4

\* Insert and Update: the request r fills the row k of its user.
LEMMA PutKeeps ==
  ASSUME AddressInv, NEW r \in Requests, NEW k \in Ids, Put(r, k),
         pc[r] = "writing",
         NEW where \in {"rereading", "over"}, pc' = [pc EXCEPT ![r] = where],
         outcome' \in [Requests -> {"none", "ok", "not_found", "error"}],
         nextId' \in {nextId, nextId + 1}, k < nextId',
         call[r].user \in Users,
         owner' = [owner EXCEPT ![k] = call[r].user],
         owner[k] \in {Nobody, call[r].user},
         UNCHANGED <<call, before>>
  PROVE  AddressInv'
<1> USE DEF AddressInv, Put
<1>0. k \in default => owner[k] = call[r].user
  BY DEF TypeOK
<1>1. default' \subseteq default \cup {k}
  OBVIOUS
<1>2. \A i \in default' \ {k} : /\ i \in default
                                /\ owner'[i] = owner[i]
                                /\ setter'[i] = setter[i]
  BY <1>1 DEF TypeOK
<1>3. owner'[k] = call[r].user
  BY DEF TypeOK
<1>4. k \in default' => \/ MakesDefault(r) /\ setter'[k] = r
                        \/ k \in default /\ setter'[k] = setter[k]
  BY DEF TypeOK, MakesDefault
<1>5. \A i \in Ids : setter[i] # r
  BY DEF Setters
<1>6. TypeOK'
  <2>1. default' \subseteq {i \in Ids : owner'[i] # Nobody}
    BY <1>1, <1>3, NobodyAssumption DEF TypeOK
  <2>2. /\ owner' \in [Ids -> Users \cup {Nobody}]
        /\ setter' \in [Ids -> Requests \cup {NoRequest}]
        /\ text' \in [Ids -> Requests \cup {NoRequest}]
        /\ nextId' \in Nat \ {0}
    BY DEF TypeOK
  <2>. QED  BY <2>1, <2>2 DEF TypeOK
<1>7. BeforeIsOver'
  BY DEF BeforeIsOver, TypeOK
<1>8. Setters'
  BY DEF Setters, TypeOK
<1>9. Fresh'
  BY DEF Fresh, TypeOK, Ids
<1>10. Cleared'
  <2> SUFFICES ASSUME NEW q \in Requests, pc'[q] = "writing", MakesDefault(q),
                      NEW i \in default', owner'[i] = call[q].user
               PROVE  setter'[i] \in Requests /\ setter'[i] \notin before[q]
    BY DEF Cleared, MakesDefault
  <2>1. q # r /\ pc[q] = "writing"
    BY DEF TypeOK
  <2>2. r \notin before[q]
    BY DEF BeforeIsOver
  <2>3. CASE i # k
    BY <2>1, <2>3, <1>2 DEF Cleared
  <2>4. CASE i = k
    BY <2>1, <2>2, <2>4, <1>0, <1>3, <1>4 DEF Cleared
  <2>. QED  BY <2>3, <2>4
<1>11. ASSUME NEW i \in default', i # k, k \in default',
              owner'[i] = owner'[k]
       PROVE  Overlapped(setter'[i], setter'[k])
  <2>1. i \in default /\ owner[i] = call[r].user /\ setter'[i] = setter[i]
    BY <1>2, <1>3, <1>11
  <2>2. CASE MakesDefault(r) /\ setter'[k] = r
    <3>1. setter[i] \in Requests /\ setter[i] \notin before[r]
      BY <2>1, <2>2 DEF Cleared
    <3>2. r \notin before[setter[i]]
      BY <3>1 DEF BeforeIsOver
    <3>3. setter[i] # r
      BY <2>1, <1>5 DEF TypeOK
    <3>. QED  BY <2>1, <2>2, <3>1, <3>2, <3>3 DEF Overlapped
  <2>3. CASE k \in default /\ setter'[k] = setter[k]
    BY <2>1, <2>3, <1>0, <1>11 DEF TwoDefaultsNeedOverlap
  <2>. QED  BY <2>2, <2>3, <1>4, <1>11
<1>12. TwoDefaultsNeedOverlap'
  <2> SUFFICES ASSUME NEW i \in default', NEW j \in default',
                      i # j, owner'[i] = owner'[j]
               PROVE  Overlapped(setter'[i], setter'[j])
    BY DEF TwoDefaultsNeedOverlap, Overlapped
  <2>1. CASE i # k /\ j # k
    BY <2>1, <1>2 DEF TwoDefaultsNeedOverlap
  <2>2. CASE j = k
    BY <2>2, <1>11
  <2>3. CASE i = k
    <3>1. Overlapped(setter'[j], setter'[k])
      BY <2>3, <1>11
    <3>. QED  BY <2>3, <3>1 DEF Overlapped
  <2>. QED  BY <2>1, <2>2, <2>3
<1>. QED  BY <1>6, <1>7, <1>8, <1>9, <1>10, <1>12

LEMMA DeleteKeeps ==
  ASSUME AddressInv, NEW r \in Requests, Delete(r)
  PROVE  AddressInv'
<1> USE DEF AddressInv, Delete, Finish
<1>1. CASE ~Owns(r)
  <2>. QED  BY <1>1, RowsStay DEF rowVars, TypeOK
<1>2. CASE Owns(r)
  <2> DEFINE k == call[r].target
  <2>1. owner' = [owner EXCEPT ![k] = Nobody] /\ default' = default \ {k}
    BY <1>2
  <2>2. TypeOK'
    BY <2>1 DEF TypeOK
  <2>3. BeforeIsOver' /\ Setters' /\ Fresh'
    BY <2>1 DEF BeforeIsOver, Setters, Fresh, TypeOK
  <2>4. Cleared'
    BY <2>1 DEF Cleared, TypeOK, MakesDefault
  <2>5. TwoDefaultsNeedOverlap'
    BY <2>1 DEF TwoDefaultsNeedOverlap, Overlapped, TypeOK
  <2>. QED  BY <2>2, <2>3, <2>4, <2>5
<1>. QED  BY <1>1, <1>2

LEMMA NextPreserves == AddressInv /\ [Next]_vars => AddressInv'
<1> SUFFICES ASSUME AddressInv, [Next]_vars PROVE AddressInv'
  OBVIOUS
<1>1. CASE UNCHANGED vars
  BY <1>1 DEF AddressInv, vars, rowVars, TypeOK, BeforeIsOver, Setters, Cleared,
              Fresh, TwoDefaultsNeedOverlap, Overlapped, MakesDefault
<1>2. ASSUME NEW r \in Requests, Begin(r) PROVE AddressInv'
  BY <1>2, RowsStay DEF Begin, Continue, AddressInv, TypeOK
<1>3. ASSUME NEW r \in Requests, Clear(r) PROVE AddressInv'
  BY <1>3, ClearKeeps
<1>4. ASSUME NEW r \in Requests, Insert(r) PROVE AddressInv'
  <2>1. call[r].user \in Users
    BY CallsAssumption DEF AddressInv, TypeOK, Call
  <2>2. owner[nextId] = Nobody /\ nextId < nextId + 1
    BY <1>4 DEF Insert, AddressInv, Fresh, Ids, TypeOK
  <2>. QED  BY <1>4, <2>1, <2>2, PutKeeps DEF Insert, Finish, AddressInv, TypeOK
<1>5. ASSUME NEW r \in Requests, Update(r) PROVE AddressInv'
  <2> DEFINE k == call[r].target
  <2>1. call[r].user \in Users /\ k \in Ids
    BY <1>5, CallsAssumption DEF Update, AddressInv, TypeOK, Call
  <2>2. owner[k] = call[r].user /\ owner' = [owner EXCEPT ![k] = call[r].user]
    BY <1>5, <2>1 DEF Update, Owns, AddressInv, TypeOK
  <2>3. k < nextId
    BY <2>1, <2>2, NobodyAssumption DEF AddressInv, Fresh, TypeOK, Ids
  <2>. QED  BY <1>5, <2>1, <2>2, <2>3, PutKeeps DEF Update, Continue, AddressInv, TypeOK
<1>6. ASSUME NEW r \in Requests, RejectUpdate(r) PROVE AddressInv'
  BY <1>6, RowsStay DEF RejectUpdate, Finish, AddressInv, TypeOK
<1>7. ASSUME NEW r \in Requests, SkipUpdate(r) PROVE AddressInv'
  BY <1>7, RowsStay DEF SkipUpdate, Continue, AddressInv, TypeOK
<1>8. ASSUME NEW r \in Requests, Reread(r) PROVE AddressInv'
  BY <1>8, RowsStay DEF Reread, Finish, AddressInv, TypeOK
<1>9. ASSUME NEW r \in Requests, Delete(r) PROVE AddressInv'
  BY <1>9, DeleteKeeps
<1>10. ASSUME NEW r \in Requests, Fail(r) PROVE AddressInv'
  BY <1>10, RowsStay DEF Fail, Finish, AddressInv, TypeOK
<1>. QED
  BY <1>1, <1>2, <1>3, <1>4, <1>5, <1>6, <1>7, <1>8, <1>9, <1>10 DEF Next

\* Every variable keeps its type: address.service.ts and its repository.
THEOREM AddressTypeCorrect == Spec => []TypeOK
<1>1. AddressInv => TypeOK
  BY DEF AddressInv
<1>. QED  BY <1>1, InitEstablishes, NextPreserves, PTL DEF Spec

\* Two defaults of one user need requests that ran at the same time, for any
\* number of users, requests, rows and failures.
THEOREM DefaultIsUnique == Spec => []TwoDefaultsNeedOverlap
<1>1. AddressInv => TwoDefaultsNeedOverlap
  BY DEF AddressInv
<1>. QED  BY <1>1, InitEstablishes, NextPreserves, PTL DEF Spec

-----------------------------------------------------------------------------
(* Answered updates.                                                       *)

\* An update that has run its statement, and may be answered with success.
Wrote(r) == /\ call[r].op = "update" /\ Columns(r) > 1
            /\ pc[r] = "rereading" \/ outcome[r] = "ok"

UpdateInv ==
  /\ AddressInv
  /\ \A r \in Requests : outcome[r] = "ok" => pc[r] = "over"
  /\ \A r \in Requests : Wrote(r) => text[call[r].target] \in Requests \ before[r]

LEMMA InitUpdates == Init => UpdateInv
<1>1. Init => \A r \in Requests : pc[r] = "idle" /\ outcome[r] = "none"
  BY DEF Init
<1>. QED  BY <1>1, InitEstablishes DEF UpdateInv, Wrote

\* A step of r that leaves the texts alone.
LEMMA TextsStay ==
  ASSUME UpdateInv, AddressInv', NEW r \in Requests, text' = text, call' = call,
         \A q \in Requests \ {r} : /\ pc'[q] = pc[q] /\ outcome'[q] = outcome[q]
                                   /\ before'[q] = before[q],
         pc[r] = "idle" \/ before'[r] = before[r],
         outcome'[r] = "ok" => pc'[r] = "over",
         Wrote(r)' => Wrote(r) /\ pc[r] # "idle"
  PROVE  UpdateInv'
<1>1. \A q \in Requests \ {r} : Wrote(q)' <=> Wrote(q)
  BY DEF Wrote, Columns
<1>2. \A q \in Requests : Wrote(q)' =>
        Wrote(q) /\ text'[call'[q].target] = text[call[q].target] /\ before'[q] = before[q]
  BY <1>1
<1>. QED  BY <1>2 DEF UpdateInv

\* A request that writes has not ended when any other one began.
LEMMA WriterIsNew ==
  ASSUME AddressInv, NEW r \in Requests, pc[r] = "writing"
  PROVE  \A q \in Requests : r \notin before[q]
BY DEF AddressInv, BeforeIsOver

LEMMA NextUpdates == UpdateInv /\ [Next]_vars => UpdateInv'
<1> SUFFICES ASSUME UpdateInv, [Next]_vars PROVE UpdateInv'
  OBVIOUS
<1>0. AddressInv /\ AddressInv' /\ TypeOK
  BY NextPreserves DEF UpdateInv, AddressInv
<1> DEFINE Stays(q) == /\ pc'[q] = pc[q] /\ outcome'[q] = outcome[q]
                       /\ before'[q] = before[q]
<1>1. ASSUME NEW r \in Requests, Begin(r) PROVE UpdateInv'
  <2>1. text' = text /\ call' = call /\ \A q \in Requests \ {r} : Stays(q)
    BY <1>0, <1>1 DEF Begin, Continue, rowVars, TypeOK
  <2>2. pc[r] = "idle" /\ outcome'[r] = outcome[r] /\ pc'[r] \in {"clearing", "writing"}
    BY <1>0, <1>1 DEF Begin, Continue, TypeOK
  <2>3. outcome'[r] # "ok"
    BY <2>2 DEF UpdateInv
  <2>. QED  BY <1>0, <2>1, <2>2, <2>3, TextsStay DEF Wrote
<1>2. ASSUME NEW r \in Requests, Clear(r) \/ SkipUpdate(r) PROVE UpdateInv'
  <2>1. /\ text' = text /\ call' = call /\ before' = before
        /\ \A q \in Requests \ {r} : Stays(q)
    BY <1>0, <1>2 DEF Clear, SkipUpdate, Continue, rowVars, TypeOK
  <2>2. /\ outcome'[r] = outcome[r] /\ pc[r] \in {"clearing", "writing"}
        /\ pc'[r] = "writing" \/ ~(Columns(r) > 1)
    BY <1>0, <1>2 DEF Clear, SkipUpdate, Runs, Continue, TypeOK
  <2>3. outcome'[r] # "ok" /\ Columns(r)' = Columns(r)
    BY <2>1, <2>2 DEF UpdateInv, Columns
  <2>. QED  BY <1>0, <2>1, <2>2, <2>3, TextsStay DEF Wrote
<1>3. ASSUME NEW r \in Requests, RejectUpdate(r) \/ Delete(r) \/ Fail(r) \/ Reread(r)
      PROVE  UpdateInv'
  <2>1. /\ text' = text /\ call' = call /\ before' = before
        /\ \A q \in Requests \ {r} : Stays(q)
    BY <1>0, <1>3 DEF RejectUpdate, Delete, Fail, Reread, Finish, rowVars, TypeOK
  <2>2. /\ pc'[r] = "over" /\ pc[r] # "idle"
        /\ outcome'[r] = "ok" => call[r].op = "delete" \/ pc[r] = "rereading"
    BY <1>0, <1>3 DEF RejectUpdate, Delete, Fail, Reread, Finish, TypeOK
  <2>3. Columns(r)' = Columns(r)
    BY <2>1 DEF Columns
  <2>. QED  BY <1>0, <2>1, <2>2, <2>3, TextsStay DEF Wrote
<1>4. ASSUME NEW r \in Requests, NEW k, Put(r, k), pc[r] = "writing",
             call' = call, before' = before, \A q \in Requests \ {r} : Stays(q),
             outcome'[r] = "ok" => pc'[r] = "over",
             Wrote(r)' => k = call[r].target /\ k \in Ids
      PROVE  UpdateInv'
  <2>1. \A q \in Requests : r \notin before[q]
    BY <1>0, <1>4, WriterIsNew
  <2>2. DOMAIN text = Ids /\ text' = [text EXCEPT ![k] = r]
    BY <1>0, <1>4 DEF Put, TypeOK
  <2>3. ASSUME NEW q \in Requests, Wrote(q)'
        PROVE  text'[call'[q].target] \in Requests \ before'[q]
    <3>1. CASE q = r
      BY <1>4, <2>1, <2>2, <2>3, <3>1
    <3>2. CASE q # r
      <4>1. Wrote(q)
        BY <1>4, <2>3, <3>2 DEF Wrote, Columns
      <4>2. text[call[q].target] \in Requests \ before[q]
        BY <4>1 DEF UpdateInv
      <4>3. text'[call[q].target] \in {r, text[call[q].target]}
        BY <2>2, <4>1, CallsAssumption DEF Wrote, Call
      <4>. QED  BY <1>4, <2>1, <4>2, <4>3
    <3>. QED  BY <3>1, <3>2
  <2>. QED  BY <1>0, <1>4, <2>3 DEF UpdateInv
<1>5. ASSUME NEW r \in Requests, Insert(r) \/ Update(r) PROVE UpdateInv'
  <2>1. /\ call' = call /\ before' = before /\ pc[r] = "writing"
        /\ \A q \in Requests \ {r} : Stays(q)
    BY <1>0, <1>5 DEF Insert, Update, Finish, Continue, TypeOK
  <2>2. outcome'[r] = "ok" => pc'[r] = "over"
    BY <1>0, <1>5, <2>1 DEF Insert, Update, Finish, Continue, UpdateInv, TypeOK
  <2>3. CASE Insert(r)
    BY <1>4, <2>1, <2>2, <2>3 DEF Insert, Wrote
  <2>4. CASE Update(r)
    <3>1. call[r].target \in Ids
      BY <1>0, <2>4, CallsAssumption DEF Update, TypeOK, Call
    <3>. QED  BY <1>4, <2>1, <2>2, <2>4, <3>1 DEF Update
  <2>. QED  BY <1>5, <2>3, <2>4
<1>6. CASE UNCHANGED vars
  BY <1>0, <1>6 DEF vars, rowVars, UpdateInv, Wrote, Columns
<1>. QED
  BY <1>1, <1>2, <1>3, <1>5, <1>6 DEF Next

\* An answered update of several fields stands until one that had not ended
\* when it began.
THEOREM UpdatesStand == Spec => []AnsweredUpdateStands
<1>1. UpdateInv => AnsweredUpdateStands
  BY DEF UpdateInv, Wrote, AnsweredUpdateStands
<1>. QED  BY <1>1, InitUpdates, NextUpdates, PTL DEF Spec
=============================================================================
