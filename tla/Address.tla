------------------------------ MODULE Address ------------------------------
(***************************************************************************)
(* The address book: the rows of customer_addresses and the requests that  *)
(* create, update and delete them.  A request runs its statements one by   *)
(* one, each in autocommit: no transaction spans "clear the old default"   *)
(* and "write the new one", and nothing in the table keeps a user from     *)
(* having several defaults.                                                *)
(*                                                                         *)
(* A statement is atomic here.  One that was sent when its API process     *)
(* died has been executed by then or never is.                             *)
(***************************************************************************)
EXTENDS Naturals

CONSTANTS
  Users,
  Nobody,     \* the owner of a row that does not exist
  Requests,   \* one per HTTP request
  NoRequest,  \* what made a row default that was so from the beginning
  Calls,      \* what the requests may ask for
  MaxId,      \* bound: the rows there ever are
  InitRows,   \* how many there are to begin with,
  InitOwner   \* and whose they are

Ids == 1..MaxId

Call ==
  \* others: how many fields besides isDefault the body has
  LET Said == {"yes", "no", "unsaid"} IN
    [op : {"create"}, user : Users, isDefault : Said]
      \cup [op : {"update"}, user : Users, isDefault : Said, target : Ids,
            others : Nat]
      \cup [op : {"delete"}, user : Users, isDefault : {"unsaid"}, target : Ids]

ASSUME NobodyAssumption == Nobody \notin Users
ASSUME NoRequestAssumption == NoRequest \notin Requests
ASSUME CallsAssumption == Calls \subseteq Call
ASSUME MaxIdAssumption == MaxId \in Nat /\ InitRows \in 0..MaxId
ASSUME InitOwnerAssumption == InitOwner \in [1..InitRows -> Users]

VARIABLES
  owner,     \* user_id of each row, Nobody where there is none
  default,   \* the rows whose is_default is true
  text,      \* the request whose other fields a row holds
  setter,    \* the request that last made a row default
  nextId,    \* the SERIAL
  call, pc, outcome,
  before     \* the requests that were over when a request began

rowVars == <<owner, default, text, setter, nextId>>
vars == <<rowVars, call, pc, outcome, before>>

Of(u) == {i \in Ids : owner[i] = u}
Owns(r) == owner[call[r].target] = call[r].user
MakesDefault(r) == call[r].isDefault = "yes"
Over == {r \in Requests : pc[r] = "over"}

Init ==
  /\ owner = [i \in Ids |-> IF i <= InitRows THEN InitOwner[i] ELSE Nobody]
  /\ default \in {D \in SUBSET (1..InitRows) :
                    \A i, j \in D : owner[i] = owner[j] => i = j}
  /\ text = [i \in Ids |-> NoRequest]
  /\ setter = [i \in Ids |-> NoRequest]
  /\ nextId = InitRows + 1
  /\ call \in [Requests -> Calls]
  /\ pc = [r \in Requests |-> "idle"]
  /\ outcome = [r \in Requests |-> "none"]
  /\ before = [r \in Requests |-> {}]

-----------------------------------------------------------------------------
Finish(r, what) ==
  /\ pc' = [pc EXCEPT ![r] = "over"]
  /\ outcome' = [outcome EXCEPT ![r] = what]

Continue(r, where) ==
  /\ pc' = [pc EXCEPT ![r] = where]
  /\ UNCHANGED outcome

Begin(r) ==
  /\ pc[r] = "idle"
  /\ Continue(r, IF MakesDefault(r) THEN "clearing" ELSE "writing")
  /\ before' = [before EXCEPT ![r] = Over]
  /\ UNCHANGED <<rowVars, call>>

\* Mutant: the clearing left to the caller of updateAddress.
ClearForCreate(r) ==
  /\ pc[r] = "clearing"
  /\ default' = IF call[r].op = "create" THEN default \ Of(call[r].user) ELSE default
  /\ Continue(r, "writing")
  /\ UNCHANGED <<owner, text, setter, nextId, call, before>>

\* clearDefaultByUserId.
Clear(r) ==
  /\ pc[r] = "clearing"
  /\ default' = default \ Of(call[r].user)
  /\ Continue(r, "writing")
  /\ UNCHANGED <<owner, text, setter, nextId, call, before>>

\* The row i takes the fields of the request; "unsaid" leaves is_default.
Put(r, i) ==
  /\ text' = [text EXCEPT ![i] = r]
  /\ default' = CASE call[r].isDefault = "yes" -> default \cup {i}
                  [] call[r].isDefault = "no" -> default \ {i}
                  [] OTHER -> default
  /\ setter' = [setter EXCEPT ![i] = IF MakesDefault(r) THEN r ELSE @]

\* createAddress: an address nobody says is the default is none.
Insert(r) ==
  /\ pc[r] = "writing" /\ call[r].op = "create"
  /\ nextId \in Ids
  /\ owner' = [owner EXCEPT ![nextId] = call[r].user]
  /\ Put(r, nextId)
  /\ nextId' = nextId + 1
  /\ Finish(r, "ok")
  /\ UNCHANGED <<call, before>>

\* The columns the body maps to; the statement is run for more than one.
Columns(r) == call[r].others + (IF call[r].isDefault = "unsaid" THEN 0 ELSE 1)
\* Mutant: one more.
RunsForMany(r) == Columns(r) > 2

Runs(r) == Columns(r) > 1

Update(r) ==
  /\ pc[r] = "writing" /\ call[r].op = "update" /\ Runs(r)
  /\ Owns(r)
  /\ Put(r, call[r].target)
  /\ Continue(r, "rereading")
  /\ UNCHANGED <<owner, nextId, call, before>>

\* No row matched; what the request cleared stays cleared.
RejectUpdate(r) ==
  /\ pc[r] = "writing" /\ call[r].op = "update" /\ Runs(r)
  /\ ~Owns(r)
  /\ Finish(r, "not_found")
  /\ UNCHANGED <<rowVars, call, before>>

\* updateAddress returns true without a statement.
SkipUpdate(r) ==
  /\ pc[r] = "writing" /\ call[r].op = "update" /\ ~Runs(r)
  /\ Continue(r, "rereading")
  /\ UNCHANGED <<rowVars, call, before>>

\* getAddressByIdAndUserId: the row may be gone again.
Reread(r) ==
  /\ pc[r] = "rereading"
  /\ Finish(r, IF Owns(r) THEN "ok" ELSE "not_found")
  /\ UNCHANGED <<rowVars, call, before>>

Delete(r) ==
  /\ pc[r] = "writing" /\ call[r].op = "delete"
  /\ IF Owns(r)
       THEN /\ owner' = [owner EXCEPT ![call[r].target] = Nobody]
            /\ default' = default \ {call[r].target}
            /\ Finish(r, "ok")
       ELSE /\ Finish(r, "not_found")
            /\ UNCHANGED <<owner, default>>
  /\ UNCHANGED <<text, setter, nextId, call, before>>

\* A statement fails or the process dies: what was written stays written.
Fail(r) ==
  /\ pc[r] \notin {"idle", "over"}
  /\ Finish(r, "error")
  /\ UNCHANGED <<rowVars, call, before>>

Next ==
  \E r \in Requests :
    \/ Begin(r) \/ Clear(r)
    \/ Insert(r) \/ Update(r) \/ RejectUpdate(r) \/ SkipUpdate(r)
    \/ Reread(r) \/ Delete(r) \/ Fail(r)

Spec == Init /\ [][Next]_vars

-----------------------------------------------------------------------------
(* Properties.                                                             *)

\* Every variable holds a value of its kind, and only rows that exist are
\* defaults.
TypeOK ==
  /\ owner \in [Ids -> Users \cup {Nobody}]
  /\ default \subseteq {i \in Ids : owner[i] # Nobody}
  /\ text \in [Ids -> Requests \cup {NoRequest}]
  /\ setter \in [Ids -> Requests \cup {NoRequest}]
  /\ nextId \in Nat \ {0}
  /\ call \in [Requests -> Calls]
  /\ pc \in [Requests -> {"idle", "clearing", "writing", "rereading", "over"}]
  /\ outcome \in [Requests -> {"none", "ok", "not_found", "error"}]
  /\ before \in [Requests -> SUBSET Requests]

Overlapped(q, r) ==
  /\ q \in Requests /\ r \in Requests /\ q # r
  /\ q \notin before[r] /\ r \notin before[q]

\* Nothing in the table forbids two defaults and no lock orders two requests,
\* yet a user has two only if the requests that made them default ran at the
\* same time: for a client that waits for its answers (an error is one) the
\* default is unique, whatever fails or is deleted in between.
TwoDefaultsNeedOverlap ==
  \A i, j \in default :
    i # j /\ owner[i] = owner[j] => Overlapped(setter[i], setter[j])

\* An update of several fields that was answered with success stands until
\* another one that had not ended when it began: no failed, earlier or repeated
\* request takes it back.  An update of one field is answered with success and
\* writes nothing, although address.repository.ts:110 means to leave out only
\* bodies without any.
AnsweredUpdateStands ==
  \A r \in Requests :
    outcome[r] = "ok" /\ call[r].op = "update" /\ Columns(r) > 1
      => text[call[r].target] \in Requests \ before[r]
=============================================================================
