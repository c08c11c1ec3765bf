-------------------------- MODULE MembershipProofs --------------------------
(* Safety of Membership for any requests, people and branches.             *)
EXTENDS Membership, TLAPS

(***************************************************************************)
(* The inductive invariant: what holds of a request in each phase, what    *)
(* the tables say of each user, and that no name is taken twice.           *)
(***************************************************************************)

InSignUp(r) == pc[r] \in {"open", "checked", "named", "housed", "joined", "listed"}
OfMember(r) == pc[r] \in {"read", "cleared", "removed", "wiped"}
InLogin(r) == pc[r] \in {"known", "roled"}

\* A request has an effect, and an answer, only at its end, and what was over
\* when it began is over.
Phase(r) ==
  /\ pc[r] # "over" => outcome[r] = "none" /\ claims[r] = NoClaims
  /\ InSignUp(r) => SignUp(r) /\ Allowed(r)
  /\ OfMember(r) => call[r].op \in {"update", "delete", "setBranches"}
  /\ pc[r] \in {"cleared", "removed"} => call[r].op = "delete"
  /\ pc[r] = "wiped" => call[r].op = "setBranches"
  /\ OfMember(r) /\ call[r].op = "update" => call[r].role # "owner"
  /\ OfMember(r) /\ call[r].op = "setBranches" => InRestaurant(r)
  /\ OfMember(r) \/ InLogin(r) => HasAccount(Subject(r))
  /\ InLogin(r) => call[r].op = "login"
  /\ before[r] \subseteq {q \in Requests : pc[q] = "over"}

OwnerRow(r) == [at |-> Subject(r), role |-> "owner", status |-> "active"]
InvitedRow(r) == [at |-> call[r].at, role |-> call[r].role, status |-> "inactive"]

Holds(r, restaurant, row, branches) ==
  draft[r].restaurant = restaurant /\ draft[r].row = row /\ draft[r].list = branches

\* What an open sign-up has inserted.
Drafted(r) ==
  /\ ~(pc[r] \in {"housed", "joined", "listed", "roled"}) => draft[r] = Blank
  /\ pc[r] = "housed" => Houses(r) /\ Holds(r, TRUE, NoRow, {})
  /\ pc[r] = "joined" =>
       \/ call[r].op = "register" /\ Houses(r) /\ Holds(r, TRUE, OwnerRow(r), {})
       \/ call[r].op = "invite" /\ Holds(r, FALSE, InvitedRow(r), {})
  /\ pc[r] = "listed" =>
       call[r].op = "invite" /\ Holds(r, FALSE, InvitedRow(r), call[r].branches)

\* A member is of the restaurant he was found in, and an emptied list has been
\* filled only by somebody else's overlapping PUT.
Found(r) ==
  /\ OfMember(r) => ~IsMember(Subject(r)) \/ member[Subject(r)].at = call[r].at
  /\ pc[r] = "wiped" =>
       \/ list[Subject(r)] = {}
       \/ \E q \in Requests : Overlapped(q, r) /\ call[q].op = "setBranches"

\* What a login has read is still so, or somebody has changed it.
Read(r) ==
  pc[r] = "roled" =>
    LET u == Subject(r)  row == draft[r].row IN
      /\ row \in Row
      /\ row.role = "owner" => u \in restaurants /\ row.at = u
      /\ IsMember(u) => member[u].at = row.at
      /\ \/ member[u] = row /\ row.status = "active"
         \/ \E q \in Requests : Overlapped(q, r) /\ call[q].op \in Changes

Granted(u, b) ==
  \/ u \in DOMAIN InitList /\ b \in InitList[u]
  \/ \E q \in Requests :
       /\ Did(q, u, "invite") \/ Did(q, u, "setBranches")
       /\ b \in call[q].branches

\* What a token of u may say.
Deserved(u, token) ==
  token # NoClaims =>
    /\ \A b \in token.branches : BranchOf[b] = token.at /\ Granted(u, b)
    /\ token.role = "owner" => u \in restaurants /\ token.at = u

ReqInv(r) ==
  Phase(r) /\ Drafted(r) /\ Found(r) /\ Read(r) /\ Deserved(Subject(r), claims[r])

\* The rows of one user belong together.
Rows(u) ==
  /\ u \in restaurants => HasAccount(u)
  /\ IsMember(u) =>
       /\ HasAccount(u) /\ member[u].at \in restaurants
       /\ member[u].role = "owner" => member[u].at = u
  /\ list[u] # {} => IsMember(u)
  /\ \A b \in list[u] : BranchOf[b] = member[u].at /\ Granted(u, b)

\* The sign-up that made him has been committed with all of its rows.
Made(u) ==
  account[u] \in Requests =>
    LET r == account[u] IN
      /\ outcome[r] = "ok" /\ Subject(r) = u /\ SignUp(r)
      /\ Houses(r) => u \in restaurants
      /\ call[r].op = "invite" \/ (call[r].op = "register" /\ Houses(r)) =>
           IsMember(u) \/ \E q \in Requests : Did(q, u, "delete")

\* MixedListNeedsOverlap of one user.
Mixed(u) ==
  LET r == lister[u] IN
    r \in Requests =>
      /\ Subject(r) = u /\ pc[r] # "idle"
      /\ outcome[r] = "ok" /\ call[r].op \in {"invite", "setBranches"} =>
           \/ list[u] = call[r].branches
           \/ \E q \in Requests : Overlapped(q, r) /\ call[q].op = "setBranches"

UserInv(u) == Rows(u) /\ Made(u) /\ Mixed(u)

\* A sign-up that has inserted its user keeps everybody else off his names.
Apart(r) ==
  Named(r) =>
    /\ \A u \in Users : HasAccount(u) => ~Clash(u, Subject(r))
    /\ \A q \in Requests \ {r} : Named(q) => ~Clash(Subject(q), Subject(r))

NameInv == NamesAreUnique /\ \A r \in Requests : Apart(r)

MemInv ==
  /\ TypeOK
  /\ \A r \in Requests : ReqInv(r)
  /\ \A u \in Users : UserInv(u)
  /\ NameInv

-----------------------------------------------------------------------------
(* What every step of a request r has in common.                           *)

\* Only r moves, and its end is final.
Step(r) ==
  /\ pc[r] # "over" /\ pc'[r] # "idle" /\ call' = call
  /\ \A q \in Requests \ {r} :
       /\ pc'[q] = pc[q] /\ outcome'[q] = outcome[q] /\ draft'[q] = draft[q]
       /\ claims'[q] = claims[q] /\ before'[q] = before[q]
  /\ before'[r] = before[r] \/ pc[r] = "idle"
  /\ \A q \in before'[r] : pc[q] = "over"

\* It changes the rows of its own subject, whose restaurant is never another
\* one, and who has a new list only by a PUT.
Moves(r) ==
  LET s == Subject(r) IN
    /\ restaurants \subseteq restaurants' /\ restaurants' \subseteq restaurants \cup {s}
    /\ \A v \in Users : HasAccount(v) => account'[v] = account[v]
    /\ \A v \in Users \ {s} :
         /\ account'[v] = account[v] /\ member'[v] = member[v]
         /\ list'[v] = list[v] /\ lister'[v] = lister[v]
    /\ HasAccount(s) =>
         /\ \/ member'[s] = NoRow
            \/ member[s] # NoRow /\ member'[s].at = member[s].at
         /\ member'[s] # member[s] => call[r].op \in Changes
         /\ list'[s] # list[s] /\ list'[s] # {} => call[r].op = "setBranches"

LEMMA SubjectType == ASSUME TypeOK, NEW r \in Requests PROVE Subject(r) \in Users
  BY CallsAssumption DEF TypeOK, Subject, Call

LEMMA NoRowIsNoRow == NoRow \notin Row
  BY SeedAssumption DEF NoRow, Row

\* What has been done stays done.
LEMMA DoneStays ==
  ASSUME MemInv, NEW r \in Requests, Step(r), NEW u, NEW q \in Requests, NEW op,
         Did(q, u, op)
  PROVE  Did(q, u, op)' /\ q # r
  BY DEF MemInv, ReqInv, Phase, Step, Did, Subject

LEMMA GrantedStays ==
  ASSUME MemInv, NEW r \in Requests, Step(r), NEW u, NEW b, Granted(u, b)
  PROVE  Granted(u, b)'
<1>1. \A q \in Requests, op \in {"invite", "setBranches"} : Did(q, u, op) => Did(q, u, op)'
  BY DoneStays
<1>. QED  BY <1>1 DEF Granted, Step

\* An overlap with a request that has begun stays one.
LEMMA OverlapStays ==
  ASSUME MemInv, NEW r \in Requests, Step(r), NEW q \in Requests, NEW x \in Requests,
         pc[q] # "idle", Overlapped(x, q)
  PROVE  Overlapped(x, q)'
  BY DEF Step, Overlapped, Subject

\* r, which is not over, overlaps with whatever else is open.
LEMMA OpenOverlaps ==
  ASSUME MemInv, NEW r \in Requests, Step(r), NEW q \in Requests \ {r},
         pc[q] \notin {"idle", "over"}, Subject(q) = Subject(r)
  PROVE  Overlapped(r, q)'
  BY DEF MemInv, ReqInv, Phase, Step, Overlapped, Subject

-----------------------------------------------------------------------------
(* The others' part of the invariant.                                      *)

LEMMA AccountsStay ==
  ASSUME MemInv, NEW r \in Requests, Moves(r), NEW v \in Users, HasAccount(v)
  PROVE  HasAccount(v)'
  BY DEF Moves, HasAccount

LEMMA DeservedStays ==
  ASSUME MemInv, NEW r \in Requests, Step(r), Moves(r), NEW u, NEW token,
         Deserved(u, token)
  PROVE  /\ token # NoClaims =>
              /\ \A b \in token.branches : BranchOf[b] = token.at /\ Granted(u, b)'
              /\ token.role = "owner" => u \in restaurants' /\ token.at = u
<1>1. \A b : Granted(u, b) => Granted(u, b)'
  BY GrantedStays
<1>. QED  BY <1>1 DEF Deserved, Moves

LEMMA OtherRequests ==
  ASSUME MemInv, NEW r \in Requests, Step(r), Moves(r), NEW q \in Requests \ {r}
  PROVE  ReqInv(q)'
<1> DEFINE s == Subject(q)
<1>1. /\ TypeOK /\ ReqInv(q) /\ s \in Users /\ Subject(q)' = s /\ call' = call
      /\ pc'[q] = pc[q] /\ outcome'[q] = outcome[q] /\ draft'[q] = draft[q]
      /\ claims'[q] = claims[q] /\ before'[q] = before[q]
  BY SubjectType DEF MemInv, Step, Subject
<1>2. HasAccount(s) => account'[s] # NoRequest
  BY <1>1, AccountsStay DEF HasAccount
<1>3. \A x \in Requests : pc[q] # "idle" /\ Overlapped(x, q) => Overlapped(x, q)'
  BY OverlapStays
<1>4. \A x \in Requests : pc[x] = "over" => pc'[x] = "over"
  BY DEF Step
<1>5. restaurants \subseteq restaurants'
  BY DEF Moves
<1>6. OfMember(q) \/ InLogin(q) => HasAccount(s)
  BY <1>1 DEF ReqInv, Phase
<1>7. HasAccount(s) =>
        /\ \/ member'[s] = NoRow
           \/ member[s] # NoRow /\ member'[s].at = member[s].at
           \/ member'[s] = member[s]
        /\ member'[s] # member[s] => Subject(r) = s /\ call[r].op \in Changes
        /\ list'[s] # list[s] /\ list'[s] # {} => Subject(r) = s /\ call[r].op = "setBranches"
  BY <1>1 DEF Moves
<1>8. pc[q] \notin {"idle", "over"} /\ Subject(r) = s => Overlapped(r, q)'
  BY OpenOverlaps
<1>9. Phase(q)'
  BY <1>1, <1>2, <1>4, <1>5 DEF ReqInv, Phase, InSignUp, OfMember, InLogin, SignUp, Allowed,
     InRestaurant, Subject, HasAccount
<1>10. Drafted(q)'
  BY <1>1 DEF ReqInv, Drafted, Houses, OwnerRow, InvitedRow, Subject, Holds
<1>11. Found(q)'
  <2>1. OfMember(q) => member'[s] = NoRow \/ member'[s].at = call[q].at
    BY <1>1, <1>6, <1>7 DEF ReqInv, Found, IsMember
  <2>2. pc[q] = "wiped" =>
          list'[s] = {} \/ \E x \in Requests : Overlapped(x, q)' /\ call[x].op = "setBranches"
    BY <1>1, <1>3, <1>6, <1>7, <1>8 DEF ReqInv, Found, OfMember
  <2>. QED  BY <1>1, <2>1, <2>2 DEF Found, OfMember, IsMember
<1>12. Read(q)'
  <2>1. pc[q] = "roled" =>
          \/ member'[s] = draft[q].row /\ draft[q].row.status = "active"
          \/ \E x \in Requests : Overlapped(x, q)' /\ call[x].op \in Changes
    BY <1>1, <1>3, <1>6, <1>7, <1>8 DEF ReqInv, Read, InLogin
  <2>2. pc[q] = "roled" /\ member'[s] # NoRow => member'[s].at = draft[q].row.at
    BY <1>1, <1>6, <1>7 DEF ReqInv, Read, InLogin, IsMember
  <2>. QED  BY <1>1, <1>5, <2>1, <2>2 DEF ReqInv, Read, IsMember
<1>13. Deserved(s, claims[q])'
  BY <1>1, DeservedStays DEF ReqInv, Deserved
<1>. QED  BY <1>1, <1>9, <1>10, <1>11, <1>12, <1>13 DEF ReqInv

LEMMA OtherUsers ==
  ASSUME MemInv, NEW r \in Requests, Step(r), Moves(r), NEW u \in Users, u # Subject(r)
  PROVE  UserInv(u)'
<1>1. /\ UserInv(u) /\ account'[u] = account[u] /\ member'[u] = member[u]
      /\ list'[u] = list[u] /\ lister'[u] = lister[u] /\ call' = call
      /\ restaurants \subseteq restaurants' /\ (u \in restaurants' => u \in restaurants)
  BY DEF MemInv, Moves, Step
<1>2. \A q \in Requests : \A op : Did(q, u, op) => Did(q, u, op)'
  BY DoneStays
<1>3. \A b : Granted(u, b) => Granted(u, b)'
  BY GrantedStays
<1>4. Rows(u)'
  BY <1>1, <1>3 DEF UserInv, Rows, HasAccount, IsMember
<1>5. Made(u)'
  <2>1. \A q \in Requests : outcome[q] = "ok" => outcome'[q] = "ok"
    BY DEF MemInv, ReqInv, Phase, Step
  <2>. QED  BY <1>1, <1>2, <2>1 DEF UserInv, Made, IsMember, Houses, SignUp, Subject
<1>6. Mixed(u)'
  <2> SUFFICES ASSUME NEW q \in Requests, lister[u] = q PROVE Mixed(u)'
    BY <1>1 DEF Mixed
  <2>1. Subject(q) = u /\ q # r /\ pc[q] # "idle"
    BY <1>1 DEF UserInv, Mixed
  <2>2. outcome'[q] = outcome[q] /\ pc'[q] = pc[q]
    BY <2>1 DEF Step
  <2>3. \A x \in Requests : Overlapped(x, q) => Overlapped(x, q)'
    BY <2>1, OverlapStays
  <2>. QED  BY <1>1, <2>1, <2>2, <2>3 DEF UserInv, Mixed, Subject
<1>. QED  BY <1>4, <1>5, <1>6 DEF UserInv

\* A step that keeps the invariant of its request, of its subject and of the
\* names keeps all of it.
LEMMA Together ==
  ASSUME MemInv, NEW r \in Requests, TypeOK', Step(r), Moves(r),
         ReqInv(r)', UserInv(Subject(r))', NameInv'
  PROVE  MemInv'
<1>1. \A q \in Requests : ReqInv(q)'
  BY OtherRequests
<1>2. \A u \in Users : UserInv(u)'
  <2> TAKE u \in Users
  <2>1. CASE u = Subject(r)
    <3>1. Subject(r)' = Subject(r)
      BY DEF Step, Subject
    <3>. QED  BY <2>1, <3>1 DEF UserInv
  <2>. QED  BY <2>1, OtherUsers
<1>. QED  BY <1>1, <1>2 DEF MemInv

-----------------------------------------------------------------------------
(* Steps that change no table.                                             *)

LEMMA FinishIsStep ==
  ASSUME MemInv, NEW r \in Requests, pc[r] # "over", NEW what, Finish(r, what), call' = call,
         claims' = claims \/ \E c : claims' = [claims EXCEPT ![r] = c],
         before' = before \/ (pc[r] = "idle" /\ Arrive(r))
  PROVE  /\ Step(r) /\ pc'[r] = "over" /\ outcome'[r] = what /\ draft'[r] = Blank
         /\ before'[r] \subseteq {q \in Requests : pc'[q] = "over"}
  BY DEF MemInv, TypeOK, ReqInv, Phase, Finish, Arrive, Before, Step

LEMMA GotoIsStep ==
  ASSUME MemInv, NEW r \in Requests, pc[r] # "over", NEW where, where # "idle",
         Goto(r, where), call' = call, claims' = claims,
         draft' = draft \/ \E d : draft' = [draft EXCEPT ![r] = d],
         before' = before \/ (pc[r] = "idle" /\ Arrive(r))
  PROVE  /\ Step(r) /\ pc'[r] = where /\ outcome'[r] = "none" /\ claims'[r] = NoClaims
         /\ before'[r] \subseteq {q \in Requests : pc'[q] = "over"}
  BY DEF MemInv, TypeOK, ReqInv, Phase, Goto, Arrive, Before, Step

\* What holds of a request that is over.
LEMMA FinishedRequest ==
  ASSUME MemInv, NEW r \in Requests, Step(r), pc'[r] = "over", draft'[r] = Blank,
         before'[r] \subseteq {q \in Requests : pc'[q] = "over"},
         Deserved(Subject(r), claims[r])'
  PROVE  ReqInv(r)'
  BY DEF ReqInv, Phase, Drafted, Found, Read, InSignUp, OfMember, InLogin

LEMMA NothingDeserved == ASSUME NEW u PROVE Deserved(u, NoClaims)
  BY DEF Deserved

LEMMA NamesStay ==
  ASSUME MemInv, NEW r \in Requests, Step(r), account' = account, Named(r)' => Named(r)
  PROVE  NameInv'
<1>1. \A q \in Requests : (Named(q)' => Named(q)) /\ Subject(q)' = Subject(q)
  BY DEF Step, Named, SignUp, Subject
<1>2. \A q \in Requests : Apart(q)'
  BY <1>1 DEF MemInv, NameInv, Apart, HasAccount
<1>. QED  BY <1>2 DEF MemInv, NameInv, NamesAreUnique, HasAccount

LEMMA LocalStep ==
  ASSUME MemInv, NEW r \in Requests, TypeOK', Step(r), tables' = tables,
         outcome'[r] = "ok" => call[r].op \notin {"invite", "setBranches"},
         NameInv', ReqInv(r)'
  PROVE  MemInv'
<1> DEFINE u == Subject(r)
<1>1. /\ account' = account /\ restaurants' = restaurants /\ member' = member
      /\ list' = list /\ lister' = lister
  BY DEF tables
<1>2. Moves(r)
  BY <1>1 DEF Moves, IsMember
<1>3. /\ u \in Users /\ UserInv(u) /\ Subject(r)' = u /\ call' = call
  BY SubjectType DEF MemInv, Step, Subject
<1>4. Rows(u)'
  <2>1. \A v, b : Granted(v, b) => Granted(v, b)'
    BY GrantedStays
  <2>. QED  BY <1>1, <1>3, <2>1 DEF UserInv, Rows, HasAccount, IsMember, Granted, Did, Subject
<1>5. Made(u)'
  <2>1. \A q \in Requests : outcome[q] = "ok" => outcome'[q] = "ok"
    BY DEF MemInv, ReqInv, Phase, Step
  <2>. QED  BY <1>1, <1>3, <2>1 DEF UserInv, Made, IsMember, Houses, SignUp, Subject, Did
<1>6. Mixed(u)'
  <2> SUFFICES ASSUME NEW q \in Requests, lister[u] = q PROVE Mixed(u)'
    BY <1>1, <1>3 DEF Mixed, Subject
  <2>1. Subject(q) = u /\ pc[q] # "idle" /\ pc'[q] # "idle"
    BY <1>3 DEF UserInv, Mixed, Step
  <2>2. outcome'[q] = "ok" /\ call[q].op \in {"invite", "setBranches"} => outcome[q] = "ok"
    BY DEF Step
  <2>3. \A x \in Requests : Overlapped(x, q) => Overlapped(x, q)'
    BY <2>1, OverlapStays
  <2>. QED  BY <1>1, <1>3, <2>1, <2>2, <2>3 DEF UserInv, Mixed, Subject
<1>7. UserInv(u)'
  BY <1>4, <1>5, <1>6 DEF UserInv
<1>. QED  BY <1>2, <1>7, Together

\* The same, for a step that ends the request without a token.
LEMMA LocalEnd ==
  ASSUME MemInv, NEW r \in Requests, TypeOK', pc[r] # "over", NEW what, Finish(r, what),
         what = "ok" => call[r].op \notin {"invite", "setBranches"},
         tables' = tables, call' = call, claims' = claims,
         before' = before \/ (pc[r] = "idle" /\ Arrive(r))
  PROVE  MemInv'
<1>1. /\ Step(r) /\ pc'[r] = "over" /\ outcome'[r] = what /\ draft'[r] = Blank
      /\ before'[r] \subseteq {q \in Requests : pc'[q] = "over"}
  BY FinishIsStep
<1>2. claims'[r] = NoClaims
  BY DEF MemInv, ReqInv, Phase
<1>3. Deserved(Subject(r), claims[r])'
  BY <1>2 DEF Deserved
<1>4. ReqInv(r)'
  BY <1>1, <1>3, FinishedRequest
<1>5. NameInv'
  BY <1>1, NamesStay DEF Named, tables
<1>. QED  BY <1>1, <1>4, <1>5, LocalStep

-----------------------------------------------------------------------------
(* Type correctness.                                                       *)

LEMMA CallTypes ==
  ASSUME TypeOK, NEW r \in Requests
  PROVE  /\ call[r] \in Call
         /\ call[r].op = "register" => call[r].restaurant \in BOOLEAN
         /\ call[r].op = "invite" =>
              call[r].at \in Users /\ call[r].role \in Roles /\ call[r].branches \subseteq Branches
         /\ call[r].op = "update" =>
              /\ call[r].at \in Users /\ call[r].role \in Roles \cup {Same}
              /\ call[r].status \in Statuses \cup {Same}
         /\ call[r].op = "delete" => call[r].at \in Users
         /\ call[r].op = "setBranches" => call[r].at \in Users /\ call[r].branches \subseteq Branches
  BY CallsAssumption DEF TypeOK, Call

LEMMA TypeFinish ==
  ASSUME TypeOK, NEW r \in Requests, NEW what \in Outcomes, Finish(r, what)
  PROVE  /\ pc' \in [Requests -> Places] /\ outcome' \in [Requests -> Outcomes]
         /\ draft' \in [Requests -> [restaurant : BOOLEAN, row : Row \cup {NoRow},
                                     list : SUBSET Branches]]
         /\ gone' \in [Requests -> SUBSET Branches]
  BY DEF TypeOK, Finish, Blank, Places, Outcomes

LEMMA TypeGoto ==
  ASSUME TypeOK, NEW r \in Requests, NEW where \in Places, Goto(r, where)
  PROVE  /\ pc' \in [Requests -> Places] /\ outcome' \in [Requests -> Outcomes]
  BY DEF TypeOK, Goto

LEMMA TypeArrive ==
  ASSUME TypeOK, NEW r \in Requests, Arrive(r)
  PROVE  before' \in [Requests -> SUBSET Requests]
  BY DEF TypeOK, Arrive, Before

LEMMA OutcomeTypes == {"none", "ok", "conflict", "refused", "error"} \subseteq Outcomes
  BY DEF Outcomes

LEMMA PlaceTypes ==
  {"open", "checked", "named", "housed", "joined", "listed", "read", "cleared", "removed", "wiped",
   "known", "roled"} \subseteq Places
  BY DEF Places

LEMMA TypeOpenSignUp == ASSUME TypeOK, NEW r \in Requests, OpenSignUp(r) PROVE TypeOK'
<1>1. before' \in [Requests -> SUBSET Requests]
  BY TypeArrive DEF OpenSignUp
<1>. QED  BY <1>1, TypeGoto, PlaceTypes DEF OpenSignUp, TypeOK, tables

LEMMA TypeCheckNames == ASSUME TypeOK, NEW r \in Requests, CheckNames(r) PROVE TypeOK'
<1>1. CASE Finish(r, "conflict")
  BY <1>1, TypeFinish, OutcomeTypes DEF CheckNames, TypeOK, tables
<1>2. CASE Goto(r, "checked") /\ UNCHANGED <<draft, gone>>
  BY <1>2, TypeGoto, PlaceTypes DEF CheckNames, TypeOK, tables
<1>. QED  BY <1>1, <1>2 DEF CheckNames

LEMMA TypeGiveUp == ASSUME TypeOK, NEW r \in Requests, GiveUp(r) PROVE TypeOK'
  BY TypeFinish, OutcomeTypes DEF GiveUp, TypeOK, tables

LEMMA TypeInsertUser == ASSUME TypeOK, NEW r \in Requests, InsertUser(r) PROVE TypeOK'
<1>1. CASE Finish(r, "conflict")
  BY <1>1, TypeFinish, OutcomeTypes DEF InsertUser, TypeOK, tables
<1>2. CASE Goto(r, "named") /\ UNCHANGED <<draft, gone>>
  BY <1>2, TypeGoto, PlaceTypes DEF InsertUser, TypeOK, tables
<1>. QED  BY <1>1, <1>2 DEF InsertUser

LEMMA TypeInsertRestaurant ==
  ASSUME TypeOK, NEW r \in Requests, InsertRestaurant(r) PROVE TypeOK'
  BY TypeGoto, PlaceTypes DEF InsertRestaurant, TypeOK, tables

LEMMA TypeInsertMember == ASSUME TypeOK, NEW r \in Requests, InsertMember(r) PROVE TypeOK'
<1>1. OwnerRow(r) \in Row
  BY SubjectType DEF OwnerRow, Row, Roles, Statuses
<1>2. call[r].op = "invite" => InvitedRow(r) \in Row
  BY CallTypes DEF InvitedRow, Row, Statuses
<1>3. PICK row \in Row : draft' = [draft EXCEPT ![r].row = row]
  BY <1>1, <1>2 DEF InsertMember, OwnerRow, InvitedRow
<1>4. draft' \in [Requests -> [restaurant : BOOLEAN, row : Row \cup {NoRow},
                              list : SUBSET Branches]]
  BY <1>3 DEF TypeOK
<1>. QED  BY <1>4, TypeGoto, PlaceTypes DEF InsertMember, TypeOK, tables

LEMMA TypeInsertList == ASSUME TypeOK, NEW r \in Requests, InsertList(r) PROVE TypeOK'
  BY CallTypes, TypeGoto, PlaceTypes DEF InsertList, TypeOK, tables

LEMMA TypeCommitSignUp == ASSUME TypeOK, NEW r \in Requests, CommitSignUp(r) PROVE TypeOK'
<1>1. /\ Subject(r) \in Users
      /\ draft[r] \in [restaurant : BOOLEAN, row : Row \cup {NoRow}, list : SUBSET Branches]
  BY SubjectType DEF TypeOK
<1>2. /\ [at |-> Subject(r), role |-> "owner", branches |-> {}] \in Claims
      /\ NoClaims \in Claims
  BY <1>1 DEF Claims, Roles
<1>3. claims' \in [Requests -> Claims]
  BY <1>2 DEF CommitSignUp, TypeOK
<1>4. /\ account' \in [Users -> Requests \cup {Seed, NoRequest}]
      /\ restaurants' \subseteq Users
      /\ member' \in [Users -> Row \cup {NoRow}]
      /\ list' \in [Users -> SUBSET Branches]
      /\ lister' \in [Users -> Requests \cup {Seed}]
  BY <1>1 DEF CommitSignUp, TypeOK
<1>. QED  BY <1>3, <1>4, TypeFinish, OutcomeTypes DEF CommitSignUp, TypeOK

LEMMA TypeReadMember == ASSUME TypeOK, NEW r \in Requests, ReadMember(r) PROVE TypeOK'
<1>1. before' \in [Requests -> SUBSET Requests]
  BY TypeArrive DEF ReadMember
<1>2. CASE Finish(r, "refused")
  BY <1>1, <1>2, TypeFinish, OutcomeTypes DEF ReadMember, TypeOK, tables
<1>3. CASE Goto(r, "read") /\ UNCHANGED <<draft, gone>>
  BY <1>1, <1>3, TypeGoto, PlaceTypes DEF ReadMember, TypeOK, tables
<1>. QED  BY <1>2, <1>3 DEF ReadMember

\* An UPDATE leaves a row a row, of the same restaurant.
LEMMA UpdatedRow ==
  ASSUME TypeOK, NEW r \in Requests, UpdateMember(r)
  PROVE  /\ \A v \in Users \ {Subject(r)} : member'[v] = member[v]
         /\ member[Subject(r)] = NoRow => member'[Subject(r)] = NoRow
         /\ member[Subject(r)] # NoRow =>
              /\ member'[Subject(r)] \in Row
              /\ member'[Subject(r)].at = member[Subject(r)].at
              /\ member'[Subject(r)].role \in {member[Subject(r)].role, call[r].role}
         /\ member' \in [Users -> Row \cup {NoRow}]
<1> DEFINE s == Subject(r)
           new == [at |-> member[s].at,
                   role |-> IF call[r].role = Same THEN member[s].role ELSE call[r].role,
                   status |-> IF call[r].status = Same THEN member[s].status
                              ELSE call[r].status]
<1>1. s \in Users /\ member[s] \in Row \cup {NoRow}
  BY SubjectType DEF TypeOK
<1>2. member[s] # NoRow => new \in Row
  BY <1>1, CallTypes DEF Row, UpdateMember
<1>3. member' = [member EXCEPT ![s] = IF member[s] = NoRow THEN NoRow ELSE new]
  BY <1>1 DEF UpdateMember, TypeOK
<1>. QED  BY <1>1, <1>2, <1>3 DEF TypeOK

LEMMA TypeUpdateMember == ASSUME TypeOK, NEW r \in Requests, UpdateMember(r) PROVE TypeOK'
  BY UpdatedRow, TypeFinish, OutcomeTypes DEF UpdateMember, TypeOK

LEMMA TypeDeleteList == ASSUME TypeOK, NEW r \in Requests, DeleteList(r) PROVE TypeOK'
  BY SubjectType, TypeGoto, PlaceTypes DEF DeleteList, TypeOK, tables

LEMMA TypeDeleteMember == ASSUME TypeOK, NEW r \in Requests, DeleteMember(r) PROVE TypeOK'
  BY SubjectType, TypeGoto, PlaceTypes DEF DeleteMember, TypeOK, tables

LEMMA TypeCommitDeletion == ASSUME TypeOK, NEW r \in Requests, CommitDeletion(r) PROVE TypeOK'
  BY TypeFinish, OutcomeTypes DEF CommitDeletion, TypeOK

LEMMA TypeWipeList == ASSUME TypeOK, NEW r \in Requests, WipeList(r) PROVE TypeOK'
<1>1. CASE Finish(r, "ok")
  BY <1>1, TypeFinish, OutcomeTypes DEF WipeList, TypeOK
<1>2. CASE Goto(r, "wiped") /\ UNCHANGED <<draft, gone>>
  BY <1>2, TypeGoto, PlaceTypes DEF WipeList, TypeOK
<1>. QED  BY <1>1, <1>2 DEF WipeList

LEMMA TypeFillList ==
  ASSUME MemInv, NEW r \in Requests, FillList(r) PROVE TypeOK'
<1>1. TypeOK /\ call[r].branches \subseteq Branches /\ Subject(r) \in Users
  BY CallTypes, SubjectType DEF MemInv, ReqInv, Phase, FillList
<1>2. /\ list' \in [Users -> SUBSET Branches] /\ lister' \in [Users -> Requests \cup {Seed}]
  <2>1. CASE UNCHANGED <<list, lister>>
    BY <1>1, <2>1 DEF TypeOK
  <2>2. CASE /\ list' = [list EXCEPT ![Subject(r)] = @ \cup call[r].branches]
             /\ lister' = [lister EXCEPT ![Subject(r)] = r]
    <3>1. list[Subject(r)] \cup call[r].branches \in SUBSET Branches
      BY <1>1 DEF TypeOK
    <3>. QED  BY <1>1, <2>2, <3>1 DEF TypeOK
  <2>. QED  BY <2>1, <2>2 DEF FillList
<1>3. \E what \in Outcomes : Finish(r, what)
  BY OutcomeTypes DEF FillList
<1>. QED  BY <1>1, <1>2, <1>3, TypeFinish DEF FillList, TypeOK

LEMMA TypeAccept == ASSUME TypeOK, NEW r \in Requests, Accept(r) PROVE TypeOK'
<1>1. \E what \in Outcomes : Finish(r, what)
  BY OutcomeTypes DEF Accept
<1>2. member[Subject(r)] \in Row \cup {NoRow}
  BY SubjectType DEF TypeOK
<1>3. member' \in [Users -> Row \cup {NoRow}]
  <2>1. CASE member' = member
    BY <2>1 DEF TypeOK
  <2>2. CASE /\ member[Subject(r)].status = "inactive"
             /\ member' = [member EXCEPT ![Subject(r)].status = "active"]
    <3>1. [member[Subject(r)] EXCEPT !.status = "active"] \in Row
      BY <1>2, <2>2 DEF Row, NoRow, Statuses
    <3>. QED  BY <2>2, <3>1 DEF TypeOK
  <2>. QED  BY <2>1, <2>2 DEF Accept
<1>4. before' \in [Requests -> SUBSET Requests]
  BY TypeArrive DEF Accept
<1>. QED  BY <1>1, <1>3, <1>4, TypeFinish DEF Accept, TypeOK

LEMMA TypeFindUser == ASSUME TypeOK, NEW r \in Requests, FindUser(r) PROVE TypeOK'
  BY TypeArrive, TypeGoto, PlaceTypes DEF FindUser, TypeOK, tables

LEMMA TypeReadRole == ASSUME TypeOK, NEW r \in Requests, ReadRole(r) PROVE TypeOK'
<1>1. CASE Finish(r, "ok")
  BY <1>1, TypeFinish, OutcomeTypes DEF ReadRole, TypeOK, tables
<1>2. CASE Goto(r, "roled") /\ draft' = [draft EXCEPT ![r].row = member[Subject(r)]] /\ gone' = gone
  BY <1>2, SubjectType, TypeGoto, PlaceTypes DEF ReadRole, TypeOK, tables
<1>. QED  BY <1>1, <1>2 DEF ReadRole

LEMMA TypeReadList ==
  ASSUME MemInv, NEW r \in Requests, ReadList(r) PROVE TypeOK'
<1>1. draft[r].row \in Row /\ Subject(r) \in Users /\ TypeOK
  BY SubjectType DEF MemInv, ReqInv, Read, ReadList
<1>2. claims' \in [Requests -> Claims]
  BY <1>1 DEF ReadList, TypeOK, Claims, Row
<1>. QED  BY <1>1, <1>2, TypeFinish, OutcomeTypes DEF ReadList, TypeOK, tables

LEMMA TypeRefresh == ASSUME TypeOK, NEW r \in Requests, Refresh(r) PROVE TypeOK'
<1>1. claims' \in [Requests -> Claims]
  BY DEF Refresh, TypeOK
<1>. QED  BY <1>1, TypeArrive, TypeFinish, OutcomeTypes DEF Refresh, TypeOK, tables

LEMMA TypeFail == ASSUME TypeOK, NEW r \in Requests, Fail(r) PROVE TypeOK'
  BY TypeFinish, OutcomeTypes DEF Fail, TypeOK, tables

-----------------------------------------------------------------------------
(* Signing up.                                                             *)

\* Until it inserts its user a sign-up has touched nothing.
LEMMA NothingYet ==
  ASSUME MemInv, NEW r \in Requests, TypeOK', NEW where,
         where \in {"open", "checked"}, Goto(r, where), draft' = draft,
         SignUp(r), Allowed(r), pc[r] \in {"idle", "open"},
         tables' = tables, call' = call, claims' = claims,
         before' = before \/ (pc[r] = "idle" /\ Arrive(r))
  PROVE  MemInv'
<1>1. /\ Step(r) /\ pc'[r] = where /\ outcome'[r] = "none" /\ claims'[r] = NoClaims
      /\ before'[r] \subseteq {q \in Requests : pc'[q] = "over"}
  BY GotoIsStep
<1>2. Phase(r)' /\ Drafted(r)' /\ Found(r)' /\ Read(r)' /\ Deserved(Subject(r), claims[r])'
  BY <1>1 DEF MemInv, ReqInv, Phase, Drafted, Found, Read, Deserved, InSignUp,
     OfMember, InLogin, SignUp, Allowed, InRestaurant, tables
<1>3. NameInv'
  BY <1>1, NamesStay DEF Named, tables
<1>. QED  BY <1>1, <1>2, <1>3, LocalStep DEF ReqInv

LEMMA OpenSignUpKeeps == ASSUME MemInv, NEW r \in Requests, OpenSignUp(r) PROVE MemInv'
  BY TypeOpenSignUp, NothingYet DEF OpenSignUp, MemInv, tables

LEMMA CheckNamesKeeps == ASSUME MemInv, NEW r \in Requests, CheckNames(r) PROVE MemInv'
<1>1. /\ TypeOK' /\ pc[r] = "open" /\ SignUp(r) /\ Allowed(r) /\ tables' = tables
      /\ call' = call /\ claims' = claims /\ before' = before
  BY TypeCheckNames DEF CheckNames, MemInv, ReqInv, Phase, InSignUp, tables
<1>2. CASE Finish(r, "conflict")
  BY <1>1, <1>2, LocalEnd
<1>3. CASE Goto(r, "checked") /\ draft' = draft
  BY <1>1, <1>3, NothingYet
<1>. QED  BY <1>2, <1>3 DEF CheckNames

LEMMA GiveUpKeeps == ASSUME MemInv, NEW r \in Requests, GiveUp(r) PROVE MemInv'
  BY TypeGiveUp, LocalEnd DEF GiveUp, MemInv, tables

LEMMA InsertUserKeeps == ASSUME MemInv, NEW r \in Requests, InsertUser(r) PROVE MemInv'
<1>1. /\ TypeOK' /\ pc[r] = "checked" /\ NamesFree(r) /\ tables' = tables
      /\ call' = call /\ claims' = claims /\ before' = before
  BY TypeInsertUser DEF InsertUser, MemInv, tables
<1>2. CASE Finish(r, "conflict")
  BY <1>1, <1>2, LocalEnd
<1>3. CASE /\ Goto(r, "named") /\ draft' = draft
           /\ \A u \in Users : HasAccount(u) => ~Clash(u, Subject(r))
  <2>1. /\ Step(r) /\ pc'[r] = "named" /\ outcome'[r] = "none" /\ claims'[r] = NoClaims
        /\ before'[r] \subseteq {q \in Requests : pc'[q] = "over"}
    BY <1>1, <1>3, GotoIsStep
  <2>2. Phase(r)' /\ Drafted(r)' /\ Found(r)' /\ Read(r)' /\ Deserved(Subject(r), claims[r])'
    BY <1>1, <1>3, <2>1 DEF MemInv, ReqInv, Phase, Drafted, Found, Read, Deserved, InSignUp,
       OfMember, InLogin, SignUp, Allowed, InRestaurant, tables
  <2>3. NameInv'
    <3>1. \A q \in Requests : Subject(q)' = Subject(q) /\ (Named(q)' => Named(q) \/ q = r)
      BY <2>1 DEF Step, Named, SignUp, Subject
    <3>2. Apart(r)'
      BY <1>1, <1>3, <3>1 DEF NamesFree, Apart, HasAccount, tables
    <3>3. \A q \in Requests \ {r} : Apart(q)'
      BY <1>1, <3>1 DEF MemInv, NameInv, NamesFree, Apart, HasAccount, Clash, tables
    <3>. QED  BY <1>1, <3>2, <3>3 DEF MemInv, NameInv, NamesAreUnique, HasAccount, tables
  <2>. QED  BY <1>1, <2>1, <2>2, <2>3, LocalStep DEF ReqInv
<1>. QED  BY <1>2, <1>3 DEF InsertUser

\* Sign-ups that have their user go on without touching the names.
LEMMA SignUpGoesOn ==
  ASSUME MemInv, NEW r \in Requests, TypeOK', Named(r), NEW where,
         where \in {"housed", "joined", "listed"}, Goto(r, where),
         \E d : draft' = [draft EXCEPT ![r] = d],
         tables' = tables, call' = call, claims' = claims, before' = before, Drafted(r)'
  PROVE  MemInv'
<1>1. /\ Step(r) /\ pc'[r] = where /\ outcome'[r] = "none" /\ claims'[r] = NoClaims
      /\ before'[r] \subseteq {q \in Requests : pc'[q] = "over"}
  BY GotoIsStep DEF Named
<1>2. Phase(r)' /\ Found(r)' /\ Read(r)' /\ Deserved(Subject(r), claims[r])'
  BY <1>1 DEF MemInv, ReqInv, Phase, Found, Read, Deserved, InSignUp, Named,
     OfMember, InLogin, SignUp, Allowed, InRestaurant, tables
<1>3. NameInv'
  BY NamesStay, <1>1 DEF tables
<1>. QED  BY <1>1, <1>2, <1>3, LocalStep DEF ReqInv

LEMMA InsertRestaurantKeeps ==
  ASSUME MemInv, NEW r \in Requests, InsertRestaurant(r) PROVE MemInv'
<1>1. TypeOK' /\ Named(r) /\ draft[r] = Blank
  BY TypeInsertRestaurant DEF MemInv, ReqInv, Phase, Drafted, InSignUp, Named, InsertRestaurant
<1>2. draft' = [draft EXCEPT ![r] = [draft[r] EXCEPT !.restaurant = TRUE]]
  BY DEF InsertRestaurant, MemInv, TypeOK
<1>3. Holds(r, TRUE, NoRow, {})'
  BY <1>1, <1>2 DEF Holds, Blank, NoRow, MemInv, TypeOK
<1>4. Drafted(r)'
  BY <1>3 DEF InsertRestaurant, Goto, Drafted, Houses, MemInv, TypeOK, NoRow, Holds
<1>. QED  BY <1>1, <1>2, <1>4, SignUpGoesOn DEF InsertRestaurant

LEMMA InsertMemberKeeps == ASSUME MemInv, NEW r \in Requests, InsertMember(r) PROVE MemInv'
<1>1. TypeOK' /\ Named(r)
  BY TypeInsertMember DEF MemInv, ReqInv, Phase, InSignUp, Named, InsertMember
<1> DEFINE row == IF call[r].op = "register" THEN OwnerRow(r) ELSE InvitedRow(r)
<1>2. draft' = [draft EXCEPT ![r] = [draft[r] EXCEPT !.row = row]]
  BY DEF InsertMember, OwnerRow, InvitedRow, MemInv, TypeOK
<1>3. draft'[r].restaurant = draft[r].restaurant /\ draft'[r].row = row
        /\ draft'[r].list = draft[r].list
  BY <1>2 DEF MemInv, TypeOK
<1>4. call' = call /\ pc'[r] = "joined" /\ Subject(r)' = Subject(r)
  BY DEF InsertMember, Goto, MemInv, TypeOK, Subject
<1>5. Drafted(r)'
  <2>1. CASE pc[r] = "housed" /\ call[r].op = "register"
    <3>1. Houses(r) /\ Holds(r, TRUE, NoRow, {})
      BY <2>1 DEF MemInv, ReqInv, Drafted
    <3>. QED  BY <1>3, <1>4, <2>1, <3>1 DEF Drafted, Holds, Houses, OwnerRow
  <2>2. CASE pc[r] = "named" /\ call[r].op = "invite"
    <3>1. draft[r] = Blank
      BY <2>2 DEF MemInv, ReqInv, Drafted
    <3>. QED  BY <1>3, <1>4, <2>2, <3>1 DEF Drafted, Holds, Blank, InvitedRow
  <2>. QED  BY <2>1, <2>2 DEF InsertMember
<1>. QED  BY <1>1, <1>2, <1>5, SignUpGoesOn DEF InsertMember

LEMMA InsertListKeeps == ASSUME MemInv, NEW r \in Requests, InsertList(r) PROVE MemInv'
<1>1. TypeOK' /\ Named(r)
  BY TypeInsertList DEF MemInv, ReqInv, Phase, InSignUp, Named, InsertList
<1>2. draft' = [draft EXCEPT ![r] = [draft[r] EXCEPT !.list = call[r].branches]]
  BY DEF InsertList, MemInv, TypeOK
<1>3. Holds(r, FALSE, InvitedRow(r), {})
  BY DEF InsertList, MemInv, ReqInv, Drafted
<1>4. Holds(r, FALSE, InvitedRow(r), call[r].branches)'
  BY <1>2, <1>3 DEF Holds, InvitedRow, InsertList, MemInv, TypeOK
<1>5. Drafted(r)'
  BY <1>4 DEF InsertList, Goto, Drafted, MemInv, TypeOK, InvitedRow, Holds
<1>. QED  BY <1>1, <1>2, <1>5, SignUpGoesOn DEF InsertList

\* Where a sign-up commits, and with which rows.
LEMMA WholeDraft ==
  ASSUME MemInv, NEW r \in Requests, CommitSignUp(r)
  PROVE  /\ Named(r) /\ pc[r] # "over"
         /\ Houses(r) => draft[r].restaurant
         /\ \/ /\ ~(call[r].op = "invite" \/ (call[r].op = "register" /\ Houses(r)))
               /\ draft[r].row = NoRow /\ draft[r].list = {}
            \/ /\ call[r].op = "register" /\ Houses(r)
               /\ draft[r].row = OwnerRow(r) /\ draft[r].list = {}
            \/ /\ call[r].op = "invite" /\ draft[r].restaurant = FALSE
               /\ draft[r].row = InvitedRow(r) /\ draft[r].list = call[r].branches
<1>1. CommitSignUp(r) /\ SignUp(r) /\ Complete(r) /\ Drafted(r)
  BY DEF CommitSignUp, MemInv, ReqInv
<1>2. CASE call[r].op = "invite"
  <2>1. /\ pc[r] = IF call[r].branches = {} THEN "joined" ELSE "listed"
        /\ ~Houses(r)
    BY <1>1, <1>2 DEF Complete, Houses
  <2>2. Holds(r, FALSE, InvitedRow(r), call[r].branches)
    BY <1>1, <1>2, <2>1 DEF Drafted, Holds
  <2>. QED  BY <1>1, <1>2, <2>1, <2>2 DEF Named, Holds
<1>3. CASE call[r].op = "provision"
  <2>1. pc[r] = "housed"
    BY <1>1, <1>3 DEF Complete
  <2>2. Holds(r, TRUE, NoRow, {})
    BY <1>1, <2>1 DEF Drafted
  <2>. QED  BY <1>1, <1>3, <2>1, <2>2 DEF Named, Holds
<1>4. CASE call[r].op = "register" /\ Houses(r)
  <2>1. pc[r] = "joined"
    BY <1>1, <1>4 DEF Complete
  <2>2. Holds(r, TRUE, OwnerRow(r), {})
    BY <1>1, <1>4, <2>1 DEF Drafted
  <2>. QED  BY <1>1, <1>4, <2>1, <2>2 DEF Named, Holds
<1>5. CASE call[r].op = "register" /\ ~Houses(r)
  <2>1. pc[r] = "named"
    BY <1>1, <1>5 DEF Complete
  <2>2. Holds(r, FALSE, NoRow, {})
    BY <1>1, <2>1 DEF Drafted, Blank, Holds
  <2>. QED  BY <1>1, <1>5, <2>1, <2>2 DEF Named, Holds
<1>. QED  BY <1>1, <1>2, <1>3, <1>4, <1>5 DEF SignUp

LEMMA CommitSignUpKeeps == ASSUME MemInv, NEW r \in Requests, CommitSignUp(r) PROVE MemInv'
<1> DEFINE s == Subject(r)
<1>1. TypeOK' /\ TypeOK /\ ReqInv(r) /\ s \in Users /\ Subject(r)' = s
  BY TypeCommitSignUp, SubjectType DEF MemInv, CommitSignUp, Subject
<1>2. /\ Step(r) /\ pc'[r] = "over" /\ outcome'[r] = "ok" /\ draft'[r] = Blank
      /\ before'[r] \subseteq {q \in Requests : pc'[q] = "over"}
  BY WholeDraft, FinishIsStep DEF CommitSignUp
<1>3. /\ account' = [account EXCEPT ![s] = r] /\ call' = call
      /\ restaurants' = restaurants \cup (IF draft[r].restaurant THEN {s} ELSE {})
      /\ member'[s] = draft[r].row /\ list'[s] = draft[r].list /\ lister'[s] = r
      /\ \A v \in Users \ {s} :
           /\ account'[v] = account[v] /\ member'[v] = member[v]
           /\ list'[v] = list[v] /\ lister'[v] = lister[v]
  BY <1>1 DEF CommitSignUp, TypeOK
<1>4. Named(r) /\ ~HasAccount(s)
  BY <1>1, WholeDraft DEF MemInv, NameInv, Apart, Clash
<1>5. Moves(r)
  BY <1>1, <1>3, <1>4 DEF Moves, HasAccount
<1>6. Allowed(r) /\ r # NoRequest
  BY <1>1, <1>4, RequestsAssumption DEF ReqInv, Phase, InSignUp, Named
<1>7. HasAccount(s)' /\ account'[s] = r
  BY <1>1, <1>3, <1>6 DEF HasAccount, TypeOK
<1>8. OwnerRow(r) # NoRow /\ (call[r].op = "invite" => InvitedRow(r) # NoRow)
  BY <1>1, CallTypes, SeedAssumption DEF OwnerRow, InvitedRow, NoRow
<1>9. Rows(s)'
  <2>1. CASE draft[r].row = NoRow /\ draft[r].list = {}
    BY <1>1, <1>3, <1>7, <2>1 DEF Rows, IsMember
  <2>2. CASE /\ call[r].op = "register" /\ Houses(r)
             /\ draft[r].row = OwnerRow(r) /\ draft[r].list = {}
    <3>1. s \in restaurants'
      BY <1>3, <2>2, WholeDraft
    <3>2. member'[s].at = s /\ list'[s] = {}
      BY <1>3, <2>2 DEF OwnerRow
    <3>. QED  BY <1>1, <1>7, <3>1, <3>2 DEF Rows, IsMember
  <2>3. CASE /\ call[r].op = "invite"
             /\ draft[r].row = InvitedRow(r) /\ draft[r].list = call[r].branches
    <3>1. /\ call[r].at \in restaurants /\ call[r].role # "owner"
          /\ \A b \in call[r].branches : BranchOf[b] = call[r].at
      BY <1>6, <2>3 DEF Allowed, InRestaurant
    <3>2. Did(r, s, "invite")'
      BY <1>1, <1>2, <1>3, <2>3 DEF Did
    <3>3. \A b \in call[r].branches : Granted(s, b)'
      BY <1>1, <1>3, <3>2 DEF Granted
    <3>. QED  BY <1>1, <1>3, <1>7, <1>8, <2>3, <3>1, <3>3 DEF Rows, IsMember, InvitedRow
  <2>. QED  BY <2>1, <2>2, <2>3, WholeDraft
<1>10. Made(s)'
  <2>1. SignUp(r)' /\ (Houses(r)' <=> Houses(r))
    BY <1>3 DEF CommitSignUp, SignUp, Houses
  <2>2. Houses(r) => s \in restaurants'
    BY <1>3, WholeDraft
  <2>3. call[r].op = "invite" \/ (call[r].op = "register" /\ Houses(r)) => IsMember(s)'
    BY <1>1, <1>3, <1>8, WholeDraft DEF IsMember
  <2>. QED  BY <1>1, <1>2, <1>3, <1>7, <2>1, <2>2, <2>3 DEF Made
<1>11. Mixed(s)'
  <2>1. call[r].op # "setBranches" /\ (call[r].op = "invite" => list'[s] = call[r].branches)
    BY <1>3, WholeDraft DEF CommitSignUp, SignUp
  <2>. QED  BY <1>1, <1>2, <1>3, <2>1 DEF Mixed
<1>12. NameInv'
  <2>1. \A q \in Requests : Subject(q)' = Subject(q) /\ (Named(q)' => Named(q) /\ q # r)
    BY <1>2, <1>3 DEF Step, Named, SignUp, Subject
  <2>2. \A u \in Users : HasAccount(u)' => HasAccount(u) \/ u = s
    BY <1>3 DEF HasAccount
  <2>3. /\ \A u \in Users : HasAccount(u) => ~Clash(u, s)
        /\ \A q \in Requests \ {r} : Named(q) => ~Clash(Subject(q), s)
    BY <1>4 DEF MemInv, NameInv, Apart
  <2>4. NamesAreUnique'
    BY <2>2, <2>3 DEF MemInv, NameInv, NamesAreUnique, Clash
  <2>5. \A q \in Requests : Apart(q)'
    BY <2>1, <2>2, <2>3 DEF MemInv, NameInv, Apart, Clash
  <2>. QED  BY <2>4, <2>5 DEF NameInv
<1>13. ReqInv(r)'
  <2>1. claims'[r] = IF call[r].op = "register" /\ Houses(r)
                       THEN [at |-> s, role |-> "owner", branches |-> {}] ELSE NoClaims
    BY <1>1 DEF CommitSignUp, TypeOK
  <2>2. Deserved(s, claims[r])'
    <3>1. Houses(r) => s \in restaurants'
      BY <1>3, WholeDraft
    <3>. QED  BY <1>1, <2>1, <3>1 DEF Deserved
  <2>. QED  BY <1>1, <1>2, <2>2, FinishedRequest
<1>14. UserInv(s)'
  BY <1>9, <1>10, <1>11 DEF UserInv
<1>. QED  BY <1>1, <1>2, <1>5, <1>12, <1>13, <1>14, Together

-----------------------------------------------------------------------------
(* Changing a member: the steps that write no table.                       *)

LEMMA ReadMemberKeeps == ASSUME MemInv, NEW r \in Requests, ReadMember(r) PROVE MemInv'
<1>1. /\ TypeOK' /\ pc[r] = "idle" /\ call[r].op \in {"update", "delete", "setBranches"}
      /\ tables' = tables /\ call' = call /\ claims' = claims /\ Arrive(r)
  BY TypeReadMember DEF ReadMember, MemInv, tables
<1>2. CASE Finish(r, "refused")
  BY <1>1, <1>2, LocalEnd
<1>3. CASE /\ Goto(r, "read") /\ UNCHANGED <<draft, gone>>
           /\ IsMember(Subject(r)) /\ member[Subject(r)].at = call[r].at
           /\ call[r].op = "update" => call[r].role # "owner"
           /\ call[r].op = "setBranches" => InRestaurant(r)
  <2>1. /\ Step(r) /\ pc'[r] = "read" /\ outcome'[r] = "none" /\ claims'[r] = NoClaims
        /\ before'[r] \subseteq {q \in Requests : pc'[q] = "over"}
    BY <1>1, <1>3, GotoIsStep
  <2>2. HasAccount(Subject(r))
    BY <1>3, SubjectType DEF MemInv, UserInv, Rows
  <2>3. Phase(r)' /\ Drafted(r)' /\ Found(r)' /\ Read(r)' /\ Deserved(Subject(r), claims[r])'
    BY <1>1, <1>3, <2>1, <2>2 DEF MemInv, ReqInv, Phase, Drafted, Found, Read, Deserved,
       InSignUp, OfMember, InLogin, InRestaurant, HasAccount, IsMember, Subject, tables
  <2>4. NameInv'
    BY <1>1, <2>1, NamesStay DEF Named, tables
  <2>. QED  BY <1>1, <2>1, <2>3, <2>4, LocalStep DEF ReqInv
<1>. QED  BY <1>2, <1>3 DEF ReadMember

\* A deletion that goes on.
LEMMA DeletionGoesOn ==
  ASSUME MemInv, NEW r \in Requests, TypeOK', OfMember(r), call[r].op = "delete", NEW where,
         where \in {"cleared", "removed"}, Goto(r, where),
         tables' = tables, call' = call, draft' = draft, claims' = claims, before' = before
  PROVE  MemInv'
<1>1. /\ Step(r) /\ pc'[r] = where /\ outcome'[r] = "none" /\ claims'[r] = NoClaims
      /\ before'[r] \subseteq {q \in Requests : pc'[q] = "over"}
  BY GotoIsStep DEF OfMember
<1>2. ReqInv(r)'
  <2>1. Phase(r)'
    BY <1>1 DEF MemInv, ReqInv, Phase, InSignUp, OfMember, InLogin, HasAccount, Subject, tables
  <2>2. Drafted(r)' /\ Read(r)' /\ Deserved(Subject(r), claims[r])'
    BY <1>1 DEF MemInv, ReqInv, Drafted, Read, Deserved, OfMember
  <2>3. Found(r)'
    BY <1>1 DEF MemInv, ReqInv, Found, OfMember, IsMember, Subject, tables
  <2>. QED  BY <2>1, <2>2, <2>3 DEF ReqInv
<1>3. NameInv'
  BY <1>1, NamesStay DEF Named, tables
<1>. QED  BY <1>1, <1>2, <1>3, LocalStep

LEMMA DeleteListKeeps == ASSUME MemInv, NEW r \in Requests, DeleteList(r) PROVE MemInv'
<1>1. TypeOK'
  BY TypeDeleteList DEF MemInv
<1>. QED  BY <1>1, DeletionGoesOn DEF DeleteList, OfMember

LEMMA DeleteMemberKeeps == ASSUME MemInv, NEW r \in Requests, DeleteMember(r) PROVE MemInv'
<1>1. TypeOK' /\ call[r].op = "delete"
  BY TypeDeleteMember DEF MemInv, ReqInv, Phase, DeleteMember
<1>. QED  BY <1>1, DeletionGoesOn DEF DeleteMember, OfMember

LEMMA FailKeeps == ASSUME MemInv, NEW r \in Requests, Fail(r) PROVE MemInv'
<1>1. TypeOK'
  BY TypeFail DEF MemInv
<1>. QED  BY <1>1, LocalEnd DEF Fail

-----------------------------------------------------------------------------
(* Tokens.                                                                 *)

LEMMA FindUserKeeps == ASSUME MemInv, NEW r \in Requests, FindUser(r) PROVE MemInv'
<1>1. TypeOK'
  BY TypeFindUser DEF MemInv
<1>2. /\ Step(r) /\ pc'[r] = "known" /\ outcome'[r] = "none" /\ claims'[r] = NoClaims
      /\ before'[r] \subseteq {q \in Requests : pc'[q] = "over"}
  BY GotoIsStep DEF FindUser
<1>3. Phase(r)' /\ Drafted(r)' /\ Found(r)' /\ Read(r)' /\ Deserved(Subject(r), claims[r])'
  BY <1>2 DEF FindUser, MemInv, ReqInv, Phase, Drafted, Found, Read, Deserved,
     InSignUp, OfMember, InLogin, HasAccount, Subject, tables
<1>4. NameInv'
  BY <1>2, NamesStay DEF FindUser, Named, tables
<1>. QED  BY <1>1, <1>2, <1>3, <1>4, LocalStep DEF FindUser, ReqInv

LEMMA ReadRoleKeeps == ASSUME MemInv, NEW r \in Requests, ReadRole(r) PROVE MemInv'
<1>1. /\ TypeOK' /\ pc[r] = "known" /\ tables' = tables /\ call' = call
      /\ claims' = claims /\ before' = before /\ call[r].op = "login"
  BY TypeReadRole DEF ReadRole, MemInv, ReqInv, Phase, InLogin, tables
<1>2. CASE Finish(r, "ok")
  BY <1>1, <1>2, LocalEnd
<1>3. CASE /\ Goto(r, "roled") /\ gone' = gone /\ member[Subject(r)].status = "active"
           /\ draft' = [draft EXCEPT ![r].row = member[Subject(r)]]
  <2>1. draft' = [draft EXCEPT ![r] = [draft[r] EXCEPT !.row = member[Subject(r)]]]
    BY <1>3 DEF MemInv, TypeOK
  <2>2. /\ Step(r) /\ pc'[r] = "roled" /\ outcome'[r] = "none" /\ claims'[r] = NoClaims
        /\ before'[r] \subseteq {q \in Requests : pc'[q] = "over"}
    <3>1. \E d : draft' = [draft EXCEPT ![r] = d]
      BY <2>1
    <3>. QED  BY <1>1, <1>3, <3>1, GotoIsStep
  <2>3. PICK s \in Users : s = Subject(r)
    BY SubjectType DEF MemInv
  <2>4. /\ IsMember(s) /\ member[s] \in Row /\ UserInv(s)
    BY <1>3, <2>3 DEF MemInv, TypeOK, IsMember, NoRow
  <2>5. draft'[r].row = member[s] /\ member' = member /\ restaurants' = restaurants
          /\ Subject(r)' = s
    BY <1>1, <2>1, <2>3 DEF MemInv, TypeOK, Subject, tables
  <2>6. Read(r)'
    BY <1>3, <2>3, <2>4, <2>5 DEF Read, UserInv, Rows
  <2>7. Phase(r)' /\ Drafted(r)' /\ Found(r)' /\ Deserved(Subject(r), claims[r])'
    BY <1>1, <1>3, <2>2 DEF MemInv, ReqInv, Phase, Drafted, Found, Deserved,
       InSignUp, OfMember, InLogin, HasAccount, Subject, tables
  <2>8. NameInv'
    BY <1>1, <2>2, NamesStay DEF Named, tables
  <2>. QED  BY <1>1, <2>2, <2>6, <2>7, <2>8, LocalStep DEF ReqInv
<1>. QED  BY <1>2, <1>3 DEF ReadRole

\* The branches a login reads were granted, and are those of the restaurant
\* whose row it had read.
LEMMA ReadListKeeps == ASSUME MemInv, NEW r \in Requests, ReadList(r) PROVE MemInv'
<1>1. /\ TypeOK' /\ pc[r] = "roled" /\ tables' = tables /\ call' = call
      /\ before' = before /\ call[r].op = "login"
  BY TypeReadList DEF ReadList, MemInv, ReqInv, Phase, InLogin, tables
<1>2. PICK s \in Users : s = Subject(r)
  BY SubjectType DEF MemInv
<1>3. PICK row \in Row : row = draft[r].row
  BY <1>1 DEF MemInv, ReqInv, Read
<1>4. claims' = [claims EXCEPT ![r] = [at |-> row.at, role |-> row.role, branches |-> list[s]]]
  BY <1>2, <1>3 DEF ReadList
<1>5. /\ Step(r) /\ pc'[r] = "over" /\ outcome'[r] = "ok" /\ draft'[r] = Blank
      /\ before'[r] \subseteq {q \in Requests : pc'[q] = "over"}
  BY <1>1, <1>4, FinishIsStep DEF ReadList
<1>6. Deserved(Subject(r), claims[r])'
  <2>1. /\ row.role = "owner" => s \in restaurants /\ row.at = s
        /\ IsMember(s) => member[s].at = row.at
    BY <1>1, <1>2, <1>3 DEF MemInv, ReqInv, Read
  <2>2. \A b \in list[s] : BranchOf[b] = row.at /\ Granted(s, b)
    BY <2>1 DEF MemInv, UserInv, Rows
  <2>3. \A b : Granted(s, b) => Granted(s, b)'
    BY <1>5, GrantedStays
  <2>4. /\ Subject(r)' = s /\ restaurants' = restaurants
        /\ claims'[r] = [at |-> row.at, role |-> row.role, branches |-> list[s]]
    BY <1>1, <1>2, <1>4 DEF MemInv, TypeOK, Subject, tables
  <2>. QED  BY <2>1, <2>2, <2>3, <2>4 DEF Deserved
<1>7. ReqInv(r)'
  BY <1>5, <1>6, FinishedRequest
<1>8. NameInv'
  BY <1>1, <1>5, NamesStay DEF Named, tables
<1>. QED  BY <1>1, <1>5, <1>7, <1>8, LocalStep

LEMMA RefreshKeeps == ASSUME MemInv, NEW r \in Requests, Refresh(r) PROVE MemInv'
<1>1. /\ TypeOK' /\ pc[r] = "idle" /\ tables' = tables /\ call' = call /\ call[r].op = "refresh"
  BY TypeRefresh DEF Refresh, MemInv, tables
<1>2. PICK q \in Requests :
        Subject(q) = Subject(r) /\ claims' = [claims EXCEPT ![r] = claims[q]]
  BY DEF Refresh
<1>3. /\ Step(r) /\ pc'[r] = "over" /\ outcome'[r] = "ok" /\ draft'[r] = Blank
      /\ before'[r] \subseteq {x \in Requests : pc'[x] = "over"}
  BY <1>1, <1>2, FinishIsStep DEF Refresh
<1>4. Moves(r)
  BY <1>1 DEF Moves, IsMember, tables
<1>5. Deserved(Subject(r), claims[r])'
  <2>1. Deserved(Subject(r), claims[q])
    BY <1>2 DEF MemInv, ReqInv
  <2>2. claims'[r] = claims[q] /\ Subject(r)' = Subject(r)
    BY <1>1, <1>2 DEF MemInv, TypeOK, Subject
  <2>3. PICK token : token = claims[q]
    OBVIOUS
  <2>4. Deserved(Subject(r), token)
    BY <2>1, <2>3
  <2>5. token # NoClaims =>
          /\ \A b \in token.branches : BranchOf[b] = token.at /\ Granted(Subject(r), b)'
          /\ token.role = "owner" => Subject(r) \in restaurants' /\ token.at = Subject(r)
    BY <1>3, <1>4, <2>4, <2>2, DeservedStays DEF Granted
  <2>. QED  BY <2>2, <2>3, <2>5 DEF Deserved
<1>6. ReqInv(r)'
  BY <1>3, <1>5, FinishedRequest
<1>7. NameInv'
  BY <1>1, <1>3, NamesStay DEF Named, tables
<1>. QED  BY <1>1, <1>3, <1>6, <1>7, LocalStep

-----------------------------------------------------------------------------
(* The steps that write a member's row or list.                            *)

\* Whoever wrote the list has not written another one.
LEMMA MixedStays ==
  ASSUME MemInv, NEW r \in Requests, Step(r), NEW s \in Users,
         list'[s] = list[s], lister'[s] = lister[s],
         outcome'[r] = "ok" => call[r].op \notin {"invite", "setBranches"}
  PROVE  Mixed(s)'
<1> SUFFICES ASSUME NEW q \in Requests, lister[s] = q PROVE Mixed(s)'
  BY DEF Mixed
<1>1. Subject(q) = s /\ pc[q] # "idle" /\ pc'[q] # "idle" /\ call' = call
  BY DEF MemInv, UserInv, Mixed, Step
<1>2. outcome'[q] = "ok" /\ call[q].op \in {"invite", "setBranches"} => outcome[q] = "ok"
  BY DEF Step
<1>3. \A x \in Requests : Overlapped(x, q) => Overlapped(x, q)'
  BY <1>1, OverlapStays
<1>. QED  BY <1>1, <1>2, <1>3 DEF MemInv, UserInv, Mixed, Subject

\* A member is lost to a deletion only.
LEMMA MadeStays ==
  ASSUME MemInv, NEW r \in Requests, Step(r), NEW s \in Users,
         account' = account, restaurants' = restaurants,
         IsMember(s) => member'[s] # NoRow \/ \E q \in Requests : Did(q, s, "delete")'
  PROVE  Made(s)'
<1>1. \A q \in Requests : Did(q, s, "delete") => Did(q, s, "delete")'
  BY DoneStays
<1>2. \A q \in Requests : outcome[q] = "ok" => outcome'[q] = "ok"
  BY DEF MemInv, ReqInv, Phase, Step
<1>3. Made(s) /\ call' = call
  BY DEF MemInv, UserInv, Step
<1>. QED  BY <1>1, <1>2, <1>3 DEF Made, IsMember, Houses, SignUp, Subject

LEMMA TableEnd ==
  ASSUME MemInv, NEW r \in Requests, TypeOK', pc[r] # "over", Finish(r, "ok"),
         call' = call, claims' = claims, account' = account,
         before' = before \/ (pc[r] = "idle" /\ Arrive(r)),
         Moves(r), UserInv(Subject(r))'
  PROVE  MemInv'
<1>1. /\ Step(r) /\ pc'[r] = "over" /\ outcome'[r] = "ok" /\ draft'[r] = Blank
      /\ before'[r] \subseteq {q \in Requests : pc'[q] = "over"}
  BY FinishIsStep
<1>2. claims'[r] = NoClaims
  BY DEF MemInv, ReqInv, Phase
<1>3. ReqInv(r)'
  BY <1>1, <1>2, FinishedRequest DEF Deserved
<1>4. NameInv'
  BY <1>1, NamesStay DEF Named
<1>. QED  BY <1>1, <1>3, <1>4, Together

LEMMA UpdateMemberKeeps == ASSUME MemInv, NEW r \in Requests, UpdateMember(r) PROVE MemInv'
<1>1. /\ TypeOK' /\ TypeOK /\ Step(r) /\ outcome'[r] = "ok" /\ Subject(r)' = Subject(r)
      /\ call[r].op = "update" /\ call[r].role # "owner"
  BY TypeUpdateMember, FinishIsStep DEF UpdateMember, MemInv, ReqInv, Phase, OfMember, Subject
<1>2. PICK s \in Users : s = Subject(r)
  BY <1>1, SubjectType
<1>3. UserInv(s)
  BY DEF MemInv
<1>4. /\ account' = account /\ restaurants' = restaurants /\ list' = list /\ lister' = lister
      /\ call' = call /\ \A v \in Users \ {s} : member'[v] = member[v]
      /\ member[s] = NoRow => member'[s] = NoRow
      /\ member[s] # NoRow =>
           /\ member'[s] \in Row /\ member'[s].at = member[s].at
           /\ member'[s].role = "owner" => member[s].role = "owner"
  BY <1>1, <1>2, UpdatedRow DEF UpdateMember
<1>5. Moves(r)
  BY <1>1, <1>2, <1>4 DEF Moves, Changes
<1>6. Rows(s)'
  <2>1. \A b : Granted(s, b) => Granted(s, b)'
    BY <1>1, GrantedStays
  <2>. QED  BY <1>3, <1>4, <2>1, NoRowIsNoRow DEF UserInv, Rows, HasAccount, IsMember
<1>7. Made(s)' /\ Mixed(s)'
  BY <1>1, <1>4, NoRowIsNoRow, MadeStays, MixedStays DEF IsMember
<1>8. UserInv(Subject(r))'
  BY <1>1, <1>2, <1>6, <1>7 DEF UserInv
<1>. QED  BY <1>1, <1>5, <1>8, TableEnd DEF UpdateMember

LEMMA CommitDeletionKeeps == ASSUME MemInv, NEW r \in Requests, CommitDeletion(r) PROVE MemInv'
<1>1. /\ TypeOK' /\ TypeOK /\ Step(r) /\ outcome'[r] = "ok" /\ pc'[r] = "over"
      /\ Subject(r)' = Subject(r) /\ call[r].op = "delete" /\ call' = call
  BY TypeCommitDeletion, FinishIsStep DEF CommitDeletion, MemInv, ReqInv, Phase, Subject
<1>2. PICK s \in Users : s = Subject(r)
  BY <1>1, SubjectType
<1>3. /\ account' = account /\ restaurants' = restaurants
      /\ member'[s] = NoRow /\ list'[s] = {} /\ lister'[s] = r
      /\ \A v \in Users \ {s} :
           member'[v] = member[v] /\ list'[v] = list[v] /\ lister'[v] = lister[v]
  BY <1>1, <1>2 DEF CommitDeletion, TypeOK
<1>4. Moves(r)
  BY <1>1, <1>2, <1>3 DEF Moves, Changes
<1>5. Rows(s)'
  BY <1>3 DEF MemInv, UserInv, Rows, HasAccount, IsMember
<1>6. Did(r, s, "delete")'
  BY <1>1, <1>2 DEF Did
<1>7. Made(s)'
  BY <1>1, <1>3, <1>6, MadeStays
<1>8. Mixed(s)'
  BY <1>1, <1>2, <1>3 DEF Mixed
<1>9. UserInv(Subject(r))'
  BY <1>1, <1>2, <1>5, <1>7, <1>8 DEF UserInv
<1>. QED  BY <1>1, <1>4, <1>9, TableEnd DEF CommitDeletion

LEMMA WipeListKeeps == ASSUME MemInv, NEW r \in Requests, WipeList(r) PROVE MemInv'
<1>1. /\ TypeOK' /\ TypeOK /\ call' = call /\ Subject(r)' = Subject(r)
      /\ pc[r] = "read" /\ call[r].op = "setBranches" /\ claims' = claims /\ before' = before
      /\ account' = account /\ restaurants' = restaurants /\ member' = member
  BY TypeWipeList DEF WipeList, MemInv, Subject
<1>2. PICK s \in Users : s = Subject(r)
  BY <1>1, SubjectType
<1>3. /\ list'[s] = {} /\ lister'[s] = r
      /\ \A v \in Users \ {s} : list'[v] = list[v] /\ lister'[v] = lister[v]
  BY <1>1, <1>2 DEF WipeList, TypeOK
<1>4. Moves(r)
  BY <1>1, <1>2, <1>3 DEF Moves, IsMember
<1>5. Rows(s)'
  BY <1>1, <1>3 DEF MemInv, UserInv, Rows, HasAccount, IsMember
<1>6. CASE call[r].branches = {} /\ Finish(r, "ok")
  <2>1. Step(r) /\ outcome'[r] = "ok" /\ pc'[r] = "over"
    BY <1>1, <1>6, FinishIsStep
  <2>2. Made(s)'
    BY <1>1, <2>1, MadeStays DEF IsMember
  <2>3. Mixed(s)'
    BY <1>1, <1>2, <1>3, <1>6, <2>1 DEF Mixed
  <2>4. UserInv(Subject(r))'
    BY <1>1, <1>2, <1>5, <2>2, <2>3 DEF UserInv
  <2>. QED  BY <1>1, <1>4, <1>6, <2>4, TableEnd
<1>7. CASE Goto(r, "wiped") /\ UNCHANGED <<draft, gone>>
  <2>1. /\ Step(r) /\ pc'[r] = "wiped" /\ outcome'[r] = "none" /\ claims'[r] = NoClaims
        /\ before'[r] \subseteq {q \in Requests : pc'[q] = "over"}
    BY <1>1, <1>7, GotoIsStep
  <2>2. Made(s)'
    BY <1>1, <2>1, MadeStays DEF IsMember
  <2>3. Mixed(s)'
    BY <1>1, <1>2, <1>3, <2>1 DEF Mixed
  <2>4. UserInv(Subject(r))'
    BY <1>1, <1>2, <1>5, <2>2, <2>3 DEF UserInv
  <2>5. Phase(r)' /\ Drafted(r)' /\ Read(r)' /\ Deserved(Subject(r), claims[r])'
    BY <1>1, <1>7, <2>1 DEF MemInv, ReqInv, Phase, Drafted, Read, Deserved,
       InSignUp, OfMember, InLogin, InRestaurant, HasAccount
  <2>6. Found(r)'
    BY <1>1, <1>2, <1>3, <2>1 DEF MemInv, ReqInv, Found, OfMember, IsMember
  <2>7. NameInv'
    BY <1>1, <2>1, NamesStay DEF Named
  <2>. QED  BY <1>1, <1>4, <2>1, <2>4, <2>5, <2>6, <2>7, Together DEF ReqInv
<1>. QED  BY <1>6, <1>7 DEF WipeList

LEMMA FillListKeeps == ASSUME MemInv, NEW r \in Requests, FillList(r) PROVE MemInv'
<1>1. /\ TypeOK' /\ TypeOK /\ call' = call /\ Subject(r)' = Subject(r)
      /\ pc[r] = "wiped" /\ call[r].op = "setBranches" /\ claims' = claims /\ before' = before
      /\ account' = account /\ restaurants' = restaurants /\ member' = member
  BY TypeFillList DEF FillList, MemInv, ReqInv, Phase, Subject
<1>2. PICK s \in Users : s = Subject(r)
  BY <1>1, SubjectType
<1>3. CASE UNCHANGED <<list, lister>> /\ \E what : what # "ok" /\ Finish(r, what)
  BY <1>1, <1>3, LocalEnd DEF tables
<1>4. CASE /\ IsMember(s) /\ Finish(r, "ok")
           /\ list' = [list EXCEPT ![s] = list[s] \cup call[r].branches]
           /\ lister' = [lister EXCEPT ![s] = r]
  <2>1. Step(r) /\ outcome'[r] = "ok" /\ pc'[r] = "over"
    BY <1>1, <1>4, FinishIsStep
  <2>2. /\ list'[s] = list[s] \cup call[r].branches /\ lister'[s] = r
        /\ \A v \in Users \ {s} : list'[v] = list[v] /\ lister'[v] = lister[v]
    BY <1>1, <1>4 DEF TypeOK
  <2>3. Moves(r)
    BY <1>1, <1>2, <1>4, <2>2 DEF Moves, IsMember
  <2>4. Rows(s)'
    <3>1. \A b \in call[r].branches : BranchOf[b] = member[s].at
      BY <1>1, <1>2, <1>4 DEF MemInv, ReqInv, Phase, Found, OfMember, InRestaurant
    <3>2. Did(r, s, "setBranches")'
      BY <1>1, <1>2, <2>1 DEF Did
    <3>3. \A b \in call[r].branches : Granted(s, b)'
      BY <1>1, <3>2 DEF Granted
    <3>4. \A b : Granted(s, b) => Granted(s, b)'
      BY <2>1, GrantedStays
    <3>. QED  BY <1>1, <1>4, <2>2, <3>1, <3>3, <3>4
         DEF MemInv, UserInv, Rows, HasAccount, IsMember
  <2>5. Made(s)'
    BY <1>1, <2>1, MadeStays DEF IsMember
  <2>6. Mixed(s)'
    <3>1. list[s] = {} \/ \E q \in Requests : Overlapped(q, r) /\ call[q].op = "setBranches"
      BY <1>1, <1>2 DEF MemInv, ReqInv, Found
    <3>2. \A q \in Requests : Overlapped(q, r) => Overlapped(q, r)'
      BY <1>1, <2>1, OverlapStays
    <3>. QED  BY <1>1, <1>2, <2>1, <2>2, <3>1, <3>2 DEF Mixed
  <2>7. UserInv(Subject(r))'
    BY <1>1, <1>2, <2>4, <2>5, <2>6 DEF UserInv
  <2>. QED  BY <1>1, <1>4, <2>3, <2>7, TableEnd
<1>. QED  BY <1>1, <1>2, <1>3, <1>4 DEF FillList, TypeOK

LEMMA AcceptKeeps == ASSUME MemInv, NEW r \in Requests, Accept(r) PROVE MemInv'
<1>1. /\ TypeOK' /\ TypeOK /\ call' = call /\ Subject(r)' = Subject(r)
      /\ pc[r] = "idle" /\ call[r].op = "accept" /\ claims' = claims /\ Arrive(r)
      /\ account' = account /\ restaurants' = restaurants /\ list' = list /\ lister' = lister
  BY TypeAccept DEF Accept, MemInv, Subject
<1>2. PICK s \in Users : s = Subject(r)
  BY <1>1, SubjectType
<1>3. CASE Finish(r, "refused") /\ UNCHANGED member
  BY <1>1, <1>3, LocalEnd DEF tables
<1>4. CASE /\ member[s].status = "inactive" /\ Finish(r, "ok")
           /\ member' = [member EXCEPT ![s].status = "active"]
  <2>1. Step(r) /\ outcome'[r] = "ok" /\ pc'[r] = "over"
    BY <1>1, <1>4, FinishIsStep
  <2>2. member[s] # NoRow /\ member[s] \in Row
    BY <1>1, <1>4 DEF TypeOK, NoRow
  <2>3. member' = [member EXCEPT ![s] = [member[s] EXCEPT !.status = "active"]]
    BY <1>1, <1>4 DEF TypeOK
  <2>4. /\ \A v \in Users \ {s} : member'[v] = member[v]
        /\ member'[s] # NoRow /\ member'[s].at = member[s].at
        /\ member'[s].role = member[s].role
    <3>1. [member[s] EXCEPT !.status = "active"].status # NoRow.status
      BY <2>2 DEF Row, NoRow
    <3>2. member'[s] = [member[s] EXCEPT !.status = "active"]
      BY <1>1, <2>3 DEF TypeOK
    <3>. QED  BY <1>1, <2>2, <2>3, <3>1, <3>2 DEF TypeOK, Row
  <2>5. Moves(r)
    BY <1>1, <1>2, <2>2, <2>4 DEF Moves, Changes
  <2>6. Rows(s)'
    <3>1. \A b : Granted(s, b) => Granted(s, b)'
      BY <2>1, GrantedStays
    <3>. QED  BY <1>1, <2>2, <2>4, <3>1 DEF MemInv, UserInv, Rows, HasAccount, IsMember
  <2>7. Made(s)' /\ Mixed(s)'
    BY <1>1, <2>1, <2>4, MadeStays, MixedStays
  <2>8. UserInv(Subject(r))'
    BY <1>1, <1>2, <2>6, <2>7 DEF UserInv
  <2>. QED  BY <1>1, <1>4, <2>5, <2>8, TableEnd
<1>. QED  BY <1>2, <1>3, <1>4 DEF Accept

-----------------------------------------------------------------------------
(* The invariant.                                                          *)

LEMMA UnchangedKeeps == ASSUME MemInv, UNCHANGED vars PROVE MemInv'
<1>1. /\ \A r \in Requests : Subject(r)' = Subject(r) /\ Named(r)' = Named(r)
      /\ \A q, r \in Requests : Overlapped(q, r)' = Overlapped(q, r)
  BY DEF vars, Subject, Named, SignUp, Overlapped
<1>2. \A u, b : Granted(u, b) => Granted(u, b)'
  BY DEF vars, Granted, Did, Subject
<1>3. TypeOK'
  BY DEF MemInv, TypeOK, vars, tables
<1>4. \A r \in Requests : ReqInv(r)'
  <2> TAKE r \in Requests
  <2>1. Phase(r)' /\ Drafted(r)' /\ Found(r)' /\ Read(r)'
    BY <1>1 DEF MemInv, ReqInv, Phase, Drafted, Found, Read, InSignUp, OfMember, InLogin, SignUp,
       Allowed, InRestaurant, HasAccount, IsMember, Houses, OwnerRow, InvitedRow, Holds, vars, tables
  <2>2. Deserved(Subject(r), claims[r])'
    BY <1>1, <1>2 DEF MemInv, ReqInv, Deserved, vars, tables
  <2>. QED  BY <2>1, <2>2 DEF ReqInv
<1>5. \A u \in Users : UserInv(u)'
  <2> TAKE u \in Users
  <2>1. Rows(u)'
    BY <1>2 DEF MemInv, UserInv, Rows, HasAccount, IsMember, vars, tables
  <2>2. Made(u)' /\ Mixed(u)'
    BY <1>1 DEF MemInv, UserInv, Made, Mixed, SignUp, Houses, IsMember, Did, Subject, vars, tables
  <2>. QED  BY <2>1, <2>2 DEF UserInv
<1>6. NameInv'
  BY <1>1 DEF MemInv, NameInv, NamesAreUnique, Apart, HasAccount, vars, tables
<1>. QED  BY <1>3, <1>4, <1>5, <1>6 DEF MemInv

LEMMA StepKeeps == ASSUME MemInv, [Next]_vars PROVE MemInv'
<1>1. CASE UNCHANGED vars
  BY <1>1, UnchangedKeeps
<1>2. ASSUME NEW r \in Requests,
             OpenSignUp(r) \/ ReadMember(r) \/ Accept(r) \/ FindUser(r) \/ Refresh(r) \/ Fail(r)
      PROVE  MemInv'
  BY <1>2, OpenSignUpKeeps, ReadMemberKeeps, AcceptKeeps, FindUserKeeps, RefreshKeeps, FailKeeps
<1>3. ASSUME NEW r \in Requests, Progress(r) PROVE MemInv'
  BY <1>3, CheckNamesKeeps, GiveUpKeeps, InsertUserKeeps, InsertRestaurantKeeps, InsertMemberKeeps, InsertListKeeps,
     CommitSignUpKeeps, UpdateMemberKeeps, DeleteListKeeps, DeleteMemberKeeps,
     CommitDeletionKeeps, WipeListKeeps, FillListKeeps, ReadRoleKeeps, ReadListKeeps DEF Progress
<1>. QED  BY <1>1, <1>2, <1>3 DEF Next

LEMMA InitKeeps == ASSUME Init PROVE MemInv
<1>1. /\ \A u \in Users :
           /\ u \in InitOwners => /\ account[u] = Seed /\ list[u] = {}
                                  /\ member[u] = [at |-> u, role |-> "owner", status |-> "active"]
           /\ u \in DOMAIN InitMember =>
                /\ account[u] = Seed /\ member[u] = InitMember[u] /\ list[u] = InitList[u]
                /\ member[u] \in Row /\ member[u].at \in restaurants /\ member[u].role # "owner"
                /\ list[u] \subseteq Branches /\ \A b \in list[u] : BranchOf[b] = member[u].at
           /\ u \notin InitOwners \cup DOMAIN InitMember =>
                account[u] = NoRequest /\ member[u] = NoRow /\ list[u] = {}
           /\ lister[u] = Seed
      /\ restaurants = InitOwners /\ InitOwners \subseteq Users
  BY InitAssumption DEF Init
<1>2. \A u \in InitOwners : [at |-> u, role |-> "owner", status |-> "active"] \in Row
  BY InitAssumption DEF Row, Roles, Statuses
<1>3. TypeOK
  <2>1. \A u \in Users :
          /\ account[u] \in Requests \cup {Seed, NoRequest} /\ member[u] \in Row \cup {NoRow}
          /\ list[u] \in SUBSET Branches /\ lister[u] \in Requests \cup {Seed}
    BY <1>1, <1>2
  <2>2. /\ account \in [Users -> Requests \cup {Seed, NoRequest}]
        /\ member \in [Users -> Row \cup {NoRow}]
        /\ list \in [Users -> SUBSET Branches] /\ lister \in [Users -> Requests \cup {Seed}]
    BY <2>1 DEF Init
  <2>3. /\ call \in [Requests -> Calls] /\ pc \in [Requests -> Places]
        /\ outcome \in [Requests -> Outcomes] /\ gone \in [Requests -> SUBSET Branches]
        /\ claims \in [Requests -> Claims] /\ before \in [Requests -> SUBSET Requests]
        /\ draft \in [Requests -> [restaurant : BOOLEAN, row : Row \cup {NoRow},
                                   list : SUBSET Branches]]
    BY DEF Init, Places, Outcomes, Claims, Blank
  <2>. QED  BY <1>1, <2>2, <2>3 DEF TypeOK
<1>4. \A r \in Requests : ReqInv(r)
  <2> TAKE r \in Requests
  <2>1. /\ pc[r] = "idle" /\ outcome[r] = "none" /\ draft[r] = Blank /\ claims[r] = NoClaims
        /\ before[r] = {}
    BY DEF Init
  <2>. QED  BY <2>1 DEF ReqInv, Phase, Drafted, Found, Read, Deserved, InSignUp, OfMember, InLogin
<1>5. \A u \in Users : UserInv(u)
  <2> TAKE u \in Users
  <2>1. Rows(u)
    <3>1. \A b \in list[u] : Granted(u, b)
      BY <1>1, InitAssumption DEF Granted
    <3>2. CASE u \in InitOwners
      <4>1. /\ account[u] = Seed /\ list[u] = {}
            /\ member[u] = [at |-> u, role |-> "owner", status |-> "active"]
        BY <1>1, <3>2
      <4>2. HasAccount(u)
        BY <4>1, RequestsAssumption DEF HasAccount
      <4>3. u \in restaurants
        BY <1>1, <3>2
      <4>. QED  BY <4>1, <4>2, <4>3 DEF Rows, IsMember
    <3>3. CASE u \in DOMAIN InitMember
      <4>1. IsMember(u)
        BY <1>1, <3>3, NoRowIsNoRow DEF IsMember
      <4>. QED  BY <1>1, <3>1, <3>3, <4>1, RequestsAssumption, InitAssumption DEF Rows, HasAccount
    <3>4. CASE u \notin InitOwners \cup DOMAIN InitMember
      BY <1>1, <3>1, <3>4 DEF Rows, IsMember
    <3>. QED  BY <3>2, <3>3, <3>4
  <2>2. Made(u) /\ Mixed(u)
    BY <1>1, RequestsAssumption DEF Made, Mixed
  <2>. QED  BY <2>1, <2>2 DEF UserInv
<1>6. NameInv
  <2>1. NamesAreUnique
    BY <1>1, InitAssumption DEF NamesAreUnique, HasAccount
  <2>. QED  BY <2>1 DEF NameInv, Apart, Named, Init
<1>. QED  BY <1>3, <1>4, <1>5, <1>6 DEF MemInv

LEMMA MemInvariant == Spec => []MemInv
<1>1. Init => MemInv
  BY InitKeeps
<1>2. MemInv /\ [Next]_vars => MemInv'
  BY StepKeeps
<1>. QED  BY <1>1, <1>2, PTL DEF Spec

-----------------------------------------------------------------------------
(* What follows.                                                           *)

\* Every variable of a membership run keeps its shape.
THEOREM MembershipTypeCorrect == Spec => []TypeOK
<1>1. MemInv => TypeOK
  BY DEF MemInv
<1>. QED  BY <1>1, MemInvariant, PTL

\* However many sign-ups look for a name before any of them inserts it, no two
\* accounts share an e-mail or a phone.
THEOREM NamesStayUnique == Spec => []NamesAreUnique
<1>1. MemInv => NamesAreUnique
  BY DEF MemInv, NameInv
<1>. QED  BY <1>1, MemInvariant, PTL

\* Wherever the sign-ups are interrupted, each leaves all of its rows or none,
\* and a restaurant's founder is its member until a deletion.
THEOREM SignUpsStayWhole == Spec => []SignUpsAreWhole
<1>1. MemInv => SignUpsAreWhole
  BY DEF MemInv, TypeOK, UserInv, Rows, Made, SignUpsAreWhole
<1>. QED  BY <1>1, MemInvariant, PTL

\* Two PUTs' branches get mixed only if the PUTs overlapped, although each is
\* a DELETE and an INSERT without a transaction.
THEOREM ListsMixInOverlapsOnly == Spec => []MixedListNeedsOverlap
<1>1. MemInv => MixedListNeedsOverlap
  BY DEF MemInv, UserInv, Mixed, MixedListNeedsOverlap
<1>. QED  BY <1>1, MemInvariant, PTL

\* Tokens open only branches that somebody gave the member, of the restaurant
\* they name, however the queries behind them fell between changes.
THEOREM AccessIsGranted == Spec => []AccessWasGranted
<1>1. MemInv => AccessWasGranted
  BY DEF MemInv, ReqInv, Deserved, Granted, AccessWasGranted
<1>. QED  BY <1>1, MemInvariant, PTL

\* A login answers only with ReadList once it has a role.
LEMMA AnswersOfLogins ==
  ASSUME MemInv, Next, NEW r \in Requests, pc[r] = "roled", outcome'[r] = "ok"
  PROVE  ReadList(r)
<1>1. outcome[r] = "none" /\ outcome \in [Requests -> Outcomes]
  BY DEF MemInv, TypeOK, ReqInv, Phase
<1>2. PICK q \in Requests :
        \/ OpenSignUp(q) \/ ReadMember(q) \/ Accept(q) \/ FindUser(q) \/ Refresh(q)
        \/ Progress(q) \/ Fail(q)
  BY DEF Next
<1>3. \/ \E where : Goto(q, where)
      \/ \E what : Finish(q, what)
  BY <1>2 DEF OpenSignUp, CheckNames, GiveUp, ReadMember, Accept, FindUser, Refresh, Progress, Fail, InsertUser,
     InsertRestaurant, InsertMember, InsertList, CommitSignUp, UpdateMember, DeleteList,
     DeleteMember, CommitDeletion, WipeList, FillList, ReadRole, ReadList
<1>4. q = r
  BY <1>1, <1>3 DEF Goto, Finish
<1>5. ~Fail(r)
  BY <1>1 DEF Fail, Finish
<1>. QED
  BY <1>1, <1>2, <1>4, <1>5 DEF OpenSignUp, CheckNames, GiveUp, ReadMember, Accept, FindUser, Refresh, Progress,
     InsertUser, InsertRestaurant, InsertMember, InsertList, CommitSignUp, Complete, SignUp,
     UpdateMember, DeleteList, DeleteMember, CommitDeletion, WipeList, FillList, ReadRole

\* A token says what the tables say, although the role and the branches are
\* two queries, unless a change of the member overlapped the login.
THEOREM ClaimsWereCurrent == Spec => ClaimsAreCurrent
<1> DEFINE Current ==
      \A r \in Requests :
        LET u == Subject(r) IN
          pc[r] = "roled" /\ outcome'[r] = "ok" =>
            \/ /\ member[u].status = "active"
               /\ claims'[r] = [at |-> member[u].at, role |-> member[u].role,
                                branches |-> list[u]]
            \/ \E q \in Requests :
                 Overlapped(q, r) /\ call[q].op \in Changes
<1>1. MemInv /\ [Next]_vars => [Current]_vars
  <2> SUFFICES ASSUME MemInv, Next, NEW r \in Requests, pc[r] = "roled", outcome'[r] = "ok",
                      ~\E q \in Requests : Overlapped(q, r) /\ call[q].op \in Changes
               PROVE  /\ member[Subject(r)].status = "active"
                      /\ claims'[r] = [at |-> member[Subject(r)].at,
                                       role |-> member[Subject(r)].role,
                                       branches |-> list[Subject(r)]]
    OBVIOUS
  <2>1. ReadList(r)
    BY AnswersOfLogins
  <2>2. member[Subject(r)] = draft[r].row /\ draft[r].row.status = "active"
    BY DEF MemInv, ReqInv, Read
  <2>. QED  BY <2>1, <2>2 DEF ReadList, MemInv, TypeOK
<1>. QED  BY <1>1, MemInvariant, PTL DEF Spec, ClaimsAreCurrent

\* A deleted member stays deleted: no update, PUT or acceptance that had found
\* him before brings a row or a branch of his back.
THEOREM DeletionStays == Spec => DeletionIsFinal
<1> DEFINE Final ==
      \A u \in Users :
        HasAccount(u) /\ ~IsMember(u) => member'[u] = NoRow /\ list'[u] = {}
<1>1. MemInv /\ MemInv' /\ [Next]_vars => [Final]_vars
  <2> SUFFICES ASSUME MemInv, MemInv', Next, NEW u \in Users, HasAccount(u), ~IsMember(u)
               PROVE  member'[u] = NoRow /\ list'[u] = {}
    OBVIOUS
  <2>1. PICK r \in Requests :
          \/ OpenSignUp(r) \/ ReadMember(r) \/ Accept(r) \/ FindUser(r) \/ Refresh(r)
          \/ Progress(r) \/ Fail(r)
    BY DEF Next
  <2>2. member[u] = NoRow /\ member \in [Users -> Row \cup {NoRow}]
    BY DEF MemInv, TypeOK, IsMember
  <2>3. CASE CommitSignUp(r)
    <3>1. u # Subject(r)
      BY <2>3, WholeDraft DEF MemInv, NameInv, Apart, Clash
    <3>. QED  BY <2>2, <2>3, <3>1 DEF CommitSignUp, MemInv, UserInv, Rows, IsMember
  <2>4. CASE UpdateMember(r)
    BY <2>2, <2>4, UpdatedRow DEF MemInv, UserInv, Rows, IsMember
  <2>5. CASE CommitDeletion(r)
    BY <2>2, <2>5 DEF CommitDeletion, MemInv, UserInv, Rows, IsMember
  <2>6. CASE Accept(r)
    BY <2>2, <2>6 DEF Accept, NoRow, MemInv, UserInv, Rows, IsMember
  <2>7. CASE member' = member
    BY <2>2, <2>7 DEF MemInv, UserInv, Rows, IsMember
  <2>. QED
    BY <2>1, <2>3, <2>4, <2>5, <2>6, <2>7 DEF OpenSignUp, CheckNames, GiveUp, ReadMember, FindUser, Refresh, Progress,
       Fail, InsertUser, InsertRestaurant, InsertMember, InsertList, DeleteList, DeleteMember,
       WipeList, FillList, ReadRole, ReadList, tables
<1>. QED  BY <1>1, MemInvariant, PTL DEF Spec, DeletionIsFinal
=============================================================================
