----------------------------- MODULE Membership -----------------------------
(***************************************************************************)
(* Accounts, restaurants and the staff of a restaurant: the sign-ups that  *)
(* create them (register, the admin's createWithOwner, the invitation),    *)
(* MemberService's changes of a member, and the tokens that copy a         *)
(* member's role and branches at login and are refreshed from then on.     *)
(*                                                                         *)
(* Sign-ups and deletions are READ COMMITTED transactions; a change of the *)
(* branch list is a DELETE and an INSERT of their own.  A user is his      *)
(* e-mail and phone, both unique; each member is of one user and comes     *)
(* into being with the account, so that users name the member rows too,    *)
(* and a restaurant is named after its owner.  Passwords and OTPs are in   *)
(* Credentials; an acceptance is here the one statement that activates.    *)
(* A request that a guard turns away changes nothing and never begins.     *)
(*                                                                         *)
(* Of the connections of the pool only those are counted that open         *)
(* sign-ups hold: these alone wait for a second one while they have one.   *)
(***************************************************************************)
EXTENDS Naturals, FiniteSets

CONSTANTS
  Requests,      \* one per HTTP request
  Seed,          \* who made what was there from the beginning
  NoRequest,     \* who made what does not exist
  Emails, Phones,
  Users,         \* the people, with e-mail and phone
  Branches,      \* branch ids
  BranchOf,      \* the restaurant of each
  Same,          \* a PATCH that leaves a column out
  Calls,         \* what the requests may ask for
  PoolSize,      \* database.poolMax
  InitOwners,    \* the restaurants there to begin with, with their owners,
  InitMember,    \* their other members
  InitList       \* and the branches of each

Roles == {"owner", "branch_manager", "staff"}
Statuses == {"active", "inactive", "suspended"}
Row == [at : Users, role : Roles, status : Statuses]
NoRow == [at |-> Seed, role |-> "none", status |-> "none"]

Call ==
  [op : {"register"}, user : Users, restaurant : BOOLEAN]
    \cup [op : {"provision", "accept", "login", "refresh"}, user : Users]
    \cup [op : {"invite"}, user : Users, at : Users, role : Roles,
          branches : SUBSET Branches]
    \cup [op : {"update"}, user : Users, at : Users, role : Roles \cup {Same},
          status : Statuses \cup {Same}]
    \cup [op : {"delete"}, user : Users, at : Users]
    \cup [op : {"setBranches"}, user : Users, at : Users, branches : SUBSET Branches]

\* findUserExistsByEmailOrPhone, and what the unique indexes forbid.
Clash(u, v) == u.email = v.email \/ u.phone = v.phone

ASSUME RequestsAssumption == Requests \cap {Seed, NoRequest} = {} /\ Seed # NoRequest
ASSUME UsersAssumption == Users \subseteq [email : Emails, phone : Phones]
ASSUME SeedAssumption == Seed \notin Users
ASSUME BranchesAssumption == BranchOf \in [Branches -> Users]
ASSUME SameAssumption == Same \notin Roles \cup Statuses
ASSUME CallsAssumption == Calls \subseteq Call
ASSUME PoolSizeAssumption == PoolSize \in Nat \ {0}
ASSUME InitAssumption ==
  /\ InitOwners \subseteq Users
  /\ DOMAIN InitMember \subseteq Users \ InitOwners
  /\ \A u \in DOMAIN InitMember :
       InitMember[u] \in Row /\ InitMember[u].at \in InitOwners /\ InitMember[u].role # "owner"
  /\ DOMAIN InitList = DOMAIN InitMember
  /\ \A u \in DOMAIN InitList :
       /\ InitList[u] \subseteq Branches
       /\ \A b \in InitList[u] : BranchOf[b] = InitMember[u].at
  /\ \A u, v \in InitOwners \cup DOMAIN InitMember : Clash(u, v) => u = v

VARIABLES
  account,      \* who made each account
  restaurants,  \* the owners that have one
  member,       \* restaurant_members
  list,         \* member_branches
  lister,       \* who last wrote to a member's list
  call, pc, outcome,
  draft,        \* what an open sign-up has inserted, or login has read
  gone,         \* the list rows an open deletion has deleted
  claims,       \* the token a request was answered with
  before        \* the requests about its user that were over when it began

tables == <<account, restaurants, member, list, lister>>
vars == <<tables, call, pc, outcome, draft, gone, claims, before>>

NoClaims == [at |-> Seed, role |-> "none", branches |-> {}]
Claims == {NoClaims} \cup [at : Users, role : Roles, branches : SUBSET Branches]

\* Nothing inserted, nothing read.
Blank == [restaurant |-> FALSE, row |-> NoRow, list |-> {}]

HasAccount(u) == account[u] # NoRequest
IsMember(u) == member[u] # NoRow
Subject(r) == call[r].user
Before(r) == {q \in Requests : pc[q] = "over" /\ Subject(q) = Subject(r)}

Init ==
  /\ account = [u \in Users |->
       IF u \in InitOwners \cup DOMAIN InitMember THEN Seed ELSE NoRequest]
  /\ restaurants = InitOwners
  /\ member = [u \in Users |->
       IF u \in InitOwners THEN [at |-> u, role |-> "owner", status |-> "active"]
       ELSE IF u \in DOMAIN InitMember THEN InitMember[u] ELSE NoRow]
  /\ list = [u \in Users |-> IF u \in DOMAIN InitList THEN InitList[u] ELSE {}]
  /\ lister = [u \in Users |-> Seed]
  /\ call \in [Requests -> Calls]
  /\ pc = [r \in Requests |-> "idle"]
  /\ outcome = [r \in Requests |-> "none"]
  /\ draft = [r \in Requests |-> Blank]
  /\ gone = [r \in Requests |-> {}]
  /\ claims = [r \in Requests |-> NoClaims]
  /\ before = [r \in Requests |-> {}]

-----------------------------------------------------------------------------
(* Beginning and ending.                                                   *)

Arrive(r) == before' = [before EXCEPT ![r] = Before(r)]

Goto(r, where) ==
  /\ pc' = [pc EXCEPT ![r] = where]
  /\ UNCHANGED outcome

\* The end of a call, with the rollback of what it had not committed.
Finish(r, what) ==
  /\ pc' = [pc EXCEPT ![r] = "over"]
  /\ outcome' = [outcome EXCEPT ![r] = what]
  /\ draft' = [draft EXCEPT ![r] = Blank]
  /\ gone' = [gone EXCEPT ![r] = {}]

\* A statement fails or the process dies.
Fail(r) ==
  /\ pc[r] \notin {"idle", "over"}
  /\ Finish(r, "error")
  /\ UNCHANGED <<tables, call, claims, before>>

-----------------------------------------------------------------------------
(* Signing up: AuthService.register, RestaurantService.createWithOwner and *)
(* MemberService.createMember.                                             *)

SignUp(r) == call[r].op \in {"register", "provision", "invite"}

\* Mutant: it is verified only that they exist.
InRestaurantOrOther(r) == call[r].branches \subseteq Branches

\* verifyBranchesBelongToRestaurant.
InRestaurant(r) == \A b \in call[r].branches : BranchOf[b] = call[r].at

\* What createMember checks before its transaction, its caller's restaurant
\* being one that there is.
Allowed(r) ==
  call[r].op = "invite" =>
    call[r].role # "owner" /\ call[r].at \in restaurants /\ InRestaurant(r)

\* The transactions of the sign-ups, and the pool they have a connection of.
Open(r) == SignUp(r) /\ pc[r] \in {"open", "checked", "named", "housed", "joined", "listed"}
PoolIsEmpty == Cardinality({q \in Requests : Open(q)}) >= PoolSize

\* knex.transaction().
OpenSignUp(r) ==
  /\ pc[r] = "idle" /\ SignUp(r) /\ Allowed(r) /\ ~PoolIsEmpty
  /\ Arrive(r)
  /\ Goto(r, "open")
  /\ UNCHANGED <<tables, call, draft, gone, claims>>

\* findUserExistsByEmailOrPhone leaves the transaction out: it takes another
\* connection, and sees what has been committed.
CheckNames(r) ==
  /\ pc[r] = "open" /\ ~PoolIsEmpty
  /\ IF \E u \in Users : HasAccount(u) /\ Clash(u, Subject(r))
       THEN Finish(r, "conflict")
       ELSE Goto(r, "checked") /\ UNCHANGED <<draft, gone>>
  /\ UNCHANGED <<tables, call, claims, before>>

\* Mutant: no time-out for a connection.
NeverGiveUp(r) ==
  /\ FALSE
  /\ UNCHANGED vars

\* knex waits for a connection for a limited time only.
GiveUp(r) ==
  /\ pc[r] = "open" /\ PoolIsEmpty
  /\ Finish(r, "error")
  /\ UNCHANGED <<tables, call, claims, before>>

\* The unique indexes make an INSERT wait for an uncommitted one they forbid.
Named(r) == SignUp(r) /\ pc[r] \in {"named", "housed", "joined", "listed"}
NamesFree(r) == \A q \in Requests \ {r} : Named(q) => ~Clash(Subject(q), Subject(r))

\* Mutant: only the e-mail has a unique index.
InsertUserByEmail(r) ==
  /\ pc[r] = "checked" /\ NamesFree(r)
  /\ IF \E u \in Users : HasAccount(u) /\ u.email = Subject(r).email
       THEN Finish(r, "conflict")
       ELSE Goto(r, "named") /\ UNCHANGED <<draft, gone>>
  /\ UNCHANGED <<tables, call, claims, before>>

InsertUser(r) ==
  /\ pc[r] = "checked" /\ NamesFree(r)
  /\ IF \E u \in Users : HasAccount(u) /\ Clash(u, Subject(r))
       THEN Finish(r, "conflict")
       ELSE Goto(r, "named") /\ UNCHANGED <<draft, gone>>
  /\ UNCHANGED <<tables, call, claims, before>>

Houses(r) ==
  call[r].op = "provision" \/ (call[r].op = "register" /\ call[r].restaurant)

\* Mutant: createRestaurant called without the transaction.
InsertRestaurantOutside(r) ==
  /\ pc[r] = "named" /\ Houses(r)
  /\ restaurants' = restaurants \cup {Subject(r)}
  /\ Goto(r, "housed")
  /\ UNCHANGED <<account, member, list, lister, call, draft, gone, claims, before>>

InsertRestaurant(r) ==
  /\ pc[r] = "named" /\ Houses(r)
  /\ draft' = [draft EXCEPT ![r].restaurant = TRUE]
  /\ Goto(r, "housed")
  /\ UNCHANGED <<tables, call, gone, claims, before>>

\* createOwnerMember, or the invited member, who is yet to accept.
\* createWithOwner inserts none.
InsertMember(r) ==
  /\ \/ pc[r] = "housed" /\ call[r].op = "register"
     \/ pc[r] = "named" /\ call[r].op = "invite"
  /\ draft' = [draft EXCEPT ![r].row =
       IF call[r].op = "register"
         THEN [at |-> Subject(r), role |-> "owner", status |-> "active"]
         ELSE [at |-> call[r].at, role |-> call[r].role, status |-> "inactive"]]
  /\ Goto(r, "joined")
  /\ UNCHANGED <<tables, call, gone, claims, before>>

\* setMemberBranches inside of the transaction: there is nothing to wipe.
InsertList(r) ==
  /\ pc[r] = "joined" /\ call[r].op = "invite" /\ call[r].branches # {}
  /\ draft' = [draft EXCEPT ![r].list = call[r].branches]
  /\ Goto(r, "listed")
  /\ UNCHANGED <<tables, call, gone, claims, before>>

\* Where the last INSERT of the sign-up leaves it (the OTP's is left out).
Complete(r) ==
  pc[r] = CASE call[r].op = "invite" -> IF call[r].branches = {} THEN "joined" ELSE "listed"
            [] call[r].op = "provision" -> "housed"
            [] call[r].op = "register" -> IF Houses(r) THEN "joined" ELSE "named"

\* Registering answers with a token, in which the owner has no branch list.
CommitSignUp(r) ==
  /\ SignUp(r) /\ pc[r] # "idle" /\ Complete(r)
  /\ account' = [account EXCEPT ![Subject(r)] = r]
  /\ restaurants' = restaurants \cup (IF draft[r].restaurant THEN {Subject(r)} ELSE {})
  /\ member' = [member EXCEPT ![Subject(r)] = draft[r].row]
  /\ list' = [list EXCEPT ![Subject(r)] = draft[r].list]
  /\ lister' = [lister EXCEPT ![Subject(r)] = r]
  /\ claims' = [claims EXCEPT ![r] =
       IF call[r].op = "register" /\ Houses(r)
         THEN [at |-> Subject(r), role |-> "owner", branches |-> {}]
         ELSE NoClaims]
  /\ Finish(r, "ok")
  /\ UNCHANGED <<call, before>>

-----------------------------------------------------------------------------
(* Changing a member.                                                      *)

\* An open deletion has the member's row, or rows of the list.
Removing(u) == \E q \in Requests : pc[q] = "removed" /\ Subject(q) = u
Locked(r, bs) ==
  \E q \in Requests \ {r} : Subject(q) = Subject(r) /\ gone[q] \cap bs # {}

\* findMemberWithRoleName and the checks that follow it.
ReadMember(r) ==
  /\ pc[r] = "idle" /\ call[r].op \in {"update", "delete", "setBranches"}
  /\ Arrive(r)
  /\ LET row == member[Subject(r)] IN
       IF /\ IsMember(Subject(r)) /\ row.at = call[r].at
          /\ call[r].op = "update" => call[r].role # "owner"
          /\ call[r].op # "update" => row.role # "owner"
          /\ call[r].op = "setBranches" => InRestaurant(r)
         THEN Goto(r, "read") /\ UNCHANGED <<draft, gone>>
         ELSE Finish(r, "refused")
  /\ UNCHANGED <<tables, call, claims>>

\* One UPDATE of the row, if it is still there.
UpdateMember(r) ==
  /\ pc[r] = "read" /\ call[r].op = "update"
  /\ ~Removing(Subject(r))
  /\ member' = [member EXCEPT ![Subject(r)] =
       IF @ = NoRow THEN @
       ELSE [at |-> @.at,
             role |-> IF call[r].role = Same THEN @.role ELSE call[r].role,
             status |-> IF call[r].status = Same THEN @.status ELSE call[r].status]]
  /\ Finish(r, "ok")
  /\ UNCHANGED <<account, restaurants, list, lister, call, claims, before>>

\* deleteMember's transaction: the list's rows, the member's row, COMMIT.
DeleteList(r) ==
  /\ pc[r] = "read" /\ call[r].op = "delete"
  /\ ~Locked(r, list[Subject(r)])
  /\ gone' = [gone EXCEPT ![r] = list[Subject(r)]]
  /\ Goto(r, "cleared")
  /\ UNCHANGED <<tables, call, draft, claims, before>>

\* The foreign key cascades to what was inserted in the meantime; row and
\* cascade are one step.
DeleteMember(r) ==
  /\ pc[r] = "cleared"
  /\ ~Removing(Subject(r)) /\ ~Locked(r, list[Subject(r)])
  /\ gone' = [gone EXCEPT ![r] = list[Subject(r)]]
  /\ Goto(r, "removed")
  /\ UNCHANGED <<tables, call, draft, claims, before>>

CommitDeletion(r) ==
  /\ pc[r] = "removed"
  /\ member' = [member EXCEPT ![Subject(r)] = NoRow]
  /\ list' = [list EXCEPT ![Subject(r)] = {}]
  /\ lister' = [lister EXCEPT ![Subject(r)] = r]
  /\ Finish(r, "ok")
  /\ UNCHANGED <<account, restaurants, call, claims, before>>

\* Mutant: the list is added to, not replaced.
WipeListNot(r) ==
  /\ pc[r] = "read" /\ call[r].op = "setBranches"
  /\ ~Locked(r, list[Subject(r)])
  /\ lister' = [lister EXCEPT ![Subject(r)] = r]
  /\ IF call[r].branches = {}
       THEN Finish(r, "ok")
       ELSE Goto(r, "wiped") /\ UNCHANGED <<draft, gone>>
  /\ UNCHANGED <<account, restaurants, member, list, call, claims, before>>

\* setMemberBranches without a transaction: the DELETE,
WipeList(r) ==
  /\ pc[r] = "read" /\ call[r].op = "setBranches"
  /\ ~Locked(r, list[Subject(r)])
  /\ list' = [list EXCEPT ![Subject(r)] = {}]
  /\ lister' = [lister EXCEPT ![Subject(r)] = r]
  /\ IF call[r].branches = {}
       THEN Finish(r, "ok")
       ELSE Goto(r, "wiped") /\ UNCHANGED <<draft, gone>>
  /\ UNCHANGED <<account, restaurants, member, call, claims, before>>

\* Mutant: a member_branches without its foreign key.
FillListUnchecked(r) ==
  /\ pc[r] = "wiped"
  /\ ~Removing(Subject(r)) /\ ~Locked(r, call[r].branches)
  /\ list' = [list EXCEPT ![Subject(r)] = @ \cup call[r].branches]
  /\ lister' = [lister EXCEPT ![Subject(r)] = r]
  /\ Finish(r, "ok")
  /\ UNCHANGED <<account, restaurants, member, call, claims, before>>

\* and the INSERT, which fails on a row that is there or without the member.
FillList(r) ==
  /\ pc[r] = "wiped"
  /\ ~Removing(Subject(r)) /\ ~Locked(r, call[r].branches)
  /\ IF call[r].branches \cap list[Subject(r)] # {} \/ ~IsMember(Subject(r))
       THEN /\ Finish(r, IF IsMember(Subject(r)) THEN "conflict" ELSE "refused")
            /\ UNCHANGED <<list, lister>>
       ELSE /\ list' = [list EXCEPT ![Subject(r)] = @ \cup call[r].branches]
            /\ lister' = [lister EXCEPT ![Subject(r)] = r]
            /\ Finish(r, "ok")
  /\ UNCHANGED <<account, restaurants, member, call, claims, before>>

\* activateMemberByUserId, at the end of an acceptance.
Accept(r) ==
  /\ pc[r] = "idle" /\ call[r].op = "accept"
  /\ Arrive(r)
  /\ ~Removing(Subject(r))
  /\ IF member[Subject(r)].status = "inactive"
       THEN /\ member' = [member EXCEPT ![Subject(r)].status = "active"]
            /\ Finish(r, "ok")
       ELSE Finish(r, "refused") /\ UNCHANGED member
  /\ UNCHANGED <<account, restaurants, list, lister, call, claims>>

-----------------------------------------------------------------------------
(* Tokens.                                                                 *)

FindUser(r) ==
  /\ pc[r] = "idle" /\ call[r].op = "login" /\ HasAccount(Subject(r))
  /\ Arrive(r)
  /\ Goto(r, "known")
  /\ UNCHANGED <<tables, call, draft, gone, claims>>

\* findRestaurantMemberWithRole: active members only, and no claims without.
ReadRole(r) ==
  /\ pc[r] = "known"
  /\ IF member[Subject(r)].status = "active"
       THEN /\ draft' = [draft EXCEPT ![r].row = member[Subject(r)]]
            /\ Goto(r, "roled")
            /\ UNCHANGED gone
       ELSE Finish(r, "ok")
  /\ UNCHANGED <<tables, call, claims, before>>

\* Mutant: a token has all branches, as an owner's is understood to.
ReadListAny(r) ==
  /\ pc[r] = "roled"
  /\ claims' = [claims EXCEPT ![r] =
       [at |-> draft[r].row.at, role |-> draft[r].row.role, branches |-> Branches]]
  /\ Finish(r, "ok")
  /\ UNCHANGED <<tables, call, before>>

\* findBranchIdsByMemberId, and the tokens.
ReadList(r) ==
  /\ pc[r] = "roled"
  /\ claims' = [claims EXCEPT ![r] =
       [at |-> draft[r].row.at, role |-> draft[r].row.role,
        branches |-> list[Subject(r)]]]
  /\ Finish(r, "ok")
  /\ UNCHANGED <<tables, call, before>>

\* refreshAccessToken copies the claims of any token its user still has.
Refresh(r) ==
  /\ pc[r] = "idle" /\ call[r].op = "refresh" /\ HasAccount(Subject(r))
  /\ Arrive(r)
  /\ \E q \in Requests :
       /\ Subject(q) = Subject(r) /\ call[q].op \in {"login", "register"}
       /\ outcome[q] = "ok"
       /\ claims' = [claims EXCEPT ![r] = claims[q]]
  /\ Finish(r, "ok")
  /\ UNCHANGED <<tables, call>>

Progress(r) ==
  \/ CheckNames(r) \/ GiveUp(r)
  \/ InsertUser(r) \/ InsertRestaurant(r) \/ InsertMember(r) \/ InsertList(r)
  \/ CommitSignUp(r)
  \/ UpdateMember(r) \/ DeleteList(r) \/ DeleteMember(r) \/ CommitDeletion(r)
  \/ WipeList(r) \/ FillList(r)
  \/ ReadRole(r) \/ ReadList(r)

Next ==
  \E r \in Requests :
    \/ OpenSignUp(r) \/ ReadMember(r) \/ Accept(r) \/ FindUser(r) \/ Refresh(r)
    \/ Progress(r) \/ Fail(r)

Spec == Init /\ [][Next]_vars

\* The event loop and PostgreSQL keep a request going that has begun.
FairSpec == Spec /\ \A r \in Requests : WF_vars(Progress(r))

-----------------------------------------------------------------------------
(* Properties.                                                             *)

Places == {"idle", "open", "checked", "named", "housed", "joined", "listed", "read",
           "cleared", "removed", "wiped", "known", "roled", "over"}
Outcomes == {"none", "ok", "conflict", "refused", "error"}

\* Every variable has its shape, whatever the requests have done so far.
TypeOK ==
  /\ account \in [Users -> Requests \cup {Seed, NoRequest}]
  /\ restaurants \subseteq Users
  /\ member \in [Users -> Row \cup {NoRow}]
  /\ list \in [Users -> SUBSET Branches]
  /\ lister \in [Users -> Requests \cup {Seed}]
  /\ call \in [Requests -> Calls]
  /\ pc \in [Requests -> Places]
  /\ outcome \in [Requests -> Outcomes]
  /\ draft \in [Requests -> [restaurant : BOOLEAN, row : Row \cup {NoRow},
                             list : SUBSET Branches]]
  /\ gone \in [Requests -> SUBSET Branches]
  /\ claims \in [Requests -> Claims]
  /\ before \in [Requests -> SUBSET Requests]

\* No two accounts share an e-mail or a phone, although hashAndCreateUser
\* looks for them, hashes a password and only then inserts.
NamesAreUnique ==
  \A u, v \in Users : HasAccount(u) /\ HasAccount(v) /\ Clash(u, v) => u = v

\* The call ended well, and was about this user.
Did(q, u, op) == outcome[q] = "ok" /\ Subject(q) = u /\ call[q].op = op

\* A sign-up leaves all of its rows or none: whoever owns a restaurant or is a
\* member of one has an account and the restaurant exists; whoever registered
\* a restaurant has it, and his membership until somebody deletes that.
SignUpsAreWhole ==
  /\ \A u \in restaurants : HasAccount(u)
  /\ \A u \in Users :
       /\ IsMember(u) => HasAccount(u) /\ member[u].at \in restaurants
       /\ list[u] # {} => IsMember(u)
       /\ account[u] \in Requests =>
            LET r == account[u] IN
              /\ Houses(r) => u \in restaurants
              /\ call[r].op = "invite" \/ (call[r].op = "register" /\ Houses(r)) =>
                   IsMember(u) \/ \E q \in Requests : Did(q, u, "delete")

\* q, about the same user, was under way at some time at which r was.
Overlapped(q, r) ==
  /\ q # r /\ pc[q] # "idle" /\ Subject(q) = Subject(r)
  /\ q \notin before[r] /\ r \notin before[q]

\* The branches a PUT was answered well for are the member's, until the next
\* writer: a mixture of two lists (both wiped before either inserted) takes
\* two PUTs for that member at a time.
MixedListNeedsOverlap ==
  \A u \in Users :
    LET r == lister[u] IN
      r \in Requests /\ outcome[r] = "ok" /\ call[r].op \in {"invite", "setBranches"} =>
        \/ list[u] = call[r].branches
        \/ \E q \in Requests :
             Overlapped(q, r) /\ call[q].op = "setBranches"

Changes == {"update", "delete", "setBranches", "accept", "invite", "register"}

\* login reads the member's role and his branches in two queries: what the
\* token says is what the tables say when it is made, unless a change of that
\* member overlapped the login.
ClaimsAreCurrent ==
  [][\A r \in Requests :
       LET u == Subject(r) IN
         pc[r] = "roled" /\ outcome'[r] = "ok" =>
           \/ /\ member[u].status = "active"
              /\ claims'[r] = [at |-> member[u].at, role |-> member[u].role,
                               branches |-> list[u]]
           \/ \E q \in Requests :
                Overlapped(q, r) /\ call[q].op \in Changes]_vars

\* A token, of a login or refreshed for as long as its user likes, opens only
\* branches of its restaurant that somebody gave this member, and says owner
\* only of the one whose restaurant it is.
AccessWasGranted ==
  \A r \in Requests :
    LET u == Subject(r) IN
      claims[r] # NoClaims =>
        /\ \A b \in claims[r].branches :
             /\ BranchOf[b] = claims[r].at
             /\ \/ u \in DOMAIN InitList /\ b \in InitList[u]
                \/ \E q \in Requests :
                     /\ Did(q, u, "invite") \/ Did(q, u, "setBranches")
                     /\ b \in call[q].branches
        /\ claims[r].role = "owner" => u \in restaurants /\ claims[r].at = u

\* Who has been deleted (or was never made a member) stays without row and
\* branches, also when an update or a PUT had found the member before.
DeletionIsFinal ==
  [][\A u \in Users :
       HasAccount(u) /\ ~IsMember(u) => member'[u] = NoRow /\ list'[u] = {}]_vars

\* No request waits for ever for another one's rows or names, or for the
\* connection that another sign-up holds while it waits for a second one, too.
EveryCallEnds == \A r \in Requests : pc[r] # "idle" ~> pc[r] = "over"

\* "You cannot delete the restaurant owner." (rbac.constants.ts)
OwnersAreKept ==
  \A u \in restaurants :
    HasAccount(u) /\ (account[u] = Seed \/ call[account[u]].op = "register") => IsMember(u)
=============================================================================
