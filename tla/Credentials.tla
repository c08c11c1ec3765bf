---------------------------- MODULE Credentials ----------------------------
(***************************************************************************)
(* The password of one account, the one-time passwords (OTPs) that change  *)
(* it, and the restaurant membership an invitation waits in.               *)
(*                                                                         *)
(* resetPassword is called in two ways.  By itself it runs in autocommit,  *)
(* and updatePassword is not awaited: the statement is sent on a           *)
(* connection of its own and ends, or fails, whenever it does.  Within     *)
(* acceptInvite it runs on the one connection of a transaction, where      *)
(* statements queue up behind each other, awaited or not.                  *)
(*                                                                         *)
(* An OTP is known by the id of its password_resets row: two rows are      *)
(* taken to hold different numbers.                                        *)
(***************************************************************************)
EXTENDS Naturals

CONSTANTS
  Requests,   \* one per HTTP request
  NoRequest,  \* who chose the password the account was created with
  Calls,      \* what the requests may ask for
  MaxId       \* bound: password_resets rows

Ids == 1..MaxId
MemberStatus == {"active", "inactive", "suspended"}
Part == {"password", "otp", "member"}

Call ==
  [op : {"forgot"}]
    \cup [op : {"reset", "accept"}, otp : Ids]
    \cup [op : {"patch"}, status : MemberStatus]

ASSUME NoRequestAssumption == NoRequest \notin Requests
ASSUME CallsAssumption == Calls \subseteq Call
ASSUME MaxIdAssumption == MaxId \in Nat \ {0}

VARIABLES
  nextId, consumed, expired,  \* password_resets: the rows below nextId,
                              \* those consumed, those past expires_at
  password,  \* the request that chose the account's password
  member,    \* the status of the account's restaurant_members row
  call, pc, outcome,
  wrote,     \* the rows an open transaction has changed, and locked
  late,      \* whether a request's un-awaited password write is out
  before     \* the requests that were over when a request looked up its OTP

tables == <<nextId, consumed, expired, password, member>>
vars == <<tables, call, pc, outcome, wrote, late, before>>

Accepts(r) == call[r].op = "accept"
Uses(r) == call[r].op \in {"reset", "accept"}
Over == {r \in Requests : pc[r] = "over"}

Valid == {i \in Ids : i < nextId /\ i \notin consumed}

\* findLatestPasswordResetByUserId.
Latest(i) == i \in Valid /\ \A j \in Valid : j <= i

\* Another transaction has changed the row of this part and not ended.
Locked(r, part) ==
  \E q \in Requests \ {r} :
    /\ part \in wrote[q]
    /\ part = "otp" => call[q].otp = call[r].otp

\* An invited account: createMember has committed its user, its member and
\* its first OTP.
Init ==
  /\ nextId = 2 /\ consumed = {} /\ expired = {}
  /\ password = NoRequest
  /\ member = "inactive"
  /\ call \in [Requests -> Calls]
  /\ pc = [r \in Requests |-> "idle"]
  /\ outcome = [r \in Requests |-> "none"]
  /\ wrote = [r \in Requests |-> {}]
  /\ late = [r \in Requests |-> FALSE]
  /\ before = [r \in Requests |-> {}]

-----------------------------------------------------------------------------
Go(r, where) ==
  /\ pc' = [pc EXCEPT ![r] = where]
  /\ UNCHANGED outcome

\* The request ends, and a transaction it may have with it.
End(r, what) ==
  /\ pc' = [pc EXCEPT ![r] = "over"]
  /\ outcome' = [outcome EXCEPT ![r] = what]
  /\ wrote' = [wrote EXCEPT ![r] = {}]

-----------------------------------------------------------------------------
(* forgotPassword: the row, then the mail, which may fail (Fail).          *)

Issue(r) ==
  /\ pc[r] = "idle" /\ call[r].op = "forgot"
  /\ nextId \in Ids
  /\ nextId' = nextId + 1
  /\ Go(r, "mailing")
  /\ UNCHANGED <<consumed, expired, password, member, call, wrote, late, before>>

Mail(r) ==
  /\ pc[r] = "mailing"
  /\ End(r, "ok")
  /\ UNCHANGED <<tables, call, late, before>>

\* Time passes the expires_at of a row.
Expire(i) ==
  /\ i < nextId /\ i \notin expired
  /\ expired' = expired \cup {i}
  /\ UNCHANGED <<nextId, consumed, password, member, call, pc, outcome, wrote,
                 late, before>>

-----------------------------------------------------------------------------
(* resetPassword and acceptInvite.                                         *)

\* Mutant: the row looked up by its OTP, consumed or not.
LookAny(r) ==
  /\ pc[r] = "idle" /\ Uses(r)
  /\ before' = [before EXCEPT ![r] = Over]
  /\ IF call[r].otp < nextId /\ call[r].otp \notin expired
       THEN Go(r, "hashing") /\ UNCHANGED wrote
       ELSE End(r, "rejected")
  /\ UNCHANGED <<tables, call, late>>

\* The latest row nobody consumed must be the OTP's, and not be expired.
Look(r) ==
  /\ pc[r] = "idle" /\ Uses(r)
  /\ before' = [before EXCEPT ![r] = Over]
  /\ IF Latest(call[r].otp) /\ call[r].otp \notin expired
       THEN Go(r, "hashing") /\ UNCHANGED wrote
       ELSE End(r, "rejected")
  /\ UNCHANGED <<tables, call, late>>

\* Mutant: trx not handed to updatePassword.
SendPasswordOutside(r) ==
  /\ pc[r] = "hashing"
  /\ late' = [late EXCEPT ![r] = TRUE]
  /\ Go(r, "consuming")
  /\ UNCHANGED <<tables, call, wrote, before>>

\* updatePassword: in a transaction the row is locked, otherwise the statement
\* is only on its way.
SendPassword(r) ==
  /\ pc[r] = "hashing"
  /\ IF Accepts(r)
       THEN /\ ~Locked(r, "password")
            /\ wrote' = [wrote EXCEPT ![r] = @ \cup {"password"}]
            /\ UNCHANGED late
       ELSE /\ late' = [late EXCEPT ![r] = TRUE]
            /\ UNCHANGED wrote
  /\ Go(r, "consuming")
  /\ UNCHANGED <<tables, call, before>>

\* Mutant: trx not handed to updatePasswordResetConsumedAt.
ConsumeOutside(r) ==
  /\ pc[r] = "consuming" /\ Accepts(r)
  /\ consumed' = consumed \cup {call[r].otp}
  /\ Go(r, "activating")
  /\ UNCHANGED <<nextId, expired, password, member, call, wrote, late, before>>

ConsumeInTrx(r) ==
  /\ pc[r] = "consuming" /\ Accepts(r) /\ ~Locked(r, "otp")
  /\ wrote' = [wrote EXCEPT ![r] = @ \cup {"otp"}]
  /\ Go(r, "activating")
  /\ UNCHANGED <<tables, call, late, before>>

\* A reset is through when its row is consumed; its answer may get lost.
ConsumeAndAnswer(r) ==
  /\ pc[r] = "consuming" /\ call[r].op = "reset" /\ ~Locked(r, "otp")
  /\ consumed' = consumed \cup {call[r].otp}
  /\ \E what \in {"ok", "unanswered"} : End(r, what)
  /\ UNCHANGED <<nextId, expired, password, member, call, late, before>>

\* The un-awaited statement ends.
Land(r) ==
  /\ late[r] /\ ~Locked(r, "password")
  /\ password' = r
  /\ late' = [late EXCEPT ![r] = FALSE]
  /\ UNCHANGED <<nextId, consumed, expired, member, call, pc, outcome, wrote, before>>

\* It fails, or its process dies: nobody is told.
Lose(r) ==
  /\ late[r]
  /\ late' = [late EXCEPT ![r] = FALSE]
  /\ UNCHANGED <<tables, call, pc, outcome, wrote, before>>

-----------------------------------------------------------------------------
(* activateInvite and the end of acceptInvite.                             *)

\* Mutant: the status left out of the where clause.
ActivateAny(r) ==
  /\ pc[r] = "activating" /\ ~Locked(r, "member")
  /\ wrote' = [wrote EXCEPT ![r] = @ \cup {"member"}]
  /\ Go(r, "committing")
  /\ UNCHANGED <<tables, call, late, before>>

Activate(r) ==
  /\ pc[r] = "activating" /\ ~Locked(r, "member")
  /\ member = "inactive"
  /\ wrote' = [wrote EXCEPT ![r] = @ \cup {"member"}]
  /\ Go(r, "committing")
  /\ UNCHANGED <<tables, call, late, before>>

\* "Pending invitation not found": everything is rolled back.
NoInvitation(r) ==
  /\ pc[r] = "activating" /\ ~Locked(r, "member")
  /\ member # "inactive"
  /\ End(r, "not_found")
  /\ UNCHANGED <<tables, call, late, before>>

Commit(r) ==
  /\ pc[r] = "committing"
  /\ password' = IF "password" \in wrote[r] THEN r ELSE password
  /\ consumed' = consumed \cup (IF "otp" \in wrote[r] THEN {call[r].otp} ELSE {})
  /\ member' = IF "member" \in wrote[r] THEN "active" ELSE member
  /\ \E what \in {"ok", "unanswered"} : End(r, what)
  /\ UNCHANGED <<nextId, expired, call, late, before>>

\* A statement fails or the process dies; an open transaction is rolled back.
Fail(r) ==
  /\ pc[r] \notin {"idle", "over"}
  /\ End(r, "error")
  /\ UNCHANGED <<tables, call, late, before>>

\* PATCH of the member's status by a manager.
Patch(r) ==
  /\ pc[r] = "idle" /\ call[r].op = "patch" /\ ~Locked(r, "member")
  /\ member' = call[r].status
  /\ End(r, "ok")
  /\ UNCHANGED <<nextId, consumed, expired, password, call, late, before>>

-----------------------------------------------------------------------------
Next ==
  \/ \E r \in Requests :
       \/ Issue(r) \/ Mail(r) \/ Look(r) \/ SendPassword(r)
       \/ ConsumeInTrx(r) \/ ConsumeAndAnswer(r) \/ Land(r) \/ Lose(r)
       \/ Activate(r) \/ NoInvitation(r) \/ Commit(r) \/ Fail(r) \/ Patch(r)
  \/ \E i \in Ids : Expire(i)

Spec == Init /\ [][Next]_vars

-----------------------------------------------------------------------------
(* Properties.                                                             *)

\* Every variable holds a value of its kind.
TypeOK ==
  /\ nextId \in Nat /\ consumed \subseteq Ids /\ expired \subseteq Ids
  /\ password \in Requests \cup {NoRequest}
  /\ member \in MemberStatus
  /\ call \in [Requests -> Calls]
  /\ pc \in [Requests -> {"idle", "mailing", "hashing", "consuming",
                          "activating", "committing", "over"}]
  /\ outcome \in [Requests -> {"none", "ok", "unanswered", "rejected",
                               "not_found", "error"}]
  /\ wrote \in [Requests -> SUBSET Part]
  /\ late \in [Requests -> BOOLEAN]
  /\ before \in [Requests -> SUBSET Requests]

Used(r) == Uses(r) /\ outcome[r] \in {"ok", "unanswered"}
SameOtp(q, r) == Used(q) /\ Used(r) /\ call[q].otp = call[r].otp
Patched(S) ==
  \E r \in Requests : call[r].op = "patch" /\ call[r].status \in S /\ outcome[r] = "ok"

\* An OTP serves a second request only if that one had looked it up before the
\* first was through: for requests one after the other it serves once, whether
\* they reset a password or accept an invitation, and whatever else fails.
ReuseNeedsOverlap ==
  \A q, r \in Requests :
    q # r /\ SameOtp(q, r) => q \notin before[r] /\ r \notin before[q]

\* auth.service.spec.ts:355, "accepts an invite atomically and rolls back
\* failures": an acceptance that did not succeed neither set the password nor
\* consumed the OTP.
FailedAcceptLeavesNoTrace ==
  \A r \in Requests :
    Accepts(r) /\ outcome[r] \in {"rejected", "not_found", "error"} =>
      /\ password # r
      /\ call[r].otp \in consumed =>
           \E q \in Requests : Used(q) /\ call[q].otp = call[r].otp

\* An invitation is accepted once, although two requests may hold the same
\* valid OTP, unless a manager makes the member inactive again.
OneAcceptance ==
  \A q, r \in Requests :
    Accepts(q) /\ Accepts(r) /\ Used(q) /\ Used(r) =>
      q = r \/ Patched({"inactive"})

\* Nobody becomes an active member with the password every invited account is
\* created with, except by a manager's PATCH.
InvitedChoosesPassword ==
  member = "active" => password # NoRequest \/ Patched({"active"})

\* auth.service.ts:223, "Hash the new password and save it": when a reset has
\* been answered its password is not still on the way.
AnsweredResetIsSaved ==
  \A r \in Requests : call[r].op = "reset" /\ outcome[r] = "ok" => ~late[r]
=============================================================================
