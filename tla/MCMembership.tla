---------------------------- MODULE MCMembership ----------------------------
(* An instance of Membership for TLC.                                      *)
EXTENDS Membership, TLC

CONSTANTS a1, a2, c1

Person(e, p) == [email |-> e, phone |-> p]
o == Person("o", 1)
m == Person("m", 2)
x == Person("x", 3)
y == Person("y", 3)      \* x's telephone

\* The owner o with the member m, who has one of o's two branches; c1 is x's.
MCUsers == {o, m, x, y}
MCInitOwners == {o}
MCBranchOf == (a1 :> o) @@ (a2 :> o) @@ (c1 :> x)
MCInitMember == m :> [at |-> o, role |-> "staff", status |-> "active"]
MCInitList == m :> {a1}

Invite == [op |-> "invite", user |-> y, at |-> o, role |-> "staff", branches |-> {a1}]
Update(u, role, status) ==
  [op |-> "update", user |-> u, at |-> o, role |-> role, status |-> status]
Delete(u) == [op |-> "delete", user |-> u, at |-> o]
SetBranches(bs) == [op |-> "setBranches", user |-> m, at |-> o, branches |-> bs]

\* Sign-ups that are after the same telephone; every change of m, one of them
\* with another's branch; tokens of m.
MCCalls ==
  { [op |-> "register", user |-> x, restaurant |-> TRUE],
    [op |-> "provision", user |-> y], Invite, [op |-> "accept", user |-> y],
    Update(m, "branch_manager", Same), Delete(m),
    SetBranches({a1}), SetBranches({a2}), SetBranches({c1}),
    [op |-> "login", user |-> m], [op |-> "refresh", user |-> m] }

\* What two managers ask of the owner's row, and of the member's.
MCOwnerCalls ==
  {Update(o, "staff", Same), Update(m, Same, "suspended"), Delete(o), Delete(m)}
=============================================================================
