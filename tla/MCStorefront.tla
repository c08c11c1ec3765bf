---------------------------- MODULE MCStorefront ----------------------------
(* Instances of Storefront for TLC.                                         *)
EXTENDS Storefront, FiniteSets, TLC

CONSTANTS q1, q2, q3, admin, owner, manager, x, y, b1, b2, m1, m2

MCRequests == {q1, q2, q3}
MCOwnerOf == (x :> owner) @@ (y :> admin)
MCManages == (admin :> {}) @@ (owner :> {}) @@ (manager :> {b1})
MCInitStatus == (x :> "active") @@ (y :> "pending")
MCInitBranch == b1 :> [restaurant |-> x, active |-> FALSE, open |-> FALSE]

MCCalls ==
  { [op |-> "open", user |-> owner, restaurant |-> x],
    [op |-> "patchBranch", user |-> manager, branch |-> b1, open |-> TRUE],
    [op |-> "patchBranch", user |-> owner, branch |-> b2, open |-> Same],
    [op |-> "showBranch", user |-> admin, branch |-> b1, active |-> TRUE],
    [op |-> "showBranch", user |-> admin, branch |-> b2, active |-> Same],
    [op |-> "patch", user |-> owner, restaurant |-> x, logo |-> m1],
    [op |-> "patch", user |-> admin, restaurant |-> y, logo |-> m1],
    [op |-> "patch", user |-> owner, restaurant |-> x, logo |-> Blank],
    [op |-> "review", user |-> admin, restaurant |-> x, status |-> "suspended"],
    [op |-> "review", user |-> admin, restaurant |-> x, status |-> "active"],
    [op |-> "upload", user |-> owner, restaurant |-> x, type |-> "product"],
    [op |-> "confirm", user |-> owner, restaurant |-> x, upload |-> m1],
    [op |-> "confirm", user |-> admin, restaurant |-> x, upload |-> m1],
    [op |-> "confirm", user |-> owner, restaurant |-> x, upload |-> m2],
    [op |-> "patch", user |-> owner, restaurant |-> x, logo |-> m2],
    [op |-> "confirm", user |-> admin, restaurant |-> y, upload |-> m1] }

MCInitMedia == m1 :> [restaurant |-> x, by |-> owner, type |-> "logo", done |-> FALSE]

MCSymmetry == Permutations(MCRequests)
=============================================================================
