----------------------------- MODULE MCAddress -----------------------------
(* Instances of Address for TLC.                                           *)
EXTENDS Address, TLC

CONSTANTS u, v

\* Two addresses of u and one of v.
MCInitOwner == <<u, u, v>>

Create(w, d) == [op |-> "create", user |-> w, isDefault |-> d]
Change(w, i, d, n) ==
  [op |-> "update", user |-> w, isDefault |-> d, target |-> i, others |-> n]
Remove(w, i) == [op |-> "delete", user |-> w, isDefault |-> "unsaid", target |-> i]

MCCalls ==
  { Create(u, "yes"), Create(v, "unsaid"),
    Change(u, 1, "yes", 1), Change(u, 2, "yes", 1), Change(u, 2, "yes", 0),
    Change(u, 1, "no", 2), Change(v, 1, "yes", 2), Change(u, 4, "unsaid", 2),
    Remove(u, 2), Remove(v, 2) }

Interchangeable == Permutations(Requests)
=============================================================================
