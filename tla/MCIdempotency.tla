--------------------------- MODULE MCIdempotency ---------------------------
(* Instances of Idempotency for TLC: a strict route (reserve-stock, say)   *)
(* and one that is not (login), and requests that repeat one key.          *)
EXTENDS Idempotency, TLC

Interchangeable == Permutations(Requests)
=============================================================================
