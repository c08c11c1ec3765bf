----------------------------- MODULE EventRelay -----------------------------
(***************************************************************************)
(* What the transactional outbox promises: an event is heard by the        *)
(* exchange only if the change it tells of is committed, and it stops      *)
(* being sent only once it has been heard.  It may be heard more than      *)
(* once.  Outbox implements this with a table and polling workers.         *)
(***************************************************************************)
CONSTANT Ids

VARIABLES
  recorded,   \* the events whose transaction has committed
  heard,      \* the events the exchange has accepted
  settled     \* the events that will not be sent again

vars == <<recorded, heard, settled>>

Init == recorded = {} /\ heard = {} /\ settled = {}

Record(e) ==
  /\ e \notin recorded
  /\ recorded' = recorded \cup {e}
  /\ UNCHANGED <<heard, settled>>

Deliver(e) ==
  /\ e \in recorded
  /\ heard' = heard \cup {e}
  /\ UNCHANGED <<recorded, settled>>

Settle(S) ==
  /\ S \subseteq heard
  /\ settled' = settled \cup S
  /\ UNCHANGED <<recorded, heard>>

Next ==
  \/ \E e \in Ids : Record(e) \/ Deliver(e)
  \/ \E S \in SUBSET Ids : Settle(S)

Spec == Init /\ [][Next]_vars
=============================================================================
