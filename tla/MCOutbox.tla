------------------------------ MODULE MCOutbox ------------------------------
(* Instances of Outbox for TLC.                                            *)
EXTENDS Outbox

CONSTANTS g, h

\* Two changes of one row, and a meta event of another product between them.
MCInit == Init /\ aggregate = <<g, h, g>> /\ locked = <<TRUE, FALSE, TRUE>>

MCSpec == MCInit /\ [][Next]_vars /\ Fairness
=============================================================================
