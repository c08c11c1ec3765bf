------------------------------- MODULE Outbox -------------------------------
(***************************************************************************)
(* The transactional outbox: service transactions insert rows of           *)
(* events_outbox, worker processes drain them to the RabbitMQ exchange.    *)
(*                                                                         *)
(* Each worker runs one drain at a time (croner's protect option); several *)
(* workers run in parallel.  A drain is one transaction: it claims rows    *)
(* with FOR UPDATE SKIP LOCKED, publishes them one by one, awaiting the    *)
(* confirm of each, and marks them when it is through.                     *)
(*                                                                         *)
(* The broker client resends what it had not confirmed when the connection *)
(* comes back and keeps publish() pending meanwhile; ensureConnected       *)
(* returns at once after the first connect(), so a drain does start while  *)
(* the broker is away and waits for it with its rows claimed.              *)
(***************************************************************************)
EXTENDS Integers, Sequences, FiniteSets

CONSTANTS
  Aggregates,  \* aggregate_id: a (branch, product) pair
  LockModes,   \* of BOOLEAN: TRUE for events inserted under a row lock
  Workers,
  BatchSize,   \* rabbit.batchSize
  MaxId,       \* bound: how many events are inserted
  MaxFaults    \* bound: crashes, refusals and disconnections together

ASSUME LockModesAssumption == LockModes \subseteq BOOLEAN
ASSUME BatchSizeAssumption == BatchSize \in Nat \ {0}
ASSUME MaxIdAssumption == MaxId \in Nat
ASSUME MaxFaultsAssumption == MaxFaults \in Nat

Ids == 1..MaxId

VARIABLES
  status,     \* of each row: see Status
  aggregate,  \* the aggregate of each row
  locked,     \* whether its transaction holds the aggregate's row lock
  attempts,   \* the attempts column
  nextId,     \* the BIGSERIAL
  skipped,    \* the rows that a drain passed over because another had them
  wpc,        \* where each worker's drain is
  snapshot,   \* the rows its claim has still to examine
  claimed,    \* the rows it has locked
  confirmed,  \* successfulIds
  failed,     \* failedRowId, 0 for null
  wire,       \* whether the broker has its current message unconfirmed
  up,         \* whether the broker connection is up
  heard,      \* the messages the exchange accepted, in order
  faults

rowVars == <<status, aggregate, locked, attempts, nextId, skipped>>
workerVars == <<wpc, snapshot, claimed, confirmed, failed, wire>>
brokerVars == <<up, heard>>
vars == <<rowVars, workerVars, brokerVars, faults>>

\* "open": inserted by a transaction that has not ended.
Status == {"absent", "open", "rolledback", "pending", "dispatched"}

Heard == {heard[i] : i \in DOMAIN heard}
First(S, e) == e \in S /\ \A d \in S : e <= d
Unsent(w) == claimed[w] \ confirmed[w]

Init ==
  /\ status = [e \in Ids |-> "absent"]
  /\ aggregate \in [Ids -> Aggregates]
  /\ locked \in [Ids -> LockModes]
  /\ attempts = [e \in Ids |-> 0]
  /\ nextId = 1
  /\ skipped = {}
  /\ wpc = [w \in Workers |-> "idle"]
  /\ snapshot = [w \in Workers |-> {}]
  /\ claimed = [w \in Workers |-> {}]
  /\ confirmed = [w \in Workers |-> {}]
  /\ failed = [w \in Workers |-> 0]
  /\ wire = [w \in Workers |-> FALSE]
  /\ up = TRUE
  /\ heard = <<>>
  /\ faults = 0

-----------------------------------------------------------------------------
(* Producers.                                                              *)

\* insertOutboxEvent, in the transaction of the change.  A stock or price
\* event is inserted after its product_branch_details row was locked; the
\* meta events of a renamed product are fanned out without those locks.
Insert(e) ==
  /\ e = nextId
  /\ locked[e] => \A d \in Ids : ~ (/\ status[d] = "open" /\ locked[d]
                                    /\ aggregate[d] = aggregate[e])
  /\ status' = [status EXCEPT ![e] = "open"]
  /\ nextId' = nextId + 1
  /\ UNCHANGED <<aggregate, locked, attempts, skipped, workerVars, brokerVars, faults>>

CommitTx(e) ==
  /\ status[e] = "open"
  /\ status' = [status EXCEPT ![e] = "pending"]
  /\ UNCHANGED <<aggregate, locked, attempts, nextId, skipped, workerVars, brokerVars,
                 faults>>

RollbackTx(e) ==
  /\ status[e] = "open"
  /\ status' = [status EXCEPT ![e] = "rolledback"]
  /\ UNCHANGED <<aggregate, locked, attempts, nextId, skipped, workerVars, brokerVars,
                 faults>>

-----------------------------------------------------------------------------
(* One drain.                                                              *)

\* Mutant: a claim that remembers the last dispatched id instead of selecting
\* on dispatched_at.
StartDrainFromCursor(w) ==
  /\ wpc[w] = "idle"
  /\ wpc' = [wpc EXCEPT ![w] = "scanning"]
  /\ snapshot' = [snapshot EXCEPT ![w] =
       {e \in Ids : /\ status[e] = "pending"
                    /\ \A d \in Ids : status[d] = "dispatched" => d < e}]
  /\ UNCHANGED <<rowVars, claimed, confirmed, failed, wire, brokerVars, faults>>

\* claimBatch starts: the statement sees the rows committed by now.
StartDrain(w) ==
  /\ wpc[w] = "idle"
  /\ wpc' = [wpc EXCEPT ![w] = "scanning"]
  /\ snapshot' = [snapshot EXCEPT ![w] = {e \in Ids : status[e] = "pending"}]
  /\ UNCHANGED <<rowVars, claimed, confirmed, failed, wire, brokerVars, faults>>

Held(w, e) == \E v \in Workers \ {w} : e \in claimed[v]

\* Mutant: the condition not looked at again.
TakableUnchecked(w, e) == ~Held(w, e)

\* A row is taken if no other drain has it locked, and if it is still
\* undispatched when the lock is granted (PostgreSQL checks the condition
\* again on the newest version of the row).
Takable(w, e) == ~Held(w, e) /\ status[e] = "pending"

\* Mutant: orderBy('id') forgotten.
ScanInAnyOrder(w, e) ==
  /\ wpc[w] = "scanning"
  /\ Cardinality(claimed[w]) < BatchSize
  /\ e \in snapshot[w]
  /\ snapshot' = [snapshot EXCEPT ![w] = @ \ {e}]
  /\ claimed' = [claimed EXCEPT ![w] = @ \cup (IF Takable(w, e) THEN {e} ELSE {})]
  /\ skipped' = skipped \cup (IF Held(w, e) THEN {e} ELSE {})
  /\ UNCHANGED <<status, aggregate, locked, attempts, nextId, wpc, confirmed, failed, wire,
                 brokerVars, faults>>

Scan(w, e) ==
  /\ wpc[w] = "scanning"
  /\ Cardinality(claimed[w]) < BatchSize
  /\ First(snapshot[w], e)
  /\ snapshot' = [snapshot EXCEPT ![w] = @ \ {e}]
  /\ claimed' = [claimed EXCEPT ![w] = @ \cup (IF Takable(w, e) THEN {e} ELSE {})]
  /\ skipped' = skipped \cup (IF Held(w, e) THEN {e} ELSE {})
  /\ UNCHANGED <<status, aggregate, locked, attempts, nextId, wpc, confirmed, failed, wire,
                 brokerVars, faults>>

\* The claim is complete; an empty one ends the drain.
EndScan(w) ==
  /\ wpc[w] = "scanning"
  /\ snapshot[w] = {} \/ Cardinality(claimed[w]) >= BatchSize
  /\ wpc' = [wpc EXCEPT ![w] = IF claimed[w] = {} THEN "idle" ELSE "publishing"]
  /\ snapshot' = [snapshot EXCEPT ![w] = {}]
  /\ UNCHANGED <<rowVars, claimed, confirmed, failed, wire, brokerVars, faults>>

\* The message of the current row reaches the exchange.
Arrive(w, e) ==
  /\ wpc[w] = "publishing" /\ up /\ ~wire[w]
  /\ First(Unsent(w), e)
  /\ heard' = Append(heard, e)
  /\ wire' = [wire EXCEPT ![w] = TRUE]
  /\ UNCHANGED <<rowVars, wpc, snapshot, claimed, confirmed, failed, up, faults>>

\* The broker's ack resolves publish().
Confirm(w, e) ==
  /\ wpc[w] = "publishing" /\ up /\ wire[w]
  /\ First(Unsent(w), e)
  /\ confirmed' = [confirmed EXCEPT ![w] = @ \cup {e}]
  /\ wire' = [wire EXCEPT ![w] = FALSE]
  /\ wpc' = [wpc EXCEPT ![w] = IF Unsent(w) = {e} THEN "marking" ELSE @]
  /\ UNCHANGED <<rowVars, snapshot, claimed, failed, brokerVars, faults>>

\* publish() rejects (a nack, the channel closed), whether or not the message
\* got through: the row is noted as failed and the loop is left.
Reject(w, e) ==
  /\ wpc[w] = "publishing" /\ faults < MaxFaults
  /\ First(Unsent(w), e)
  /\ failed' = [failed EXCEPT ![w] = e]
  /\ wire' = [wire EXCEPT ![w] = FALSE]
  /\ wpc' = [wpc EXCEPT ![w] = "marking"]
  /\ faults' = faults + 1
  /\ UNCHANGED <<rowVars, snapshot, claimed, confirmed, brokerVars>>

EndDrain(w) ==
  /\ wpc' = [wpc EXCEPT ![w] = "idle"]
  /\ snapshot' = [snapshot EXCEPT ![w] = {}]
  /\ claimed' = [claimed EXCEPT ![w] = {}]
  /\ confirmed' = [confirmed EXCEPT ![w] = {}]
  /\ failed' = [failed EXCEPT ![w] = 0]
  /\ wire' = [wire EXCEPT ![w] = FALSE]

\* Mutant: the whole batch marked dispatched.
MarkBatch(w) ==
  /\ wpc[w] = "marking"
  /\ status' = [e \in Ids |-> IF e \in claimed[w] THEN "dispatched" ELSE status[e]]
  /\ EndDrain(w)
  /\ UNCHANGED <<aggregate, locked, attempts, nextId, skipped, brokerVars, faults>>

\* markDispatchedBulk, markFailed and the commit that makes both visible.
Mark(w) ==
  /\ wpc[w] = "marking"
  /\ status' = [e \in Ids |-> IF e \in confirmed[w] THEN "dispatched" ELSE status[e]]
  /\ attempts' = [e \in Ids |-> IF e = failed[w] THEN attempts[e] + 1 ELSE attempts[e]]
  /\ EndDrain(w)
  /\ UNCHANGED <<aggregate, locked, nextId, skipped, brokerVars, faults>>

\* The worker process dies, or the database refuses one of the statements:
\* the transaction is rolled back and the next drain, of this worker or of its
\* successor, starts afresh.
Crash(w) ==
  /\ wpc[w] # "idle" /\ faults < MaxFaults
  /\ EndDrain(w)
  /\ faults' = faults + 1
  /\ UNCHANGED <<rowVars, brokerVars>>

-----------------------------------------------------------------------------
(* The connection to the broker.                                           *)

\* What was sent and not confirmed will be sent again.
Disconnect ==
  /\ up /\ faults < MaxFaults
  /\ up' = FALSE
  /\ wire' = [w \in Workers |-> FALSE]
  /\ faults' = faults + 1
  /\ UNCHANGED <<rowVars, wpc, snapshot, claimed, confirmed, failed, heard>>

Reconnect ==
  /\ ~up
  /\ up' = TRUE
  /\ UNCHANGED <<rowVars, workerVars, heard, faults>>

-----------------------------------------------------------------------------
Produce == \E e \in Ids : Insert(e) \/ CommitTx(e) \/ RollbackTx(e)

Drain(w) ==
  \/ StartDrain(w)
  \/ \E e \in Ids : Scan(w, e) \/ Arrive(w, e) \/ Confirm(w, e)
  \/ EndScan(w) \/ Mark(w)

Fault ==
  \/ \E w \in Workers : Crash(w) \/ \E e \in Ids : Reject(w, e)
  \/ Disconnect

Next == Produce \/ (\E w \in Workers : Drain(w)) \/ Fault \/ Reconnect

Spec == Init /\ [][Next]_vars

\* The cron job fires every second for as long as a worker runs, and a broker
\* that went away comes back; faults are finitely many (MaxFaults).
Fairness ==
  /\ \A w \in Workers : WF_vars(Drain(w))
  /\ WF_vars(Reconnect)

FairSpec == Spec /\ Fairness

-----------------------------------------------------------------------------
(* Properties.                                                             *)

\* Every variable holds a value of its kind.
TypeOK ==
  /\ status \in [Ids -> Status]
  /\ aggregate \in [Ids -> Aggregates]
  /\ locked \in [Ids -> BOOLEAN]
  /\ attempts \in [Ids -> Nat]
  /\ nextId \in Nat \ {0}
  /\ skipped \subseteq Ids
  /\ wpc \in [Workers -> {"idle", "scanning", "publishing", "marking"}]
  /\ snapshot \in [Workers -> SUBSET Ids]
  /\ claimed \in [Workers -> SUBSET Ids]
  /\ confirmed \in [Workers -> SUBSET Ids]
  /\ failed \in [Workers -> Ids \cup {0}]
  /\ wire \in [Workers -> BOOLEAN]
  /\ up \in BOOLEAN
  /\ heard \in Seq(Ids)
  /\ faults \in Nat

\* No two drains ever hold the same row, however their scans interleave and
\* whatever dies in between (claimBatch: "another dispatcher process won't
\* pick up the same rows").
ClaimsDisjoint ==
  \A v, w \in Workers : v # w => claimed[v] \cap claimed[w] = {}

\* Without a fault no event is published twice, whatever the number of
\* workers; each fault costs an event at most one more copy.
CopiesNeedFaults ==
  \A e \in Ids : Cardinality({i \in DOMAIN heard : heard[i] = e}) <= 1 + faults

\* The changes of one row are first heard in the order in which they were
\* committed, although ids become visible out of order and drains fail half-way,
\* unless a drain passed over the earlier one while another drain had it: with
\* a single worker consumers can apply stock deltas as they come, with several
\* ("scales horizontally") they cannot.
DisorderNeedsTwoDrains ==
  \A j \in DOMAIN heard : \A e \in Ids :
    /\ e < heard[j]
    /\ aggregate[e] = aggregate[heard[j]]
    /\ locked[e] /\ locked[heard[j]]
    /\ status[e] # "rolledback"
    => e \in skipped \/ \E i \in 1..(j - 1) : heard[i] = e

Relay == INSTANCE EventRelay
  WITH recorded <- {e \in Ids : status[e] \in {"pending", "dispatched"}},
       heard <- Heard,
       settled <- {e \in Ids : status[e] = "dispatched"}

\* The outbox relays events at least once: nothing uncommitted is heard, and
\* nothing is marked dispatched that the exchange did not accept, whatever
\* crashes between publishing and marking.
IsRelay == Relay!Spec

\* Once faults cease every committed event is published and marked, those
\* whose drain failed or died and those that became visible late included.
EveryEventDispatched ==
  \A e \in Ids : status[e] = "pending" ~> status[e] = "dispatched"
=============================================================================
