---------------------------- MODULE OutboxProofs ----------------------------
(***************************************************************************)
(* Outbox for any number of workers, events and faults: its type           *)
(* invariant, the exclusive claims, and that it implements EventRelay.     *)
(*                                                                         *)
(* ClaimsDisjoint alone is not inductive for the refinement: a row must    *)
(* stay pending while a drain holds it, and what a drain has confirmed     *)
(* must have been heard.  OutboxInv adds those, and what they need of the  *)
(* BIGSERIAL (Serial) and of the unconfirmed message (Wires).              *)
(***************************************************************************)
EXTENDS Outbox, FiniteSetTheorems, TLAPS

\* The BIGSERIAL has handed out exactly the ids of the rows there are.
Serial == \A e \in Ids : status[e] = "absent" <=> e >= nextId

\* What a drain holds is committed and undispatched, and what it means to mark
\* was accepted by the exchange.
Claims ==
  \A w \in Workers :
    /\ \A e \in claimed[w] : status[e] = "pending"
    /\ confirmed[w] \subseteq claimed[w]
    /\ confirmed[w] \subseteq Heard

\* A message on the wire is the current row's, and the exchange has it.
Wires ==
  \A w \in Workers : wire[w] =>
    /\ wpc[w] = "publishing"
    /\ \A e \in Ids : First(Unsent(w), e) => e \in Heard

OutboxInv == TypeOK /\ Serial /\ ClaimsDisjoint /\ Claims /\ Wires

USE LockModesAssumption, BatchSizeAssumption, MaxIdAssumption,
    MaxFaultsAssumption

-----------------------------------------------------------------------------
(* Lemmas about the operators.                                             *)

LEMMA IdsAreNumbers == Ids \subseteq Nat
  BY DEF Ids

\* A set has one first element.
LEMMA FirstIsUnique ==
  ASSUME NEW S \in SUBSET Ids, NEW d \in Ids, NEW e \in Ids,
         First(S, d), First(S, e)
  PROVE  d = e
  BY IdsAreNumbers DEF First

\* Append adds one message to what was heard.
LEMMA HeardAfterAppend ==
  ASSUME heard \in Seq(Ids), NEW e \in Ids, heard' = Append(heard, e)
  PROVE  heard' \in Seq(Ids) /\ Heard' = Heard \cup {e}
  <1>1. /\ heard' \in Seq(Ids) /\ Len(heard') = Len(heard) + 1
        /\ heard'[Len(heard) + 1] = e
        /\ \A i \in 1..Len(heard) : heard'[i] = heard[i]
    OBVIOUS
  <1>2. DOMAIN heard = 1..Len(heard) /\ DOMAIN heard' = 1..(Len(heard) + 1)
        /\ Len(heard) \in Nat
    BY <1>1
  <1>3. Heard' \subseteq Heard \cup {e}
    BY <1>1, <1>2 DEF Heard
  <1>4. Heard \subseteq Heard'
    BY <1>1, <1>2 DEF Heard
  <1>5. e \in Heard'
    BY <1>1, <1>2 DEF Heard
  <1> QED
    BY <1>1, <1>3, <1>4, <1>5

-----------------------------------------------------------------------------
(* The invariant.                                                          *)

LEMMA InitInv == Init => OutboxInv
  <1> SUFFICES ASSUME Init PROVE OutboxInv
    OBVIOUS
  <1>1. TypeOK
    BY DEF Init, TypeOK, Status
  <1>2. Serial
    BY DEF Init, Serial, Ids
  <1>3. ClaimsDisjoint /\ Claims /\ Wires
    BY DEF Init, ClaimsDisjoint, Claims, Wires
  <1> QED
    BY <1>1, <1>2, <1>3 DEF OutboxInv

\* Producers do not touch what drains hold: an uncommitted row is not claimed.
LEMMA ProduceInv ==
  ASSUME OutboxInv, Produce
  PROVE  OutboxInv'
  <1> USE DEF OutboxInv
  <1>1. UNCHANGED <<workerVars, brokerVars, aggregate, locked, attempts, faults>>
    BY DEF Produce, Insert, CommitTx, RollbackTx
  <1>2. Heard' = Heard /\ \A w \in Workers : Unsent(w)' = Unsent(w)
    BY <1>1 DEF Heard, Unsent, workerVars, brokerVars
  <1>3. ClaimsDisjoint' /\ Wires'
    BY <1>1, <1>2 DEF ClaimsDisjoint, Wires, workerVars, brokerVars
  <1>4. ASSUME NEW e \in Ids, status[e] # "pending", NEW s \in Status,
               status' = [status EXCEPT ![e] = s]
        PROVE  Claims'
    <2>1. \A w \in Workers : e \notin claimed[w]
      BY <1>4 DEF Claims
    <2> QED
      BY <1>1, <1>2, <1>4, <2>1 DEF Claims, TypeOK, workerVars, brokerVars
  <1>5. ASSUME NEW e \in Ids, Insert(e) PROVE OutboxInv'
    <2>1. status[e] = "absent"
      BY <1>5, IdsAreNumbers DEF Insert, Serial, TypeOK
    <2>2. TypeOK'
      BY <1>1, <1>5 DEF Insert, TypeOK, Status, workerVars, brokerVars
    <2>3. Serial'
      BY <1>5, <2>1, IdsAreNumbers DEF Insert, Serial, TypeOK
    <2>4. Claims'
      BY <1>4, <1>5, <2>1 DEF Insert, Status
    <2> QED
      BY <1>3, <2>2, <2>3, <2>4
  <1>6. ASSUME NEW e \in Ids, CommitTx(e) \/ RollbackTx(e) PROVE OutboxInv'
    <2>1. TypeOK'
      BY <1>1, <1>6 DEF CommitTx, RollbackTx, TypeOK, Status, workerVars, brokerVars
    <2>2. Serial'
      BY <1>6 DEF CommitTx, RollbackTx, Serial, TypeOK
    <2>3. Claims'
      <3>1. CASE CommitTx(e)
        BY <1>4, <3>1 DEF CommitTx, Status
      <3>2. CASE RollbackTx(e)
        BY <1>4, <3>2 DEF RollbackTx, Status
      <3> QED
        BY <1>6, <3>1, <3>2
    <2> QED
      BY <1>3, <2>1, <2>2, <2>3
  <1> QED
    BY <1>5, <1>6 DEF Produce

\* Ending a drain forgets its claim and nothing else.
LEMMA EndDrainInv ==
  ASSUME OutboxInv, NEW w \in Workers, EndDrain(w),
         UNCHANGED <<aggregate, locked, nextId, skipped, brokerVars>>,
         status' \in [Ids -> Status], attempts' \in [Ids -> Nat], faults' \in Nat,
         \A e \in Ids : status'[e] # status[e] =>
                          e \in confirmed[w] /\ status'[e] = "dispatched"
  PROVE  OutboxInv'
  <1> USE DEF OutboxInv
  <1>1. Heard' = Heard
    BY DEF Heard, brokerVars
  <1>2. TypeOK'
    BY DEF EndDrain, TypeOK, brokerVars
  <1>3. Serial'
    <2>1. \A e \in Ids : status'[e] # status[e] => status[e] = "pending"
      BY DEF Claims
    <2> QED
      BY <2>1 DEF Serial
  <1>4. ClaimsDisjoint'
    BY DEF EndDrain, ClaimsDisjoint, TypeOK
  <1>5. Claims'
    <2> SUFFICES ASSUME NEW v \in Workers
                 PROVE  /\ \A e \in claimed'[v] : status'[e] = "pending"
                        /\ confirmed'[v] \subseteq claimed'[v]
                        /\ confirmed'[v] \subseteq Heard
      BY <1>1 DEF Claims
    <2>1. CASE v = w
      BY <2>1 DEF EndDrain, TypeOK
    <2>2. CASE v # w
      <3>1. claimed'[v] = claimed[v] /\ confirmed'[v] = confirmed[v]
        BY <2>2 DEF EndDrain, TypeOK
      <3>2. claimed[v] \cap confirmed[w] = {}
        BY <2>2 DEF ClaimsDisjoint, Claims
      <3>3. claimed[v] \subseteq Ids
        BY DEF TypeOK
      <3> QED
        BY <3>1, <3>2, <3>3 DEF Claims
    <2> QED
      BY <2>1, <2>2
  <1>6. Wires'
    <2> SUFFICES ASSUME NEW v \in Workers, wire'[v]
                 PROVE  /\ wpc'[v] = "publishing"
                        /\ \A e \in Ids : First(claimed'[v] \ confirmed'[v], e) => e \in Heard
      BY <1>1 DEF Wires, Unsent
    <2>1. v # w
      BY DEF EndDrain, TypeOK
    <2> QED
      BY <2>1 DEF EndDrain, TypeOK, Wires, Unsent
  <1> QED
    BY <1>2, <1>3, <1>4, <1>5, <1>6

\* A step of a drain that leaves the rows and the exchange alone.
LEMMA WorkerInv ==
  ASSUME OutboxInv, NEW w \in Workers, UNCHANGED <<status, nextId, heard>>,
         TypeOK',
         \A v \in Workers \ {w} :
           /\ claimed'[v] = claimed[v] /\ confirmed'[v] = confirmed[v]
           /\ wpc'[v] = wpc[v] /\ (wire'[v] => wire[v]),
         \A v \in Workers \ {w} : claimed'[w] \cap claimed[v] = {},
         \A e \in claimed'[w] : status[e] = "pending",
         confirmed'[w] \subseteq claimed'[w] \cap Heard,
         wire'[w] => wpc'[w] = "publishing" /\ wire[w]
                       /\ claimed'[w] = claimed[w] /\ confirmed'[w] = confirmed[w]
  PROVE  OutboxInv'
  <1> USE DEF OutboxInv
  <1>1. Heard' = Heard /\ status' = status /\ nextId' = nextId
    BY DEF Heard
  <1>2. Serial'
    BY <1>1 DEF Serial
  <1>3. ClaimsDisjoint'
    BY DEF ClaimsDisjoint
  <1>4. Claims'
    BY <1>1 DEF Claims
  <1>5. Wires'
    BY <1>1 DEF Wires, Unsent
  <1> QED
    BY <1>2, <1>3, <1>4, <1>5

LEMMA ScanInv ==
  ASSUME OutboxInv, NEW w \in Workers, NEW e \in Ids, Scan(w, e)
  PROVE  OutboxInv'
  <1> USE DEF OutboxInv
  <1>1. TypeOK'
    BY DEF Scan, TypeOK, rowVars, brokerVars
  <1>2. /\ claimed'[w] \subseteq claimed[w] \cup {e}
        /\ e \in claimed'[w] => e \in claimed[w] \/ Takable(w, e)
        /\ \A v \in Workers \ {w} : claimed'[v] = claimed[v]
    BY DEF Scan, TypeOK
  <1>3. ~wire[w] /\ wire' = wire /\ confirmed' = confirmed /\ wpc' = wpc
    BY DEF Scan, Wires, TypeOK
  <1>4. \A v \in Workers \ {w} : claimed'[w] \cap claimed[v] = {}
    BY <1>2 DEF Takable, Held, ClaimsDisjoint
  <1>5. \A d \in claimed'[w] : status[d] = "pending"
    BY <1>2 DEF Takable, Claims
  <1>6. confirmed'[w] \subseteq claimed'[w] \cap Heard
    BY <1>3 DEF Scan, Claims, TypeOK
  <1>7. UNCHANGED <<status, nextId, heard>>
    BY DEF Scan, brokerVars
  <1> QED
    BY <1>1, <1>2, <1>3, <1>4, <1>5, <1>6, <1>7, WorkerInv

LEMMA ConfirmInv ==
  ASSUME OutboxInv, NEW w \in Workers, NEW e \in Ids, Confirm(w, e)
  PROVE  OutboxInv'
  <1> USE DEF OutboxInv
  <1>1. TypeOK'
    BY DEF Confirm, TypeOK, rowVars, brokerVars
  <1>2. e \in claimed[w] /\ e \in Heard
    BY DEF Confirm, First, Unsent, Wires
  <1>3. /\ claimed' = claimed /\ confirmed'[w] = confirmed[w] \cup {e}
        /\ ~wire'[w]
        /\ \A v \in Workers \ {w} :
             confirmed'[v] = confirmed[v] /\ wpc'[v] = wpc[v] /\ wire'[v] = wire[v]
    BY DEF Confirm, TypeOK
  <1>4. UNCHANGED <<status, nextId, heard>>
    BY DEF Confirm, rowVars, brokerVars
  <1>5. \A v \in Workers \ {w} : claimed'[w] \cap claimed[v] = {}
    BY <1>3 DEF ClaimsDisjoint
  <1>6. \A d \in claimed'[w] : status[d] = "pending"
    BY <1>3 DEF Claims
  <1>7. confirmed'[w] \subseteq claimed'[w] \cap Heard
    BY <1>2, <1>3 DEF Claims
  <1> QED
    BY <1>1, <1>3, <1>4, <1>5, <1>6, <1>7, WorkerInv

\* The drain's other steps leave its claim and its confirmations as they are.
LEMMA QuietInv ==
  ASSUME OutboxInv, NEW w \in Workers,
         \/ StartDrain(w) \/ EndScan(w) \/ \E e \in Ids : Reject(w, e)
  PROVE  OutboxInv'
  <1> USE DEF OutboxInv
  <1>1. TypeOK'
    <2>1. CASE StartDrain(w)
      BY <2>1 DEF StartDrain, TypeOK, rowVars, brokerVars
    <2>2. CASE EndScan(w)
      BY <2>2 DEF EndScan, TypeOK, rowVars, brokerVars
    <2>3. ASSUME NEW e \in Ids, Reject(w, e) PROVE TypeOK'
      BY <2>3 DEF Reject, TypeOK, rowVars, brokerVars
    <2> QED
      BY <2>1, <2>2, <2>3
  <1>2. /\ UNCHANGED <<status, nextId, heard, claimed, confirmed>>
        /\ \A v \in Workers \ {w} : wpc'[v] = wpc[v] /\ wire'[v] = wire[v]
    BY DEF StartDrain, EndScan, Reject, rowVars, brokerVars, TypeOK
  <1>3. ~wire'[w]
    BY DEF StartDrain, EndScan, Reject, Wires, TypeOK
  <1>4. \A v \in Workers \ {w} : claimed'[w] \cap claimed[v] = {}
    BY <1>2 DEF ClaimsDisjoint
  <1>5. /\ \A d \in claimed'[w] : status[d] = "pending"
        /\ confirmed'[w] \subseteq claimed'[w] \cap Heard
    BY <1>2 DEF Claims
  <1> QED
    BY <1>1, <1>2, <1>3, <1>4, <1>5, WorkerInv

LEMMA ArriveInv ==
  ASSUME OutboxInv, NEW w \in Workers, NEW e \in Ids, Arrive(w, e)
  PROVE  OutboxInv'
  <1> USE DEF OutboxInv
  <1>1. heard' \in Seq(Ids) /\ Heard' = Heard \cup {e}
    BY HeardAfterAppend DEF Arrive, TypeOK
  <1>2. TypeOK'
    BY <1>1 DEF Arrive, TypeOK, rowVars
  <1>3. UNCHANGED <<rowVars, claimed, confirmed, wpc>>
    BY DEF Arrive
  <1>4. Serial' /\ ClaimsDisjoint'
    BY <1>3 DEF Serial, ClaimsDisjoint, rowVars
  <1>5. Claims'
    BY <1>1, <1>3 DEF Claims, rowVars
  <1>6. Wires'
    <2> SUFFICES ASSUME NEW v \in Workers, wire'[v]
                 PROVE  /\ wpc[v] = "publishing"
                        /\ \A d \in Ids : First(Unsent(v), d) => d \in Heard'
      BY <1>3 DEF Wires, Unsent
    <2>1. CASE v = w
      BY <1>1, <2>1, FirstIsUnique DEF Arrive, TypeOK, Unsent
    <2>2. CASE v # w
      BY <1>1, <2>2 DEF Arrive, Wires, TypeOK
    <2> QED
      BY <2>1, <2>2
  <1> QED
    BY <1>2, <1>4, <1>5, <1>6

LEMMA NextInv == OutboxInv /\ [Next]_vars => OutboxInv'
  <1> SUFFICES ASSUME OutboxInv, [Next]_vars PROVE OutboxInv'
    OBVIOUS
  <1>1. ASSUME NEW w \in Workers, Mark(w) PROVE OutboxInv'
    <2>1. /\ status' \in [Ids -> Status] /\ attempts' \in [Ids -> Nat]
          /\ faults' \in Nat
          /\ UNCHANGED <<aggregate, locked, nextId, skipped, brokerVars>>
      BY <1>1 DEF Mark, OutboxInv, TypeOK, Status
    <2>2. \A e \in Ids : status'[e] # status[e] =>
                           e \in confirmed[w] /\ status'[e] = "dispatched"
      BY <1>1 DEF Mark, OutboxInv, TypeOK
    <2> QED
      BY <1>1, <2>1, <2>2, EndDrainInv DEF Mark
  <1>2. ASSUME NEW w \in Workers, Crash(w) PROVE OutboxInv'
    <2>1. /\ status' \in [Ids -> Status] /\ attempts' \in [Ids -> Nat]
          /\ faults' \in Nat /\ status' = status
          /\ UNCHANGED <<aggregate, locked, nextId, skipped, brokerVars>>
      BY <1>2 DEF Crash, OutboxInv, TypeOK, rowVars
    <2> QED
      BY <1>2, <2>1, EndDrainInv DEF Crash
  <1>3. CASE Disconnect \/ Reconnect
    <2>1. /\ UNCHANGED <<rowVars, wpc, claimed, confirmed, heard>>
          /\ \A w \in Workers : wire'[w] => wire[w]
      BY <1>3 DEF Disconnect, Reconnect, workerVars
    <2>2. TypeOK'
      <3>1. CASE Disconnect
        <4>1. up' \in BOOLEAN /\ wire' \in [Workers -> BOOLEAN]
          BY <3>1 DEF Disconnect
        <4>2. faults' \in Nat
          BY <3>1 DEF Disconnect, OutboxInv, TypeOK
        <4> QED
          BY <3>1, <4>1, <4>2 DEF Disconnect, OutboxInv, TypeOK, rowVars
      <3>2. CASE Reconnect
        BY <3>2 DEF Reconnect, OutboxInv, TypeOK, rowVars, workerVars
      <3> QED
        BY <1>3, <3>1, <3>2
    <2>3. Heard' = Heard /\ \A w \in Workers : Unsent(w)' = Unsent(w)
      BY <2>1 DEF Heard, Unsent
    <2>4. Serial' /\ ClaimsDisjoint' /\ Claims'
      BY <2>1, <2>3 DEF OutboxInv, Serial, ClaimsDisjoint, Claims, rowVars
    <2>5. Wires'
      <3> SUFFICES ASSUME NEW w \in Workers, wire'[w]
                   PROVE  /\ wpc'[w] = "publishing"
                          /\ \A e \in Ids : First(Unsent(w)', e) => e \in Heard'
        BY DEF Wires, First
      <3> QED
        BY <2>1, <2>3 DEF OutboxInv, Wires
    <2> QED
      BY <2>2, <2>4, <2>5 DEF OutboxInv
  <1>4. CASE UNCHANGED vars
    <2>1. TypeOK'
      BY <1>4 DEF vars, rowVars, workerVars, brokerVars, OutboxInv, TypeOK
    <2>2. Serial' /\ ClaimsDisjoint'
      BY <1>4 DEF vars, rowVars, workerVars, OutboxInv, Serial, ClaimsDisjoint
    <2>3. Claims' /\ Wires'
      BY <1>4 DEF vars, rowVars, workerVars, brokerVars, OutboxInv, Claims, Wires,
                  Heard, Unsent, First
    <2> QED
      BY <2>1, <2>2, <2>3 DEF OutboxInv
  <1>5. ASSUME NEW w \in Workers, Drain(w) PROVE OutboxInv'
    <2>1. CASE \E e \in Ids : Scan(w, e) \/ Arrive(w, e) \/ Confirm(w, e)
      BY <2>1, ScanInv, ArriveInv, ConfirmInv
    <2>2. CASE StartDrain(w) \/ EndScan(w)
      BY <2>2, QuietInv
    <2> QED
      BY <1>1, <1>5, <2>1, <2>2 DEF Drain
  <1>6. ASSUME NEW w \in Workers, \E e \in Ids : Reject(w, e) PROVE OutboxInv'
    BY <1>6, QuietInv
  <1>7. CASE Produce
    BY <1>7, ProduceInv
  <1> QED
    BY <1>2, <1>3, <1>4, <1>5, <1>6, <1>7 DEF Next, Fault

LEMMA Invariance == Spec => []OutboxInv
  BY InitInv, NextInv, PTL DEF Spec

\* Every variable keeps to its kind, for any number of workers and events.
THEOREM OutboxTypeCorrect == Spec => []TypeOK
  <1>1. OutboxInv => TypeOK
    BY DEF OutboxInv
  <1> QED
    BY <1>1, Invariance, PTL

\* No two drains ever hold the same row (claimBatch: FOR UPDATE SKIP LOCKED).
THEOREM ClaimsExclusive == Spec => []ClaimsDisjoint
  <1>1. OutboxInv => ClaimsDisjoint
    BY DEF OutboxInv
  <1> QED
    BY <1>1, Invariance, PTL

-----------------------------------------------------------------------------
(* Outbox implements EventRelay.                                           *)

recordedNow == {e \in Ids : status[e] \in {"pending", "dispatched"}}
settledNow == {e \in Ids : status[e] = "dispatched"}

\* Inserting and rolling back are invisible; a commit records.
LEMMA ProduceRelays ==
  ASSUME OutboxInv, Produce
  PROVE  [Relay!Next]_(Relay!vars)
  <1>1. Heard' = Heard
    BY DEF Produce, Insert, CommitTx, RollbackTx, Heard, brokerVars
  <1>2. ASSUME NEW e \in Ids, Insert(e) \/ RollbackTx(e)
        PROVE  UNCHANGED Relay!vars
    <2>1. status[e] \in {"absent", "open"}
      BY <1>2, IdsAreNumbers DEF Insert, RollbackTx, OutboxInv, Serial, TypeOK
    <2>2. /\ status'[e] \in {"open", "rolledback"}
          /\ \A d \in Ids \ {e} : status'[d] = status[d]
      BY <1>2 DEF Insert, RollbackTx, OutboxInv, TypeOK
    <2>3. recordedNow' = recordedNow /\ settledNow' = settledNow
      BY <2>1, <2>2 DEF recordedNow, settledNow
    <2> QED
      BY <1>1, <2>3 DEF Relay!vars, recordedNow, settledNow
  <1>3. ASSUME NEW e \in Ids, CommitTx(e) PROVE Relay!Record(e)
    <2>1. /\ status[e] = "open" /\ status'[e] = "pending"
          /\ \A d \in Ids \ {e} : status'[d] = status[d]
      BY <1>3 DEF CommitTx, OutboxInv, TypeOK
    <2>2. e \notin recordedNow /\ recordedNow' = recordedNow \cup {e}
          /\ settledNow' = settledNow
      BY <2>1 DEF recordedNow, settledNow
    <2> QED
      BY <1>1, <2>2 DEF Relay!Record, recordedNow, settledNow
  <1> QED
    BY <1>2, <1>3 DEF Produce, Relay!Next

\* A message that arrives is one of a claimed row, and claimed rows are
\* committed.
LEMMA ArriveDelivers ==
  ASSUME OutboxInv, NEW w \in Workers, NEW e \in Ids, Arrive(w, e)
  PROVE  Relay!Deliver(e)
  <1>1. Heard' = Heard \cup {e}
    BY HeardAfterAppend DEF Arrive, OutboxInv, TypeOK
  <1>2. e \in recordedNow
    BY DEF Arrive, First, Unsent, OutboxInv, Claims, recordedNow
  <1>3. recordedNow' = recordedNow /\ settledNow' = settledNow
    BY DEF Arrive, rowVars, recordedNow, settledNow
  <1> QED
    BY <1>1, <1>2, <1>3 DEF Relay!Deliver, recordedNow, settledNow

\* Marking settles what the drain confirmed, all of which was heard.
LEMMA MarkSettles ==
  ASSUME OutboxInv, NEW w \in Workers, Mark(w)
  PROVE  Relay!Settle(confirmed[w]) /\ confirmed[w] \in SUBSET Ids
  <1>1. confirmed[w] \subseteq Heard /\ confirmed[w] \subseteq recordedNow
        /\ confirmed[w] \subseteq Ids
    BY DEF OutboxInv, Claims, recordedNow, TypeOK
  <1>2. Heard' = Heard
    BY DEF Mark, brokerVars, Heard
  <1>3. \A e \in Ids :
          status'[e] = IF e \in confirmed[w] THEN "dispatched" ELSE status[e]
    BY DEF Mark
  <1>4. recordedNow' = recordedNow /\ settledNow' = settledNow \cup confirmed[w]
    BY <1>1, <1>3 DEF recordedNow, settledNow
  <1> QED
    BY <1>1, <1>2, <1>4 DEF Relay!Settle, recordedNow, settledNow

\* Every other step leaves the rows and the exchange alone.
LEMMA RestIsSilent ==
  ASSUME UNCHANGED <<status, heard>>
  PROVE  UNCHANGED Relay!vars
  BY DEF Relay!vars, Heard

LEMMA RelayStep == OutboxInv /\ [Next]_vars => [Relay!Next]_(Relay!vars)
  <1> SUFFICES ASSUME OutboxInv, [Next]_vars PROVE [Relay!Next]_(Relay!vars)
    OBVIOUS
  <1>1. CASE Produce
    BY <1>1, ProduceRelays
  <1>2. ASSUME NEW w \in Workers, NEW e \in Ids, Arrive(w, e) PROVE Relay!Next
    BY <1>2, ArriveDelivers DEF Relay!Next
  <1>3. ASSUME NEW w \in Workers, Mark(w) PROVE Relay!Next
    <2>1. Relay!Settle(confirmed[w]) /\ confirmed[w] \in SUBSET Ids
      BY <1>3, MarkSettles
    <2>2. \E S \in SUBSET Ids : Relay!Settle(S)
      BY <2>1 DEF Relay!Settle
    <2> QED
      BY <2>2 DEF Relay!Next
  <1>4. ASSUME NEW w \in Workers, NEW e \in Ids,
               Scan(w, e) \/ Confirm(w, e) \/ Reject(w, e)
        PROVE  UNCHANGED Relay!vars
    BY <1>4, RestIsSilent DEF Scan, Confirm, Reject, rowVars, brokerVars
  <1>5. ASSUME NEW w \in Workers, StartDrain(w) \/ EndScan(w) \/ Crash(w)
        PROVE  UNCHANGED Relay!vars
    BY <1>5, RestIsSilent DEF StartDrain, EndScan, Crash, rowVars, brokerVars
  <1>6. CASE Disconnect \/ Reconnect \/ UNCHANGED vars
    BY <1>6, RestIsSilent DEF Disconnect, Reconnect, vars, rowVars, brokerVars
  <1> QED
    BY <1>1, <1>2, <1>3, <1>4, <1>5, <1>6 DEF Next, Drain, Fault

\* The outbox is an at-least-once relay: no event of an uncommitted change is
\* heard, and none is marked that was not.
THEOREM OutboxIsRelay == Spec => IsRelay
  <1>1. Init => Relay!Init
    BY DEF Init, Relay!Init, Heard
  <1> QED
    BY <1>1, RelayStep, Invariance, PTL DEF Spec, IsRelay, Relay!Spec
-----------------------------------------------------------------------------
(* The order in which consumers hear the changes of one row.               *)

\* Of two changes of one row, the later was inserted when the earlier's
\* transaction had ended.
Before(d, e) ==
  d < e /\ e < nextId /\ aggregate[d] = aggregate[e] /\ locked[d] /\ locked[e]

LocksSerialize == \A d, e \in Ids : Before(d, e) => status[d] # "open"

\* A drain that has yet to examine the later change, or has it, has the earlier
\* one too while that is pending, unless it was passed over.
ScansInOrder ==
  \A w \in Workers : \A d, e \in Ids : Before(d, e) /\ status[d] = "pending" =>
    /\ e \in snapshot[w] => d \in snapshot[w] \cup claimed[w] \cup skipped
    /\ e \in claimed[w] => d \in claimed[w] \cup skipped

Snapshots == \A w \in Workers : \A e \in snapshot[w] : e < nextId

MarkedWasHeard == \A e \in Ids : status[e] = "dispatched" => e \in Heard

OrderInv ==
  /\ LocksSerialize /\ ScansInOrder /\ Snapshots /\ MarkedWasHeard
  /\ \A e \in Heard : e < nextId
  /\ DisorderNeedsTwoDrains

LEMMA InitOrder == Init => OrderInv
  BY DEF Init, OrderInv, LocksSerialize, ScansInOrder, Snapshots, MarkedWasHeard, Heard,
         DisorderNeedsTwoDrains

\* Nothing new is heard.
LEMMA SameHeard ==
  ASSUME DisorderNeedsTwoDrains, UNCHANGED <<heard, aggregate, locked>>,
         skipped \subseteq skipped',
         \A e \in Ids, j \in DOMAIN heard :
           e < heard[j] /\ status'[e] # "rolledback" => status[e] # "rolledback"
  PROVE  DisorderNeedsTwoDrains'
  BY DEF DisorderNeedsTwoDrains

LEMMA ProduceOrder ==
  ASSUME OutboxInv, OrderInv, Produce
  PROVE  OrderInv'
  <1> USE DEF OrderInv, OutboxInv
  <1>1. /\ UNCHANGED <<workerVars, brokerVars, aggregate, locked, skipped>>
        /\ Heard' = Heard /\ nextId' \in Nat /\ nextId <= nextId' /\ nextId \in Nat
    BY DEF Produce, Insert, CommitTx, RollbackTx, TypeOK, Heard, brokerVars
  <1>2. ASSUME NEW e \in Ids, Insert(e) PROVE OrderInv'
    <2>1. status[e] = "absent" /\ e = nextId /\ nextId' = nextId + 1
          /\ status' = [status EXCEPT ![e] = "open"]
      BY <1>2, IdsAreNumbers DEF Insert, Serial, TypeOK
    <2>2. LocksSerialize'
      <3> SUFFICES ASSUME NEW c \in Ids, NEW d \in Ids, Before(c, d)', status'[c] = "open"
                   PROVE  FALSE
        BY DEF LocksSerialize
      <3>1. c < d /\ d <= e /\ c \in Nat /\ d \in Nat
        BY <2>1, IdsAreNumbers DEF Before
      <3>2. c # e /\ status[c] = "open"
        BY <2>1, <3>1, IdsAreNumbers DEF TypeOK
      <3>3. CASE d = e
        BY <1>1, <1>2, <3>2, <3>3 DEF Insert, Before
      <3>4. CASE d # e
        BY <1>1, <2>1, <3>1, <3>2, <3>4, IdsAreNumbers DEF Before, LocksSerialize
      <3> QED
        BY <3>3, <3>4
    <2>3. ScansInOrder'
      <3> SUFFICES ASSUME NEW w \in Workers, NEW c \in Ids, NEW d \in Ids,
                          Before(c, d)', status'[c] = "pending",
                          d \in snapshot[w] \cup claimed[w]
                   PROVE  /\ d \in snapshot[w] => c \in snapshot[w] \cup claimed[w] \cup skipped
                          /\ d \in claimed[w] => c \in claimed[w] \cup skipped
        BY <1>1 DEF ScansInOrder, workerVars
      <3>1. status[c] = "pending"
        BY <2>1 DEF TypeOK
      <3>2. d < nextId
        BY <2>1, IdsAreNumbers DEF Snapshots, Claims, Serial, TypeOK
      <3> QED
        BY <1>1, <3>1, <3>2 DEF Before, ScansInOrder
    <2>4. Snapshots' /\ (\A d \in Heard' : d < nextId')
      <3>1. Heard \subseteq Nat
        <4>1. \A i \in DOMAIN heard : heard[i] \in Ids
          BY DEF TypeOK
        <4> QED
          BY <4>1, IdsAreNumbers DEF Heard
      <3>2. \A w \in Workers : snapshot[w] \subseteq Nat
        BY IdsAreNumbers DEF TypeOK
      <3> QED
        BY <1>1, <2>1, <3>1, <3>2 DEF Snapshots, workerVars
    <2>5. MarkedWasHeard'
      BY <1>1, <2>1 DEF MarkedWasHeard, TypeOK
    <2>6. DisorderNeedsTwoDrains'
      BY <1>1, <2>1, SameHeard DEF TypeOK, brokerVars
    <2> QED
      BY <2>2, <2>3, <2>4, <2>5, <2>6
  <1>3. ASSUME NEW e \in Ids, CommitTx(e) \/ RollbackTx(e) PROVE OrderInv'
    <2>1. /\ status[e] = "open" /\ nextId' = nextId /\ e < nextId
          /\ \A d \in Ids \ {e} : status'[d] = status[d]
          /\ status'[e] # "open" /\ status'[e] # "dispatched"
      BY <1>3, IdsAreNumbers DEF CommitTx, RollbackTx, Serial, TypeOK
    <2>2. LocksSerialize' /\ MarkedWasHeard' /\ Snapshots'
      BY <1>1, <2>1 DEF LocksSerialize, Before, MarkedWasHeard, Snapshots, workerVars
    <2>3. ScansInOrder'
      BY <1>1, <2>1 DEF ScansInOrder, LocksSerialize, Before, workerVars
    <2>4. DisorderNeedsTwoDrains'
      <3>1. ASSUME NEW j \in DOMAIN heard, e < heard[j],
                   aggregate[e] = aggregate[heard[j]], locked[e], locked[heard[j]]
            PROVE  FALSE
        <4>1. heard[j] \in Ids /\ heard[j] \in Heard
          BY DEF TypeOK, Heard
        <4> QED
          BY <2>1, <3>1, <4>1 DEF LocksSerialize, Before
      <3> QED
        BY <1>1, <2>1, <3>1 DEF DisorderNeedsTwoDrains, brokerVars
    <2> QED
      BY <1>1, <2>1, <2>2, <2>3, <2>4
  <1> QED
    BY <1>2, <1>3 DEF Produce

\* A drain goes on or ends: rows may become dispatched that were heard.
LEMMA DrainOrder ==
  ASSUME OutboxInv, OrderInv, UNCHANGED <<aggregate, locked, nextId, heard>>,
         skipped \subseteq skipped',
         \A e \in Ids : \/ status'[e] = status[e]
                        \/ /\ status[e] = "pending" /\ status'[e] = "dispatched"
                           /\ e \in Heard,
         ScansInOrder', Snapshots'
  PROVE  OrderInv'
  <1> USE DEF OrderInv
  <1>1. LocksSerialize' /\ MarkedWasHeard' /\ Heard' = Heard
    BY DEF LocksSerialize, Before, MarkedWasHeard, Heard
  <1>2. DisorderNeedsTwoDrains'
    BY SameHeard
  <1>3. \A e \in Heard : e < nextId'
    OBVIOUS
  <1> QED
    BY <1>1, <1>2, <1>3

LEMMA ScanOrder ==
  ASSUME OutboxInv, OrderInv, NEW w \in Workers, NEW f \in Ids, Scan(w, f)
  PROVE  OrderInv'
  <1> USE DEF OrderInv, OutboxInv
  <1>1. /\ UNCHANGED <<status, aggregate, locked, nextId, heard>>
        /\ First(snapshot[w], f)
        /\ skipped' = skipped \cup (IF Held(w, f) THEN {f} ELSE {})
        /\ \A v \in Workers : v # w => snapshot'[v] = snapshot[v] /\ claimed'[v] = claimed[v]
        /\ snapshot'[w] = snapshot[w] \ {f}
        /\ claimed'[w] = claimed[w] \cup (IF Takable(w, f) THEN {f} ELSE {})
    BY DEF Scan, brokerVars, TypeOK
  <1>2. ScansInOrder'
    <2> SUFFICES ASSUME NEW v \in Workers, NEW d \in Ids, NEW e \in Ids,
                        Before(d, e), status[d] = "pending"
                 PROVE  /\ e \in snapshot'[v] => d \in snapshot'[v] \cup claimed'[v] \cup skipped'
                        /\ e \in claimed'[v] => d \in claimed'[v] \cup skipped'
      BY <1>1 DEF ScansInOrder, Before
    <2>1. CASE v # w
      BY <1>1, <2>1 DEF ScansInOrder
    <2>2. CASE v = w
      <3>1. d = f => d \in claimed'[w] \cup skipped'
        BY <1>1 DEF Takable
      <3>2. e = f => d \notin snapshot[w]
        BY <1>1, IdsAreNumbers DEF First, Before
      <3>3. e \in claimed'[w] => e \in claimed[w] \/ e = f
        BY <1>1
      <3> QED
        BY <1>1, <2>2, <3>1, <3>2, <3>3 DEF ScansInOrder, First
    <2> QED
      BY <2>1, <2>2
  <1>3. Snapshots'
    BY <1>1 DEF Snapshots
  <1> QED
    BY <1>1, <1>2, <1>3, DrainOrder

\* The message that arrives is that of the first row still to be sent.
LEMMA ArriveOrder ==
  ASSUME OutboxInv, OrderInv, NEW w \in Workers, NEW f \in Ids, Arrive(w, f)
  PROVE  OrderInv'
  <1> USE DEF OrderInv, OutboxInv
  <1>1. UNCHANGED <<rowVars, snapshot, claimed, confirmed>> /\ First(Unsent(w), f)
    BY DEF Arrive
  <1>2. heard' \in Seq(Ids) /\ Heard' = Heard \cup {f}
    BY HeardAfterAppend DEF Arrive, TypeOK
  <1>3. /\ DOMAIN heard = 1..Len(heard) /\ DOMAIN heard' = 1..(Len(heard) + 1)
        /\ Len(heard) \in Nat /\ heard'[Len(heard) + 1] = f
        /\ \A i \in 1..Len(heard) : heard'[i] = heard[i]
    BY DEF Arrive, TypeOK
  <1>4. f \in claimed[w] /\ status[f] = "pending" /\ f < nextId
    BY <1>1, IdsAreNumbers DEF First, Unsent, Claims, Serial, TypeOK
  <1>5. ASSUME NEW e \in Ids, Before(e, f), status[e] # "rolledback", e \notin skipped
        PROVE  e \in Heard
    <2>1. status[e] \in {"pending", "dispatched"}
      <3>1. status[e] \in Status /\ status[e] # "open"
        BY <1>5 DEF TypeOK, LocksSerialize
      <3>2. status[e] # "absent"
        BY <1>5, IdsAreNumbers DEF Before, Serial, TypeOK
      <3> QED
        BY <1>5, <3>1, <3>2 DEF Status
    <2>2. CASE status[e] = "dispatched"
      BY <2>2 DEF MarkedWasHeard
    <2>3. CASE status[e] = "pending"
      <3>1. e \in claimed[w]
        BY <1>4, <1>5, <2>3 DEF ScansInOrder
      <3>2. e \in confirmed[w]
        BY <1>1, <1>5, <3>1, IdsAreNumbers DEF First, Unsent, Before
      <3> QED
        BY <3>2 DEF Claims
    <2> QED
      BY <2>1, <2>2, <2>3
  <1>6. DisorderNeedsTwoDrains'
    <2> SUFFICES ASSUME NEW j \in DOMAIN heard', NEW e \in Ids, e < heard'[j],
                        aggregate[e] = aggregate[heard'[j]], locked[e], locked[heard'[j]],
                        status[e] # "rolledback", e \notin skipped
                 PROVE  \E i \in 1..(j - 1) : heard'[i] = e
      BY <1>1 DEF DisorderNeedsTwoDrains, rowVars
    <2>1. CASE j \in 1..Len(heard)
      <3>1. PICK i \in 1..(j - 1) : heard[i] = e
        BY <1>3, <2>1 DEF DisorderNeedsTwoDrains
      <3> QED
        BY <1>3, <2>1, <3>1
    <2>2. CASE j = Len(heard) + 1
      <3>1. e \in Heard
        BY <1>3, <1>4, <1>5, <2>2 DEF Before
      <3>2. PICK i \in DOMAIN heard : heard[i] = e
        BY <3>1 DEF Heard
      <3> QED
        BY <1>3, <2>2, <3>2
    <2> QED
      BY <1>3, <2>1, <2>2
  <1>7. LocksSerialize' /\ ScansInOrder' /\ Snapshots'
    BY <1>1 DEF LocksSerialize, ScansInOrder, Snapshots, Before, rowVars
  <1>8. MarkedWasHeard' /\ \A e \in Heard' : e < nextId'
    BY <1>1, <1>2, <1>4 DEF MarkedWasHeard, rowVars
  <1> QED
    BY <1>6, <1>7, <1>8

LEMMA NextOrder == OutboxInv /\ OrderInv /\ [Next]_vars => OrderInv'
  <1> SUFFICES ASSUME OutboxInv, OrderInv, [Next]_vars PROVE OrderInv'
    OBVIOUS
  <1>1. ASSUME NEW w \in Workers, StartDrain(w) PROVE OrderInv'
    <2>1. /\ UNCHANGED <<status, aggregate, locked, nextId, heard, skipped, claimed>>
          /\ \A v \in Workers : v # w => snapshot'[v] = snapshot[v]
          /\ snapshot'[w] = {e \in Ids : status[e] = "pending"}
      BY <1>1 DEF StartDrain, rowVars, brokerVars, OutboxInv, TypeOK
    <2>2. ScansInOrder'
      BY <2>1 DEF OrderInv, ScansInOrder, Before
    <2>3. Snapshots'
      <3>1. \A e \in Ids : status[e] = "pending" => e < nextId
        BY IdsAreNumbers DEF OutboxInv, Serial, TypeOK
      <3>2. \A v \in Workers : \A e \in snapshot'[v] : e < nextId
        BY <2>1, <3>1 DEF OrderInv, Snapshots
      <3> QED
        BY <2>1, <3>2 DEF Snapshots
    <2> QED
      BY <2>1, <2>2, <2>3, DrainOrder
  <1>2. ASSUME UNCHANGED <<aggregate, locked, nextId, heard, skipped>>,
               \A w \in Workers : \/ snapshot'[w] = snapshot[w] /\ claimed'[w] = claimed[w]
                                  \/ snapshot'[w] = {} /\ claimed'[w] = {},
               \A e \in Ids : \/ status'[e] = status[e]
                              \/ /\ status[e] = "pending" /\ status'[e] = "dispatched"
                                 /\ e \in Heard
        PROVE  OrderInv'
    <2>1. Snapshots'
      BY <1>2 DEF OrderInv, Snapshots
    <2>2. ScansInOrder'
      <3> SUFFICES ASSUME NEW v \in Workers, NEW d \in Ids, NEW e \in Ids,
                          Before(d, e), status'[d] = "pending"
                   PROVE  /\ e \in snapshot'[v] => d \in snapshot'[v] \cup claimed'[v] \cup skipped
                          /\ e \in claimed'[v] => d \in claimed'[v] \cup skipped
        BY <1>2 DEF ScansInOrder, Before
      <3>1. status[d] = "pending"
        BY <1>2
      <3> QED
        BY <1>2, <3>1 DEF OrderInv, ScansInOrder
    <2> QED
      BY <1>2, <2>1, <2>2, DrainOrder
  <1>3. ASSUME NEW w \in Workers, Mark(w) \/ Crash(w) PROVE OrderInv'
    <2>1. EndDrain(w) /\ UNCHANGED <<aggregate, locked, nextId, heard, skipped>>
      BY <1>3 DEF Mark, Crash, rowVars, brokerVars
    <2>2. \A v \in Workers : \/ snapshot'[v] = snapshot[v] /\ claimed'[v] = claimed[v]
                             \/ snapshot'[v] = {} /\ claimed'[v] = {}
      <3>1. DOMAIN snapshot = Workers /\ DOMAIN claimed = Workers
        BY DEF OutboxInv, TypeOK
      <3>2. /\ snapshot' = [snapshot EXCEPT ![w] = {}]
            /\ claimed' = [claimed EXCEPT ![w] = {}]
        BY <2>1 DEF EndDrain
      <3> QED
        BY <3>1, <3>2
    <2>3. \A e \in Ids : \/ status'[e] = status[e]
                         \/ e \in confirmed[w] /\ status'[e] = "dispatched"
      <3>1. CASE Mark(w)
        <4>1. status' = [e \in Ids |-> IF e \in confirmed[w] THEN "dispatched" ELSE status[e]]
          BY <3>1 DEF Mark
        <4> QED
          BY <4>1
      <3>2. CASE Crash(w)
        <4>1. status' = status
          BY <3>2 DEF Crash, rowVars
        <4> QED
          BY <4>1
      <3> QED
        BY <1>3, <3>1, <3>2
    <2>4. \A e \in confirmed[w] : status[e] = "pending" /\ e \in Heard
      BY DEF OutboxInv, Claims
    <2> QED
      BY <1>2, <2>1, <2>2, <2>3, <2>4
  <1>4. ASSUME NEW w \in Workers,
               EndScan(w) \/ \E e \in Ids : Confirm(w, e) \/ Reject(w, e)
        PROVE  OrderInv'
    <2>1. UNCHANGED <<status, aggregate, locked, nextId, heard, skipped, claimed>>
      BY <1>4 DEF EndScan, Confirm, Reject, rowVars, brokerVars
    <2>2. \A v \in Workers : snapshot'[v] = snapshot[v] \/ snapshot'[v] = {}
      BY <1>4 DEF EndScan, Confirm, Reject, OutboxInv, TypeOK
    <2>3. ScansInOrder' /\ Snapshots'
      BY <2>1, <2>2 DEF OrderInv, ScansInOrder, Snapshots, Before
    <2> QED
      BY <2>1, <2>3, DrainOrder
  <1>5. CASE Disconnect \/ Reconnect \/ UNCHANGED vars
    <2>1. UNCHANGED <<status, aggregate, locked, nextId, heard, skipped, claimed, snapshot>>
      BY <1>5 DEF Disconnect, Reconnect, vars, rowVars, workerVars, brokerVars
    <2>2. ScansInOrder' /\ Snapshots'
      BY <2>1 DEF OrderInv, ScansInOrder, Snapshots, Before
    <2> QED
      BY <2>1, <2>2, DrainOrder
  <1> QED
    BY <1>1, <1>3, <1>4, <1>5, ProduceOrder, ScanOrder, ArriveOrder DEF Next, Drain, Fault

\* The changes of one row are first heard in the order of their commits, unless
\* a drain passed over the earlier one while another drain had it.
THEOREM DisorderTakesTwoDrains == Spec => []DisorderNeedsTwoDrains
  <1>1. OrderInv => DisorderNeedsTwoDrains
    BY DEF OrderInv
  <1> QED
    BY <1>1, InitOrder, NextOrder, Invariance, PTL DEF Spec

-----------------------------------------------------------------------------
(* Copies.  An event that was heard once without a fault is on its way to   *)
(* being marked, and is not sent again; only a fault makes a drain forget   *)
(* where it was.                                                            *)

At(e) == {i \in DOMAIN heard : heard[i] = e}

\* The event is dispatched, or confirmed to a drain that will mark it, or on
\* the wire of one that waits for the confirm.
Spoken(e) ==
  \/ status[e] = "dispatched"
  \/ \E w \in Workers : e \in confirmed[w] \/ (wire[w] /\ First(Unsent(w), e))

CopyInv ==
  \A e \in Ids : Cardinality(At(e)) <= faults + (IF Spoken(e) THEN 1 ELSE 0)

LEMMA AtIsFinite ==
  ASSUME heard \in Seq(Ids), NEW e
  PROVE  IsFiniteSet(At(e)) /\ Cardinality(At(e)) \in Nat
  <1>1. IsFiniteSet(1..Len(heard)) /\ At(e) \in SUBSET (1..Len(heard))
    BY FS_Interval DEF At
  <1> QED
    BY <1>1, FS_Subset, FS_CardinalityType

LEMMA AtAfterAppend ==
  ASSUME heard \in Seq(Ids), NEW d \in Ids, NEW e \in Ids, heard' = Append(heard, e)
  PROVE  /\ d = e => Cardinality(At(d)') = Cardinality(At(d)) + 1
         /\ d # e => Cardinality(At(d)') = Cardinality(At(d))
  <1>1. /\ DOMAIN heard = 1..Len(heard) /\ DOMAIN heard' = 1..(Len(heard) + 1)
        /\ Len(heard) \in Nat /\ heard'[Len(heard) + 1] = e
        /\ \A i \in 1..Len(heard) : heard'[i] = heard[i]
    OBVIOUS
  <1>2. CASE d = e
    <2>1. At(d)' = At(d) \cup {Len(heard) + 1} /\ Len(heard) + 1 \notin At(d)
      BY <1>1, <1>2 DEF At
    <2> QED
      BY <1>2, <2>1, AtIsFinite, FS_AddElement
  <1>3. CASE d # e
    <2>1. At(d)' = At(d)
      BY <1>1, <1>3 DEF At
    <2> QED
      BY <1>3, <2>1
  <1> QED
    BY <1>2, <1>3

\* Nothing but a fault makes an event unspoken.
LEMMA SpokenStays ==
  ASSUME OutboxInv, [Next]_vars, faults' = faults, NEW e \in Ids, Spoken(e)
  PROVE  Spoken(e)'
  <1> USE DEF OutboxInv
  <1>1. CASE Produce
    <2>1. UNCHANGED workerVars
      BY <1>1 DEF Produce, Insert, CommitTx, RollbackTx
    <2>2. status[e] = "dispatched" => status'[e] = "dispatched"
      <3>1. ASSUME NEW d \in Ids, NEW s, status[d] # "dispatched",
                   status' = [status EXCEPT ![d] = s], status[e] = "dispatched"
            PROVE  status'[e] = "dispatched"
        BY <3>1 DEF TypeOK
      <3>2. ASSUME NEW d \in Ids, Insert(d) PROVE status[d] = "absent"
        BY <3>2, IdsAreNumbers DEF Insert, Serial, TypeOK
      <3> QED
        BY <1>1, <3>1, <3>2 DEF Produce, Insert, CommitTx, RollbackTx
    <2> QED
      BY <2>1, <2>2 DEF Spoken, Unsent, workerVars
  <1>2. ASSUME NEW w \in Workers, StartDrain(w) \/ EndScan(w) PROVE Spoken(e)'
    BY <1>2 DEF StartDrain, EndScan, rowVars, Spoken, Unsent
  <1>3. ASSUME NEW w \in Workers, NEW d \in Ids, Scan(w, d) PROVE Spoken(e)'
    <2>1. UNCHANGED <<status, confirmed, wire>> /\ ~wire[w]
          /\ \A v \in Workers \ {w} : Unsent(v)' = Unsent(v)
      BY <1>3 DEF Scan, Wires, TypeOK, Unsent
    <2> QED
      BY <2>1 DEF Spoken
  <1>4. ASSUME NEW w \in Workers, NEW d \in Ids, Arrive(w, d) PROVE Spoken(e)'
    BY <1>4 DEF Arrive, rowVars, Spoken, Unsent, TypeOK
  <1>5. ASSUME NEW w \in Workers, NEW d \in Ids, Confirm(w, d) PROVE Spoken(e)'
    <2>1. /\ UNCHANGED <<status, claimed>>
          /\ confirmed'[w] = confirmed[w] \cup {d}
          /\ \A v \in Workers \ {w} : confirmed'[v] = confirmed[v] /\ wire'[v] = wire[v]
      BY <1>5 DEF Confirm, rowVars, TypeOK
    <2>2. CASE \E v \in Workers \ {w} : wire[v] /\ First(Unsent(v), e)
      BY <2>1, <2>2 DEF Spoken, Unsent
    <2>3. CASE wire[w] /\ First(Unsent(w), e)
      <3>1. e = d
        BY <1>5, <2>3, FirstIsUnique DEF Confirm, Unsent, TypeOK
      <3> QED
        BY <2>1, <3>1 DEF Spoken
    <2>4. CASE status[e] = "dispatched" \/ \E v \in Workers : e \in confirmed[v]
      BY <2>1, <2>4 DEF Spoken
    <2> QED
      BY <2>2, <2>3, <2>4 DEF Spoken
  <1>6. ASSUME NEW w \in Workers, Mark(w) PROVE Spoken(e)'
    <2>1. /\ e \in confirmed[w] \/ status[e] = "dispatched" => status'[e] = "dispatched"
          /\ ~wire[w]
          /\ \A v \in Workers \ {w} : /\ confirmed'[v] = confirmed[v]
                                      /\ wire'[v] = wire[v] /\ Unsent(v)' = Unsent(v)
      BY <1>6 DEF Mark, EndDrain, Wires, TypeOK, Unsent
    <2> QED
      BY <2>1 DEF Spoken
  <1>7. CASE Fault
    BY <1>7 DEF Fault, Crash, Reject, Disconnect, TypeOK
  <1>8. CASE Reconnect \/ UNCHANGED vars
    BY <1>8 DEF Reconnect, vars, rowVars, workerVars, Spoken, Unsent
  <1> QED
    BY <1>1, <1>2, <1>3, <1>4, <1>5, <1>6, <1>7, <1>8 DEF Next, Drain

\* What is sent is not spoken for, by this drain or by another.
LEMMA ArriveIsNews ==
  ASSUME OutboxInv, NEW w \in Workers, NEW e \in Ids, Arrive(w, e)
  PROVE  ~Spoken(e) /\ Spoken(e)'
  <1> USE DEF OutboxInv
  <1>1. e \in claimed[w] /\ e \notin confirmed[w] /\ ~wire[w]
    BY DEF Arrive, First, Unsent
  <1>2. \A v \in Workers \ {w} : e \notin claimed[v]
    BY <1>1 DEF ClaimsDisjoint
  <1>3. status[e] = "pending" /\ \A v \in Workers \ {w} : e \notin confirmed[v]
    BY <1>1, <1>2 DEF Claims
  <1>4. \A v \in Workers \ {w} : ~First(Unsent(v), e)
    BY <1>2 DEF First, Unsent
  <1>5. wire'[w] /\ Unsent(w)' = Unsent(w) /\ First(Unsent(w), e)
    BY DEF Arrive, Unsent, TypeOK
  <1>6. First(Unsent(w), e)'
    BY <1>5 DEF First
  <1> QED
    BY <1>1, <1>3, <1>4, <1>5, <1>6 DEF Spoken

LEMMA NextCopies == OutboxInv /\ CopyInv /\ [Next]_vars => CopyInv'
  <1> SUFFICES ASSUME OutboxInv, CopyInv, [Next]_vars, NEW e \in Ids
               PROVE  Cardinality(At(e)') <= faults' + (IF Spoken(e)' THEN 1 ELSE 0)
    BY DEF CopyInv
  <1>1. /\ heard \in Seq(Ids) /\ faults \in Nat /\ Cardinality(At(e)) \in Nat
        /\ Cardinality(At(e)) <= faults + (IF Spoken(e) THEN 1 ELSE 0)
    BY AtIsFinite DEF OutboxInv, TypeOK, CopyInv
  <1>2. ASSUME NEW w \in Workers, NEW d \in Ids, Arrive(w, d)
        PROVE  Cardinality(At(e)') <= faults' + (IF Spoken(e)' THEN 1 ELSE 0)
    <2>1. heard' = Append(heard, d) /\ faults' = faults
      BY <1>2 DEF Arrive
    <2>2. CASE e = d
      BY <1>1, <1>2, <2>1, <2>2, AtAfterAppend, ArriveIsNews
    <2>3. CASE e # d
      BY <1>1, <2>1, <2>3, AtAfterAppend, SpokenStays
    <2> QED
      BY <2>2, <2>3
  <1>3. CASE Fault
    <2>1. heard' = heard /\ faults' = faults + 1
      BY <1>3 DEF Fault, Crash, Reject, Disconnect, brokerVars
    <2>2. At(e)' = At(e)
      BY <2>1 DEF At
    <2> QED
      BY <1>1, <2>1, <2>2
  <1>4. CASE /\ ~Fault
             /\ ~\E w \in Workers, d \in Ids : Arrive(w, d)
    <2>1. heard' = heard /\ faults' = faults
      BY <1>4 DEF Next, Produce, Drain, Insert, CommitTx, RollbackTx, StartDrain, Scan,
                  Confirm, EndScan, Mark, Reconnect, vars, brokerVars
    <2>2. At(e)' = At(e)
      BY <2>1 DEF At
    <2> QED
      BY <1>1, <2>1, <2>2, SpokenStays
  <1> QED
    BY <1>2, <1>3, <1>4

\* Without a fault no event is published twice, whatever the number of
\* workers; each fault costs an event at most one more copy.
THEOREM CopiesAreFaults == Spec => []CopiesNeedFaults
  <1>1. Init => CopyInv
    <2> SUFFICES ASSUME Init, NEW e \in Ids
                 PROVE  Cardinality(At(e)) <= faults + (IF Spoken(e) THEN 1 ELSE 0)
      BY DEF CopyInv
    <2>1. At(e) = {} /\ faults = 0
      BY DEF Init, At
    <2> QED
      BY <2>1, FS_EmptySet
  <1>2. OutboxInv /\ CopyInv => CopiesNeedFaults
    <2> SUFFICES ASSUME OutboxInv, CopyInv, NEW e \in Ids
                 PROVE  Cardinality(At(e)) <= 1 + faults
      BY DEF CopiesNeedFaults, At
    <2> QED
      BY AtIsFinite DEF CopyInv, OutboxInv, TypeOK
  <1> QED
    BY <1>1, <1>2, NextCopies, Invariance, PTL DEF Spec
=============================================================================
