-------------------------- MODULE IdempotencyProofs --------------------------
(***************************************************************************)
(* Idempotency for any number of requests, routes, keys and faults: type   *)
(* correctness, faithful replays, and, while it is Calm, one execution at  *)
(* a time behind a claim, at most one effect per key of a strict route and *)
(* responses that are never taken back.                                    *)
(*                                                                         *)
(* AtMostOneEffect is not inductive: that a second execution cannot start  *)
(* depends on what the store holds while the first is under way, and while *)
(* its last write is.  Guarding names that span; KeyInv says that it is    *)
(* one request's at a time and what the store holds meanwhile.             *)
(***************************************************************************)
EXTENDS Idempotency, TLAPS

\* From a look-up that found nothing to the write that ends the execution.
Behind(r) == (pc[r] = "executing" /\ guarded[r]) \/ unwritten[r] # "nothing"
Guarding(r) == pc[r] = "unclaimed" \/ Behind(r)

Exclusive ==
  \A q, r \in Requests : Guarding(q) /\ Guarding(r) /\ SameKey(q, r) => q = r

StoreTells ==
  \A r \in Requests :
    /\ pc[r] = "unclaimed" => store[KeyOf(r)] = "absent"
    /\ Behind(r) => store[KeyOf(r)] = "PROCESSING"

Phases ==
  \A r \in Requests :
    /\ Guarding(r) => Keyed(r)
    /\ unwritten[r] # "nothing" => pc[r] = "over"
    /\ pc[r] \in {"idle", "unclaimed"} => ~guarded[r]
    /\ Keyed(r) /\ StrictRoute(r) /\ pc[r] = "executing" => guarded[r]

\* After an effect the key is taken, and only its response may be under way.
Spent ==
  \A e, r \in Requests :
    e \in effects /\ SameKey(e, r) /\ Keyed(r) /\ StrictRoute(r) =>
      /\ store[KeyOf(r)] # "absent"
      /\ Guarding(r) => unwritten[r] = "response"

KeyInv == TypeOK /\ Phases /\ Exclusive /\ StoreTells

EffectInv == Spent /\ OneEffectPerKey

\* Once it is not Calm any more nothing is claimed.
CalmInv == TypeOK /\ (Calm => KeyInv /\ EffectInv)

-----------------------------------------------------------------------------
(* Type correctness.                                                       *)

LEMMA BoundsAreNumbers ==
  /\ MaxOutages \in Nat /\ MaxCrashes \in Nat
  /\ MaxExpiries \in Nat /\ MaxLostAcks \in Nat
  BY BoundsAssumption

LEMMA KeyShape ==
  ASSUME TypeOK, NEW r \in Requests
  PROVE  /\ sent[r] = [route |-> sent[r].route, header |-> sent[r].header]
         /\ sent[r].route \in Routes /\ sent[r].header \in Headers \cup {NoHeader}
         /\ Keyed(r) => KeyOf(r) \in CacheKey
  <1>1. sent[r] \in Sent
    BY DEF TypeOK
  <1> QED
    BY <1>1 DEF Sent, CacheKey, KeyOf, Keyed

\* The cache key tells apart what the client meant to tell apart.
LEMMA KeysTellApart ==
  ASSUME TypeOK, NEW q \in Requests, NEW r \in Requests
  PROVE  /\ SameKey(q, r) <=> KeyOf(q) = KeyOf(r)
         /\ SameKey(q, r) => /\ Keyed(q) <=> Keyed(r)
                             /\ StrictRoute(q) <=> StrictRoute(r)
  <1>1. SameKey(q, r) <=> KeyOf(q) = KeyOf(r)
    BY KeyShape DEF SameKey, KeyOf
  <1> QED
    BY <1>1 DEF SameKey, Keyed, StrictRoute

LEMMA InitType == Init => TypeOK
  <1> SUFFICES ASSUME Init PROVE TypeOK
    OBVIOUS
  <1>1. doubled \in BOOLEAN /\ misled \in BOOLEAN
    BY DEF Init
  <1> QED
    BY <1>1 DEF Init, TypeOK

LEMMA MeetType ==
  ASSUME TypeOK, NEW r \in Requests, Meet(r)
  PROVE  doubled' \in BOOLEAN
  BY DEF Meet, TypeOK

Answers == Requests \cup {"none", "bad request", "conflict", "unavailable",
                          "error", "nothing"}

\* What every step but those of the store's clock does to the types.
LEMMA ReplyType ==
  ASSUME TypeOK, NEW r \in Requests, NEW what \in Answers, Reply(r, what)
  PROVE  /\ pc' \in [Requests -> {"idle", "unclaimed", "executing", "over"}]
         /\ answer' \in [Requests -> Answers]
  BY DEF Reply, TypeOK, Answers

LEMMA OutageType ==
  ASSUME TypeOK, Outage
  PROVE  outages' \in Nat /\ crashes' \in Nat /\ expiries' \in Nat /\ lostAcks' \in Nat
  <1>1. outages \in Nat /\ crashes \in Nat /\ expiries \in Nat /\ lostAcks \in Nat
    BY DEF TypeOK
  <1> QED
    BY <1>1 DEF Outage

LEMMA StoreErrorType ==
  ASSUME TypeOK, NEW r \in Requests, OnStoreError(r)
  PROVE  /\ pc' \in [Requests -> {"idle", "unclaimed", "executing", "over"}]
         /\ answer' \in [Requests -> Answers]
  <1>1. CASE StrictRoute(r)
    BY <1>1, ReplyType DEF OnStoreError, Answers
  <1>2. CASE ~StrictRoute(r)
    BY <1>2 DEF OnStoreError, TypeOK, Answers
  <1> QED
    BY <1>1, <1>2

LEMMA NextType == TypeOK /\ [Next]_vars => TypeOK'
  <1> SUFFICES ASSUME TypeOK, [Next]_vars PROVE TypeOK'
    OBVIOUS
  <1> USE DEF Answers
  <1>0. outages \in Nat /\ crashes \in Nat /\ expiries \in Nat /\ lostAcks \in Nat
    BY DEF TypeOK
  <1>1. ASSUME NEW r \in Requests, NoKey(r) PROVE TypeOK'
    <2>1. CASE StrictRoute(r)
      BY <1>1, <2>1, ReplyType DEF NoKey, TypeOK, budget
    <2>2. CASE ~StrictRoute(r)
      BY <1>1, <2>2 DEF NoKey, TypeOK, budget
    <2> QED
      BY <2>1, <2>2
  <1>2. ASSUME NEW r \in Requests, LookUp(r) PROVE TypeOK'
    <2> DEFINE found == store[KeyOf(r)]
    <2>0. doubled' \in BOOLEAN
      BY <1>2, MeetType DEF LookUp
    <2>1. found \in {"absent", "PROCESSING"} \cup Requests
      BY <1>2, KeyShape DEF LookUp, Keyed, TypeOK
    <2>2. CASE found = "absent"
      BY <1>2, <2>0, <2>2 DEF LookUp, TypeOK, budget
    <2>3. CASE found = "PROCESSING"
      BY <1>2, <2>0, <2>3, ReplyType DEF LookUp, TypeOK, budget
    <2>4. CASE found \in Requests
      BY <1>2, <2>0, <2>4, ReplyType DEF LookUp, TypeOK, budget
    <2> QED
      BY <2>1, <2>2, <2>3, <2>4
  <1>3. ASSUME NEW r \in Requests, Claim(r) PROVE TypeOK'
    BY <1>3 DEF Claim, TypeOK, budget
  <1>4. ASSUME NEW r \in Requests, LookUpFails(r) PROVE TypeOK'
    <2>1. doubled' \in BOOLEAN
      BY <1>4, MeetType DEF LookUpFails
    <2> QED
      BY <1>4, <2>1, StoreErrorType, OutageType DEF LookUpFails, TypeOK
  <1>5. ASSUME NEW r \in Requests, ClaimFails(r) PROVE TypeOK'
    <2>1. store' \in [CacheKey -> {"absent", "PROCESSING"} \cup Requests]
      BY <1>5 DEF ClaimFails, TypeOK
    <2> QED
      BY <1>5, <2>1, StoreErrorType, OutageType DEF ClaimFails, TypeOK
  <1>12. ASSUME NEW r \in Requests, Overlook(r) PROVE TypeOK'
    <2>1. doubled' \in BOOLEAN /\ misled' \in BOOLEAN
      BY <1>12, MeetType DEF Overlook
    <2> QED
      BY <1>12, <2>1, OutageType DEF Overlook, TypeOK
  <1>13. ASSUME NEW r \in Requests, ClaimVanishes(r) PROVE TypeOK'
    BY <1>13, OutageType DEF ClaimVanishes, TypeOK
  <1>6. ASSUME NEW r \in Requests, Succeed(r) \/ Throw(r) \/ ThrowAfterCommit(r)
        PROVE  TypeOK'
    <2>1. unwritten' \in [Requests -> {"nothing", "response", "removal"}]
      BY <1>6 DEF Succeed, Throw, ThrowAfterCommit, Later, TypeOK
    <2>2. /\ pc' \in [Requests -> {"idle", "unclaimed", "executing", "over"}]
          /\ answer' \in [Requests -> Answers]
      BY <1>6, ReplyType DEF Succeed, Throw, ThrowAfterCommit
    <2>3. outages' \in Nat /\ crashes' \in Nat /\ expiries' \in Nat /\ lostAcks' \in Nat
      BY <1>6, <1>0 DEF Succeed, Throw, ThrowAfterCommit, budget
    <2> QED
      BY <1>6, <2>1, <2>2, <2>3 DEF Succeed, Throw, ThrowAfterCommit, TypeOK
  <1>7. ASSUME NEW r \in Requests, Crash(r) PROVE TypeOK'
    <2>1. effects' \subseteq Requests
      BY <1>7 DEF Crash, TypeOK
    <2>2. outages' \in Nat /\ crashes' \in Nat /\ expiries' \in Nat /\ lostAcks' \in Nat
      BY <1>7, <1>0 DEF Crash
    <2> QED
      BY <1>7, <2>1, <2>2, ReplyType DEF Crash, TypeOK
  <1>8. ASSUME NEW r \in Requests, Land(r) PROVE TypeOK'
    <2>1. WrittenValue(r) \in {"absent", "PROCESSING"} \cup Requests
      BY DEF WrittenValue
    <2> QED
      BY <1>8, <2>1 DEF Land, TypeOK, budget
  <1>9. ASSUME NEW r \in Requests, LoseWrite(r) PROVE TypeOK'
    BY <1>9, OutageType DEF LoseWrite, TypeOK
  <1>10. ASSUME NEW k \in CacheKey, Expire(k) PROVE TypeOK'
    <2>1. outages' \in Nat /\ crashes' \in Nat /\ expiries' \in Nat /\ lostAcks' \in Nat
      BY <1>10, <1>0 DEF Expire
    <2> QED
      BY <1>10, <2>1 DEF Expire, TypeOK
  <1>11. CASE UNCHANGED vars
    BY <1>11 DEF vars, budget, TypeOK
  <1> QED
    BY <1>1, <1>2, <1>3, <1>4, <1>5, <1>6, <1>7, <1>8, <1>9, <1>10, <1>11,
     <1>12, <1>13 DEF Next, Intercept, Finish

\* Every variable keeps to its kind, whatever fails, for any bounds.
THEOREM IdempotencyTypeCorrect == Spec => []TypeOK
  BY InitType, NextType, PTL DEF Spec

-----------------------------------------------------------------------------
(* What one step does to the span between look-up and last write.          *)

\* The stages of the requests other than r.
Others(r) ==
  \A q \in Requests \ {r} :
    pc'[q] = pc[q] /\ guarded'[q] = guarded[q] /\ unwritten'[q] = unwritten[q]

\* Every step of a request is one of its own.
LEMMA StepIsLocal ==
  ASSUME TypeOK, NEW r \in Requests,
         \/ Intercept(r) \/ Finish(r) \/ Land(r) \/ LookUpFails(r) \/ Overlook(r)
         \/ ClaimFails(r) \/ ClaimVanishes(r) \/ ThrowAfterCommit(r) \/ Crash(r)
         \/ LoseWrite(r)
  PROVE  Others(r) /\ sent' = sent
  <1>1. CASE Intercept(r)
    BY <1>1 DEF Intercept, NoKey, LookUp, Claim, Reply, Others, TypeOK
  <1>2. CASE Finish(r) \/ ThrowAfterCommit(r)
    BY <1>2 DEF Finish, Succeed, Throw, ThrowAfterCommit, Reply, Later, Others, TypeOK
  <1>3. CASE Land(r) \/ LoseWrite(r)
    BY <1>3 DEF Land, LoseWrite, Others, TypeOK
  <1>4. CASE LookUpFails(r) \/ ClaimFails(r)
    BY <1>4 DEF LookUpFails, ClaimFails, OnStoreError, Reply, Others, TypeOK
  <1>5. CASE Crash(r)
    BY <1>5 DEF Crash, Reply, Others, TypeOK
  <1>6. CASE Overlook(r) \/ ClaimVanishes(r)
    BY <1>6 DEF Overlook, ClaimVanishes, Others, TypeOK
  <1> QED
    BY <1>1, <1>2, <1>3, <1>4, <1>5, <1>6

\* A step that lets nobody in, leaves r where the phases allow, and leaves the
\* store telling the truth, keeps the invariant.
LEMMA LocalStep ==
  ASSUME KeyInv, TypeOK', NEW r \in Requests, Others(r), sent' = sent,
         Guarding(r)' => Guarding(r),
         unwritten'[r] # "nothing" => pc'[r] = "over",
         pc'[r] \in {"idle", "unclaimed"} => ~guarded'[r],
         Keyed(r) /\ StrictRoute(r) /\ pc'[r] = "executing" => guarded'[r],
         \A q \in Requests \ {r} : Guarding(q) => store'[KeyOf(q)] = store[KeyOf(q)],
         pc'[r] = "unclaimed" => store'[KeyOf(r)] = "absent",
         Behind(r)' => store'[KeyOf(r)] = "PROCESSING"
  PROVE  KeyInv'
  <1>1. \A q \in Requests : KeyOf(q)' = KeyOf(q) /\ Keyed(q)' = Keyed(q)
                             /\ StrictRoute(q)' = StrictRoute(q)
    BY DEF KeyOf, Keyed, StrictRoute
  <1>2. \A p, q \in Requests : SameKey(p, q)' <=> SameKey(p, q)
    BY DEF SameKey
  <1>3. \A q \in Requests \ {r} : /\ Behind(q)' <=> Behind(q)
                                  /\ Guarding(q)' <=> Guarding(q)
    BY DEF Others, Behind, Guarding
  <1>4. \A q \in Requests : Guarding(q)' => Guarding(q)
    BY <1>3
  <1>5. Phases'
    <2>1. \A q \in Requests : Guarding(q)' => Keyed(q)'
      BY <1>1, <1>4 DEF KeyInv, Phases
    <2>2. \A q \in Requests : unwritten'[q] # "nothing" => pc'[q] = "over"
      BY DEF KeyInv, Phases, Others
    <2>3. \A q \in Requests : Keyed(q) /\ StrictRoute(q) /\ pc'[q] = "executing"
                                => guarded'[q]
      BY DEF KeyInv, Phases, Others
    <2>4. \A q \in Requests : pc'[q] \in {"idle", "unclaimed"} => ~guarded'[q]
      BY DEF KeyInv, Phases, Others
    <2> QED
      BY <1>1, <2>1, <2>2, <2>3, <2>4 DEF Phases
  <1>6. Exclusive'
    BY <1>2, <1>4 DEF KeyInv, Exclusive
  <1>7. StoreTells'
    <2>1. \A q \in Requests \ {r} :
            /\ pc'[q] = "unclaimed" => store'[KeyOf(q)] = "absent"
            /\ Behind(q)' => store'[KeyOf(q)] = "PROCESSING"
      BY <1>3 DEF KeyInv, StoreTells, Others, Guarding
    <2>2. \A q \in Requests :
            /\ pc'[q] = "unclaimed" => store'[KeyOf(q)] = "absent"
            /\ Behind(q)' => store'[KeyOf(q)] = "PROCESSING"
      BY <2>1
    <2> QED
      BY <1>1, <2>2 DEF StoreTells
  <1> QED
    BY <1>5, <1>6, <1>7 DEF KeyInv

\* The holder of a key's guard may write the store: nobody else of that key
\* looks at it.
LEMMA HolderWrites ==
  ASSUME KeyInv, NEW r \in Requests, Guarding(r), NEW value,
         store' = [store EXCEPT ![KeyOf(r)] = value]
  PROVE  /\ \A q \in Requests \ {r} :
              Guarding(q) => store'[KeyOf(q)] = store[KeyOf(q)]
         /\ store'[KeyOf(r)] = value
  <1>1. \A q \in Requests \ {r} : Guarding(q) => KeyOf(q) # KeyOf(r)
    BY KeysTellApart DEF KeyInv, Exclusive
  <1>2. \A q \in Requests : Guarding(q) => KeyOf(q) \in CacheKey
    BY KeyShape DEF KeyInv, Phases
  <1>3. store \in [CacheKey -> {"absent", "PROCESSING"} \cup Requests]
    BY DEF KeyInv, TypeOK
  <1> QED
    BY <1>1, <1>2, <1>3

-----------------------------------------------------------------------------
(* The key invariant, action by action.                                    *)

\* A request gets past its look-up only when nobody of its key is inside: the
\* store says PROCESSING for those that claimed, and Calm excludes the rest:
\* those that have not claimed yet, and a store that hides what it has.
LEMMA LookUpKeeps ==
  ASSUME Calm', KeyInv, TypeOK', NEW r \in Requests, LookUp(r) \/ Overlook(r)
  PROVE  KeyInv'
  <1>1. Others(r) /\ sent' = sent /\ store' = store
        /\ guarded' = guarded /\ unwritten' = unwritten
    BY StepIsLocal DEF Intercept, KeyInv, LookUp, Overlook
  <1>2. unwritten[r] = "nothing" /\ pc[r] = "idle" /\ Keyed(r)
    BY DEF LookUp, Overlook, KeyInv, Phases, Keyed, TypeOK
  <1>3. CASE store[KeyOf(r)] = "absent"
    <2>1. pc'[r] = "unclaimed" /\ unwritten'[r] = "nothing"
      BY <1>1, <1>2, <1>3 DEF LookUp, Overlook, KeyInv, TypeOK
    <2>2. \A q \in Requests : SameKey(q, r) => ~Guarding(q)
      <3> SUFFICES ASSUME NEW q \in Requests, SameKey(q, r) PROVE ~Guarding(q)
        OBVIOUS
      <3>1. KeyOf(q) = KeyOf(r)
        BY KeysTellApart DEF KeyInv
      <3>2. ~Behind(q)
        BY <3>1, <1>3 DEF KeyInv, StoreTells
      <3>3. pc[q] # "unclaimed"
        BY DEF LookUp, Overlook, Meet, Apart, Calm, KeyInv, TypeOK
      <3> QED
        BY <3>2, <3>3 DEF Guarding
    <2>3. \A q \in Requests : /\ KeyOf(q)' = KeyOf(q) /\ Keyed(q)' = Keyed(q)
                              /\ StrictRoute(q)' = StrictRoute(q)
      BY <1>1 DEF KeyOf, Keyed, StrictRoute
    <2>4. \A q \in Requests \ {r} : /\ Behind(q)' <=> Behind(q)
                                    /\ Guarding(q)' <=> Guarding(q)
      BY <1>1 DEF Others, Behind, Guarding
    <2>5. ~Behind(r)'
      BY <2>1 DEF Behind
    <2>6. Phases'
      <3>1. \A q \in Requests : Guarding(q)' => Keyed(q)
        BY <1>2, <2>4 DEF KeyInv, Phases
      <3>2. \A q \in Requests :
              /\ unwritten'[q] # "nothing" => pc'[q] = "over"
              /\ pc'[q] \in {"idle", "unclaimed"} => ~guarded'[q]
              /\ Keyed(q) /\ StrictRoute(q) /\ pc'[q] = "executing" => guarded'[q]
        BY <1>1, <1>2, <2>1 DEF KeyInv, Phases, Others
      <3> QED
        BY <2>3, <3>1, <3>2 DEF Phases
    <2>7. Exclusive'
      <3>1. \A p, q \in Requests : SameKey(p, q)' <=> SameKey(p, q)
        BY <1>1 DEF SameKey
      <3>2. \A q \in Requests \ {r} : Guarding(q)' =>
              Guarding(q) /\ ~SameKey(q, r) /\ ~SameKey(r, q)
        BY <2>2, <2>4 DEF SameKey
      <3> QED
        BY <3>1, <3>2 DEF KeyInv, Exclusive
    <2>8. StoreTells'
      <3>1. \A q \in Requests :
              /\ pc'[q] = "unclaimed" => store'[KeyOf(q)] = "absent"
              /\ Behind(q)' => store'[KeyOf(q)] = "PROCESSING"
        BY <1>1, <1>3, <2>4, <2>5 DEF KeyInv, StoreTells, Others
      <3> QED
        BY <2>3, <3>1 DEF StoreTells
    <2> QED
      BY <2>6, <2>7, <2>8 DEF KeyInv
  <1>4. CASE store[KeyOf(r)] # "absent"
    <2>1. pc'[r] = "over"
      BY <1>4 DEF LookUp, Overlook, Calm, Reply, KeyInv, TypeOK
    <2>2. ~Guarding(r)' /\ ~Behind(r)'
      BY <1>1, <1>2, <2>1 DEF Guarding, Behind
    <2> QED
      BY <1>1, <1>2, <2>1, <2>2, LocalStep
  <1> QED
    BY <1>3, <1>4

LEMMA ClaimKeeps ==
  ASSUME KeyInv, TypeOK', NEW r \in Requests, Claim(r)
  PROVE  KeyInv'
  <1>1. Others(r) /\ sent' = sent
    BY StepIsLocal DEF Intercept, KeyInv
  <1>2. Guarding(r) /\ pc'[r] = "executing" /\ guarded'[r]
        /\ unwritten'[r] = "nothing"
    BY DEF Claim, Guarding, KeyInv, TypeOK, Phases
  <1>3. store' = [store EXCEPT ![KeyOf(r)] = "PROCESSING"]
    BY DEF Claim
  <1> QED
    BY <1>1, <1>2, <1>3, HolderWrites, LocalStep

\* A step after which r is over and holds nothing that it did not hold.
LEMMA LeavingKeeps ==
  ASSUME KeyInv, TypeOK', NEW r \in Requests, Others(r), sent' = sent,
         pc'[r] = "over", store' = store,
         unwritten'[r] # "nothing" => Behind(r)
  PROVE  KeyInv'
  <1>1. Behind(r)' => Behind(r)
    BY DEF Behind
  <1>2. Guarding(r)' => Guarding(r)
    BY <1>1 DEF Guarding
  <1>3. Behind(r)' => store'[KeyOf(r)] = "PROCESSING"
    BY <1>1 DEF KeyInv, StoreTells
  <1> QED
    BY <1>2, <1>3, LocalStep

\* Only an execution behind its own claim leaves a write behind.
LEMMA FinishKeeps ==
  ASSUME KeyInv, TypeOK', NEW r \in Requests,
         Succeed(r) \/ Throw(r) \/ ThrowAfterCommit(r)
  PROVE  KeyInv'
  <1>1. Others(r) /\ sent' = sent
    BY StepIsLocal DEF Finish, KeyInv
  <1>2. pc[r] = "executing" /\ pc'[r] = "over" /\ store' = store
    BY DEF Succeed, Throw, ThrowAfterCommit, Reply, KeyInv, TypeOK
  <1>3. unwritten'[r] # "nothing" => guarded[r]
    BY DEF Succeed, Throw, ThrowAfterCommit, Later, KeyInv, TypeOK
  <1> QED
    BY <1>1, <1>2, <1>3, LeavingKeeps DEF Behind

LEMMA CrashKeeps ==
  ASSUME KeyInv, TypeOK', NEW r \in Requests, Crash(r)
  PROVE  KeyInv'
  <1>1. Others(r) /\ sent' = sent
    BY StepIsLocal DEF KeyInv
  <1>2. pc'[r] = "over" /\ store' = store /\ unwritten' = unwritten
    BY DEF Crash, Reply, KeyInv, TypeOK
  <1> QED
    BY <1>1, <1>2, LeavingKeeps DEF Behind

LEMMA LandKeeps ==
  ASSUME KeyInv, TypeOK', NEW r \in Requests, Land(r) \/ LoseWrite(r)
  PROVE  KeyInv'
  <1>1. Others(r) /\ sent' = sent
    BY StepIsLocal DEF KeyInv
  <1>2. /\ Guarding(r) /\ unwritten'[r] = "nothing" /\ pc[r] = "over"
        /\ pc' = pc
    BY DEF Land, LoseWrite, Guarding, Behind, KeyInv, TypeOK, Phases
  <1>3. ~Guarding(r)' /\ ~Behind(r)'
    BY <1>2 DEF Guarding, Behind
  <1>4. \A q \in Requests \ {r} : Guarding(q) => store'[KeyOf(q)] = store[KeyOf(q)]
    <2>1. CASE LoseWrite(r)
      BY <2>1 DEF LoseWrite
    <2>2. CASE Land(r)
      BY <1>2, <2>2, HolderWrites DEF Land
    <2> QED
      BY <2>1, <2>2
  <1> QED
    BY <1>1, <1>2, <1>3, <1>4, LocalStep

\* A strict request whose store call failed is over; another one executes, but
\* outside the guard.
LEMMA StoreErrorKeeps ==
  ASSUME KeyInv, TypeOK', NEW r \in Requests, LookUpFails(r) \/ ClaimFails(r)
  PROVE  KeyInv'
  <1>1. Others(r) /\ sent' = sent /\ guarded' = guarded /\ unwritten' = unwritten
    BY StepIsLocal DEF LookUpFails, ClaimFails, KeyInv
  <1>2. /\ pc[r] \in {"idle", "unclaimed"} /\ unwritten[r] = "nothing"
        /\ pc'[r] \in {"over", "executing"}
        /\ StrictRoute(r) => pc'[r] = "over"
    <2>1. pc[r] \in {"idle", "unclaimed"} /\ OnStoreError(r)
      BY DEF LookUpFails, ClaimFails
    <2>2. unwritten[r] = "nothing"
      BY <2>1 DEF KeyInv, Phases
    <2>3. pc \in [Requests -> {"idle", "unclaimed", "executing", "over"}]
      BY DEF KeyInv, TypeOK
    <2>4. \/ pc' = [pc EXCEPT ![r] = "over"]
          \/ ~StrictRoute(r) /\ pc' = [pc EXCEPT ![r] = "executing"]
      BY <2>1, Zenon DEF OnStoreError, Reply
    <2> QED
      BY <2>1, <2>2, <2>3, <2>4
  <1>3. ~guarded[r]
    BY <1>2 DEF KeyInv, Phases
  <1>4. ~Guarding(r)' /\ ~Behind(r)'
    BY <1>1, <1>2, <1>3 DEF Guarding, Behind
  <1>5. \A q \in Requests \ {r} : Guarding(q) => store'[KeyOf(q)] = store[KeyOf(q)]
    <2>1. CASE LookUpFails(r)
      BY <2>1 DEF LookUpFails
    <2>2. CASE ClaimFails(r)
      <3>1. Guarding(r)
        BY <2>2 DEF ClaimFails, Guarding
      <3>2. \/ store' = store
            \/ store' = [store EXCEPT ![KeyOf(r)] = "PROCESSING"]
        BY <2>2 DEF ClaimFails
      <3> QED
        BY <3>1, <3>2, HolderWrites
    <2> QED
      BY <2>1, <2>2
  <1> QED
    BY <1>1, <1>2, <1>4, <1>5, LocalStep

LEMMA NoKeyKeeps ==
  ASSUME KeyInv, TypeOK', NEW r \in Requests, NoKey(r)
  PROVE  KeyInv'
  <1>1. /\ Others(r) /\ sent' = sent /\ store' = store
        /\ guarded' = guarded /\ unwritten' = unwritten
    BY StepIsLocal DEF Intercept, NoKey, KeyInv
  <1>2. pc[r] = "idle" /\ ~Keyed(r)
    BY DEF NoKey, Keyed
  <1>3. unwritten[r] = "nothing" /\ ~guarded[r]
    BY <1>2 DEF KeyInv, Phases, TypeOK
  <1>4. pc \in [Requests -> {"idle", "unclaimed", "executing", "over"}]
    BY DEF KeyInv, TypeOK
  <1>5. pc'[r] \in {"over", "executing"}
    BY <1>4 DEF NoKey, Reply
  <1>6. ~Guarding(r)' /\ ~Behind(r)'
    BY <1>1, <1>3, <1>5 DEF Guarding, Behind
  <1> QED
    BY <1>1, <1>2, <1>3, <1>5, <1>6, LocalStep

LEMMA InitKeyInv == Init => KeyInv
  <1> SUFFICES ASSUME Init PROVE KeyInv
    OBVIOUS
  <1>1. \A r \in Requests : pc[r] = "idle" /\ unwritten[r] = "nothing" /\ ~guarded[r]
    BY DEF Init
  <1> QED
    BY <1>1, InitType DEF KeyInv, Phases, Exclusive, StoreTells, Guarding, Behind

\* While it is Calm nothing expires, no claim vanishes and no handler throws
\* after its commit; and what is not Calm does not become so.
LEMMA CalmSteps ==
  ASSUME Calm', TypeOK
  PROVE  /\ \A k \in CacheKey : ~Expire(k)
         /\ \A r \in Requests : ~ThrowAfterCommit(r) /\ ~ClaimVanishes(r)
  <1>1. expiries \in Nat /\ lostAcks \in Nat
    BY DEF TypeOK
  <1> QED
    BY <1>1 DEF Calm, Expire, ThrowAfterCommit, ClaimVanishes

LEMMA CalmBefore ==
  ASSUME Calm', TypeOK, [Next]_vars
  PROVE  Calm
  <1>1. ASSUME NEW r \in Requests, LookUp(r) \/ LookUpFails(r) \/ Overlook(r)
        PROVE  Calm
    <2>1. doubled' = (doubled \/ ~Apart(r)) /\ expiries' = expiries /\ lostAcks' = lostAcks
      BY <1>1 DEF LookUp, LookUpFails, Overlook, Meet, Outage, budget
    <2>2. ~misled
      <3>1. CASE LookUp(r) \/ LookUpFails(r)
        BY <3>1 DEF LookUp, LookUpFails, Calm
      <3>2. CASE Overlook(r)
        BY <3>2, Zenon DEF Overlook, Calm
      <3> QED
        BY <1>1, <3>1, <3>2
    <2> QED
      BY <2>1, <2>2 DEF Calm
  <1>2. ASSUME NEW r \in Requests,
               \/ NoKey(r) \/ Claim(r) \/ Finish(r) \/ Land(r) \/ ClaimFails(r)
               \/ Crash(r) \/ LoseWrite(r)
        PROVE  Calm
    <2>1. doubled' = doubled /\ misled' = misled /\ expiries' = expiries /\ lostAcks' = lostAcks
      BY <1>2 DEF NoKey, Claim, Finish, Succeed, Throw, Land, ClaimFails, Crash,
         LoseWrite, Outage, budget
    <2> QED
      BY <2>1 DEF Calm
  <1>3. CASE UNCHANGED vars
    BY <1>3 DEF vars, budget, Calm
  <1> QED
    BY <1>1, <1>2, <1>3, CalmSteps DEF Next, Intercept

LEMMA NextKeyInv ==
  ASSUME Calm', KeyInv, [Next]_vars
  PROVE  KeyInv'
  <1>1. TypeOK'
    BY NextType DEF KeyInv
  <1>2. ASSUME NEW r \in Requests, Intercept(r) PROVE KeyInv'
    BY <1>1, <1>2, NoKeyKeeps, LookUpKeeps, ClaimKeeps DEF Intercept
  <1>3. ASSUME NEW r \in Requests, Finish(r) \/ ThrowAfterCommit(r) PROVE KeyInv'
    BY <1>1, <1>3, FinishKeeps DEF Finish
  <1>4. ASSUME NEW r \in Requests,
               \/ LookUpFails(r) \/ Overlook(r) \/ ClaimFails(r) \/ ClaimVanishes(r)
               \/ Crash(r) \/ Land(r) \/ LoseWrite(r)
        PROVE  KeyInv'
    BY <1>1, <1>4, LookUpKeeps, StoreErrorKeeps, CrashKeeps, LandKeeps, CalmSteps
       DEF KeyInv
  <1>5. CASE UNCHANGED vars
    BY <1>1, <1>5 DEF vars, KeyInv, Phases, Exclusive, StoreTells, Guarding, Behind,
       Keyed, StrictRoute, SameKey, KeyOf
  <1>6. \A k \in CacheKey : ~Expire(k)
    BY CalmSteps DEF KeyInv
  <1> QED
    BY <1>2, <1>3, <1>4, <1>5, <1>6 DEF Next

-----------------------------------------------------------------------------
(* The effects.                                                            *)

\* Only a guarded execution adds an effect to a key of a strict route.
Fresh(e) == e \in effects' /\ e \notin effects

LEMMA FreshEffects ==
  ASSUME Calm', KeyInv, [Next]_vars, NEW e \in Requests, Fresh(e),
         Keyed(e), StrictRoute(e)
  PROVE  /\ Behind(e) /\ pc[e] = "executing" /\ store' = store
         /\ effects' = effects \cup {e}
         /\ unwritten'[e] \in {"response", "nothing"} /\ pc'[e] = "over"
         /\ Others(e)
  <1>1. PICK r \in Requests : Succeed(r) \/ Crash(r)
    BY CalmSteps DEF KeyInv, Next, Intercept, Finish, Fresh, NoKey, LookUp, Claim,
       LookUpFails, Overlook, ClaimFails, Throw, Land, LoseWrite, vars
  <1>2. r = e /\ pc[e] = "executing" /\ store' = store /\ effects' = effects \cup {e}
    BY <1>1 DEF Succeed, Crash, Fresh
  <1>3. Behind(e) /\ unwritten[e] = "nothing"
    BY <1>2 DEF KeyInv, Phases, Behind
  <1>4. pc'[e] = "over" /\ unwritten'[e] \in {"response", "nothing"}
    BY <1>1, <1>2, <1>3 DEF Succeed, Crash, Reply, Later, KeyInv, TypeOK
  <1>5. Others(e)
    BY <1>1, <1>2, StepIsLocal DEF Finish, KeyInv
  <1> QED
    BY <1>2, <1>3, <1>4, <1>5

\* A key that has had its effect stays spent: its store entry never goes back
\* to "absent", and nobody gets behind it again.
LEMMA SpentStays ==
  ASSUME Calm', KeyInv, KeyInv', Spent, [Next]_vars,
         NEW e \in Requests, NEW r \in Requests, e \in effects,
         SameKey(e, r), Keyed(r), StrictRoute(r)
  PROVE  /\ store'[KeyOf(r)] # "absent"
         /\ Guarding(r)' => unwritten'[r] = "response"
  <1>1. /\ store[KeyOf(r)] # "absent" /\ KeyOf(r) \in CacheKey
        /\ \A q \in Requests : SameKey(q, r) /\ Guarding(q) => unwritten[q] = "response"
    <2>1. ASSUME NEW q \in Requests, SameKey(q, r), Guarding(q)
          PROVE  unwritten[q] = "response"
      <3>1. SameKey(e, q) /\ Keyed(q) /\ StrictRoute(q)
        BY <2>1 DEF SameKey, Keyed, StrictRoute
      <3> QED
        BY <2>1, <3>1 DEF Spent
    <2> QED
      BY <2>1, KeyShape DEF Spent, KeyInv
  <1>2. \A q \in Requests : KeyOf(q) = KeyOf(r) /\ Guarding(q) =>
          /\ unwritten[q] = "response" /\ pc[q] = "over"
    BY <1>1, KeysTellApart DEF KeyInv, Phases
  <1>3. ASSUME NEW q \in Requests, Claim(q) \/ ClaimFails(q) \/ Land(q)
        PROVE  store'[KeyOf(r)] # "absent"
    <2>1. Guarding(q) /\ (pc[q] = "unclaimed" \/ Land(q))
      BY <1>3 DEF Claim, ClaimFails, Land, Guarding, Behind
    <2>2. CASE KeyOf(q) = KeyOf(r)
      <3>1. Land(q) /\ unwritten[q] = "response"
        BY <1>2, <2>1, <2>2
      <3>2. store' = [store EXCEPT ![KeyOf(r)] = q]
        BY <2>2, <3>1 DEF Land, WrittenValue
      <3> QED
        BY <1>1, <3>2, RequestsAssumption DEF KeyInv, TypeOK
    <2>3. CASE KeyOf(q) # KeyOf(r)
      <3>1. \/ store' = store
            \/ \E v : store' = [store EXCEPT ![KeyOf(q)] = v]
        BY <1>3 DEF Claim, ClaimFails, Land
      <3>2. store \in [CacheKey -> {"absent", "PROCESSING"} \cup Requests]
        BY DEF KeyInv, TypeOK
      <3>3. store'[KeyOf(r)] = store[KeyOf(r)]
        BY <1>1, <2>3, <3>1, <3>2
      <3> QED
        BY <1>1, <3>3
    <2> QED
      BY <2>2, <2>3
  <1>4. store'[KeyOf(r)] # "absent"
    <2>1. CASE store' = store
      BY <1>1, <2>1
    <2>2. store' = store \/ \E q \in Requests : Claim(q) \/ ClaimFails(q) \/ Land(q)
      BY CalmSteps DEF KeyInv, Next, Intercept, Finish, NoKey, LookUp, LookUpFails,
         Overlook, Succeed, Throw, Crash, LoseWrite, vars, budget
    <2> QED
      BY <1>3, <2>1, <2>2
  <1>5. Guarding(r)' => unwritten'[r] = "response"
    <2>1. KeyOf(r)' = KeyOf(r)
      <3>1. sent' = sent
        BY StepIsLocal DEF KeyInv, Next, Expire, vars
      <3> QED
        BY <3>1 DEF KeyOf
    <2>2. pc'[r] # "unclaimed"
      BY <1>4, <2>1 DEF KeyInv, StoreTells
    <2>3. pc[r] # "executing" /\ pc[r] # "unclaimed"
      BY <1>2 DEF Guarding, KeyInv, Phases, Behind
    <2>4. ASSUME NEW q \in Requests, q # r, Others(q)
          PROVE  Guarding(r)' => unwritten'[r] = "response"
      BY <1>2, <2>4 DEF Others, Guarding, Behind
    <2>5. ASSUME pc'[r] \notin {"unclaimed", "executing"},
                 unwritten'[r] \in {unwritten[r], "nothing"}
          PROVE  Guarding(r)' => unwritten'[r] = "response"
      BY <1>2, <2>5 DEF Guarding, Behind
    <2>6. CASE Intercept(r)
      <3>1. unwritten' = unwritten
        BY <2>6 DEF Intercept, NoKey, LookUp, Claim
      <3>2. pc'[r] # "executing"
        BY <2>3, <2>6 DEF Intercept, NoKey, LookUp, Claim, Reply, Keyed, KeyInv, TypeOK
      <3> QED
        BY <2>2, <2>5, <3>1, <3>2
    <2>12. CASE Overlook(r)
      <3>1. unwritten' = unwritten /\ pc'[r] = "unclaimed"
        BY <2>12 DEF Overlook, KeyInv, TypeOK
      <3> QED
        BY <2>2, <3>1
    <2>7. CASE Land(r) \/ LoseWrite(r)
      <3>1. unwritten'[r] = "nothing" /\ pc' = pc
        BY <2>7 DEF Land, LoseWrite, KeyInv, TypeOK
      <3> QED
        BY <2>3, <2>5, <3>1
    <2>8. CASE LookUpFails(r) \/ ClaimFails(r)
      <3>1. unwritten' = unwritten /\ Reply(r, "unavailable")
        BY <2>8 DEF LookUpFails, ClaimFails, OnStoreError
      <3>2. pc'[r] = "over"
        BY <3>1 DEF Reply, KeyInv, TypeOK
      <3> QED
        BY <2>5, <3>1, <3>2
    <2>9. ~Finish(r) /\ ~Crash(r) /\ ~ThrowAfterCommit(r)
      BY <2>3 DEF Finish, Succeed, Throw, Crash, ThrowAfterCommit
    <2>10. CASE UNCHANGED vars
      BY <1>2, <2>10 DEF vars, Guarding, Behind
    <2>11. ASSUME NEW q \in Requests,
                  \/ Intercept(q) \/ Finish(q) \/ Land(q) \/ LookUpFails(q) \/ Overlook(q)
                  \/ ClaimFails(q) \/ ThrowAfterCommit(q) \/ Crash(q) \/ LoseWrite(q)
           PROVE  Guarding(r)' => unwritten'[r] = "response"
      <3>1. CASE q # r
        BY <2>4, <2>11, <3>1, StepIsLocal DEF KeyInv
      <3>2. CASE q = r
        BY <2>6, <2>7, <2>8, <2>9, <2>11, <2>12, <3>2
      <3> QED
        BY <3>1, <3>2
    <2> QED
      BY <2>10, <2>11, CalmSteps DEF KeyInv, Next
  <1> QED
    BY <1>4, <1>5

LEMMA NextEffects ==
  ASSUME Calm', KeyInv, KeyInv', Spent, OneEffectPerKey, [Next]_vars
  PROVE  Spent' /\ OneEffectPerKey'
  <1>1. sent' = sent
    BY StepIsLocal DEF KeyInv, Next, Expire, vars
  <1>2. \A q \in Requests : /\ KeyOf(q)' = KeyOf(q) /\ Keyed(q)' = Keyed(q)
                            /\ StrictRoute(q)' = StrictRoute(q)
    BY <1>1 DEF KeyOf, Keyed, StrictRoute
  <1>3. \A p, q \in Requests : SameKey(p, q)' <=> SameKey(p, q)
    BY <1>1 DEF SameKey
  <1>4. effects \subseteq Requests /\ effects' \subseteq Requests
    BY DEF KeyInv, TypeOK
  \* An effect is new only in a key that had none.
  <1>5. ASSUME NEW e \in Requests, Fresh(e), Keyed(e), StrictRoute(e),
               NEW d \in effects, SameKey(d, e)
        PROVE  FALSE
    <2>1. Guarding(e) /\ pc[e] = "executing"
      BY <1>5, FreshEffects DEF Guarding
    <2>2. unwritten[e] = "response"
      BY <1>4, <1>5, <2>1 DEF Spent
    <2> QED
      BY <2>1, <2>2 DEF KeyInv, Phases
  <1>6. OneEffectPerKey'
    <2> SUFFICES ASSUME NEW q \in effects', NEW r \in effects',
                        SameKey(q, r), Keyed(r), StrictRoute(r)
                 PROVE  q = r
      BY <1>2, <1>3, <1>4 DEF OneEffectPerKey
    <2>1. Keyed(q) /\ StrictRoute(q) /\ SameKey(r, q) /\ q \in Requests /\ r \in Requests
      BY <1>4 DEF SameKey, Keyed, StrictRoute
    <2>2. CASE q \in effects /\ r \in effects
      BY <2>2 DEF OneEffectPerKey
    <2>3. CASE q \notin effects /\ r \in effects
      BY <1>5, <2>1, <2>3 DEF Fresh
    <2>4. CASE q \in effects /\ r \notin effects
      BY <1>5, <2>1, <2>4 DEF Fresh
    <2>5. CASE q \notin effects /\ r \notin effects
      <3>1. effects' = effects \cup {q}
        BY <2>1, <2>5, FreshEffects DEF Fresh
      <3> QED
        BY <2>5, <3>1
    <2> QED
      BY <2>2, <2>3, <2>4, <2>5
  <1>7. Spent'
    <2> SUFFICES ASSUME NEW e \in Requests, NEW r \in Requests, e \in effects',
                        SameKey(e, r), Keyed(r), StrictRoute(r)
                 PROVE  /\ store'[KeyOf(r)] # "absent"
                        /\ Guarding(r)' => unwritten'[r] = "response"
      BY <1>2, <1>3 DEF Spent
    <2>1. CASE e \in effects
      BY <2>1, SpentStays
    <2>2. CASE e \notin effects
      <3>1. Keyed(e) /\ StrictRoute(e) /\ KeyOf(e) = KeyOf(r)
        BY KeysTellApart DEF SameKey, Keyed, StrictRoute, KeyInv
      <3>2. /\ Behind(e) /\ pc[e] = "executing" /\ store' = store
            /\ unwritten'[e] \in {"response", "nothing"} /\ pc'[e] = "over"
            /\ Others(e)
        BY <2>2, <3>1, FreshEffects DEF Fresh
      <3>3. store'[KeyOf(r)] # "absent"
        BY <3>1, <3>2 DEF KeyInv, StoreTells
      <3>4. CASE r = e
        BY <3>2, <3>3, <3>4 DEF Guarding, Behind
      <3>5. CASE r # e
        <4>1. ~Guarding(r)
          BY <3>2, <3>5 DEF Guarding, KeyInv, Exclusive
        <4> QED
          BY <3>2, <3>3, <3>5, <4>1 DEF Others, Guarding, Behind
      <3> QED
        BY <3>4, <3>5
    <2> QED
      BY <2>1, <2>2
  <1> QED
    BY <1>6, <1>7

LEMMA InitCalmInv == Init => CalmInv
  BY InitType, InitKeyInv DEF Init, CalmInv, EffectInv, Spent, OneEffectPerKey

LEMMA NextCalmInv == CalmInv /\ [Next]_vars => CalmInv'
  <1> SUFFICES ASSUME CalmInv, [Next]_vars PROVE CalmInv'
    OBVIOUS
  <1>1. TypeOK'
    BY NextType DEF CalmInv
  <1>2. ASSUME Calm' PROVE (KeyInv /\ EffectInv)'
    <2>1. KeyInv /\ EffectInv
      BY <1>2, CalmBefore DEF CalmInv
    <2>2. KeyInv'
      BY <1>2, <2>1, NextKeyInv
    <2> QED
      BY <1>2, <2>1, <2>2, NextEffects DEF EffectInv
  <1> QED
    BY <1>1, <1>2 DEF CalmInv

\* A key of a strict route changes the database at most once while it is Calm,
\* however many requests repeat it, whatever store calls are rejected, whatever
\* writes are lost and whatever processes die.
THEOREM OneEffect == Spec => []AtMostOneEffect
  <1>1. CalmInv => AtMostOneEffect
    BY DEF CalmInv, EffectInv, AtMostOneEffect
  <1> QED
    BY <1>1, InitCalmInv, NextCalmInv, PTL DEF Spec

\* While it is Calm no late removal and no later claim takes a saved response
\* away.
THEOREM ResponsesStay == Spec => ResponseIsFinal
  <1> DEFINE Step == Calm' => \A k \in CacheKey :
                                store[k] \in Requests => store'[k] = store[k]
  <1>1. CalmInv /\ [Next]_vars => [Step]_vars
    <2> SUFFICES ASSUME CalmInv, Next, Calm', NEW k \in CacheKey, store[k] \in Requests
                 PROVE  store'[k] = store[k]
      OBVIOUS
    <2>0. KeyInv
      BY CalmBefore DEF CalmInv
    <2>1. \A r \in Requests : Guarding(r) => KeyOf(r) # k
      <3>1. store[k] # "absent" /\ store[k] # "PROCESSING"
        BY RequestsAssumption
      <3> QED
        BY <2>0, <3>1 DEF Guarding, KeyInv, StoreTells
    <2>2. ASSUME NEW r \in Requests, Claim(r) \/ ClaimFails(r) \/ Land(r)
          PROVE  store'[k] = store[k]
      <3>1. Guarding(r)
        BY <2>2 DEF Claim, ClaimFails, Land, Guarding, Behind
      <3> QED
        BY <2>0, <2>1, <2>2, <3>1 DEF Claim, ClaimFails, Land, KeyInv, TypeOK
    <2>3. store' = store \/ \E q \in Requests : Claim(q) \/ ClaimFails(q) \/ Land(q)
      BY <2>0, CalmSteps DEF KeyInv, Next, Intercept, Finish, NoKey, LookUp, LookUpFails,
         Overlook, Succeed, Throw, Crash, LoseWrite
    <2> QED
      BY <2>2, <2>3
  <1> QED
    BY <1>1, InitCalmInv, NextCalmInv, PTL DEF Spec, ResponseIsFinal

\* While it is Calm two requests of one key never execute behind the claim at
\* the same time.
THEOREM OneAtATime == Spec => []OneBehindTheLock
  <1>1. CalmInv => OneBehindTheLock
    BY DEF CalmInv, KeyInv, Exclusive, Guarding, Behind, OneBehindTheLock
  <1> QED
    BY <1>1, InitCalmInv, NextCalmInv, PTL DEF Spec

-----------------------------------------------------------------------------
(* Replays, whatever happens.                                              *)

\* A saved response, and one that is still to be saved, is that of an execution
\* that took effect, under the key it was sent with.
Saved ==
  /\ \A k \in CacheKey : store[k] \in Requests =>
       store[k] \in effects /\ KeyOf(store[k]) = k
  /\ \A r \in Requests : unwritten[r] = "response" => r \in effects

ReplayInv == TypeOK /\ Saved /\ ReplayIsFaithful

LEMMA InitReplays == Init => ReplayInv
  <1> SUFFICES ASSUME Init PROVE ReplayInv
    OBVIOUS
  <1>1. \A k \in CacheKey : store[k] \notin Requests
    BY RequestsAssumption DEF Init
  <1>2. \A r \in Requests : answer[r] \notin Requests
    BY RequestsAssumption DEF Init
  <1>3. \A r \in Requests : unwritten[r] = "nothing"
    BY DEF Init
  <1> QED
    BY <1>1, <1>2, <1>3, InitType DEF ReplayInv, Saved, ReplayIsFaithful

\* A step of r that answers with no success but its own or a saved one, saves
\* nothing but its own response, and saves it only after the effect.
LEMMA ReplayStep ==
  ASSUME ReplayInv, TypeOK', sent' = sent, effects \subseteq effects',
         NEW r \in Requests,
         \A q \in Requests \ {r} : answer'[q] = answer[q] /\ unwritten'[q] = unwritten[q],
         \/ answer'[r] = answer[r]
         \/ answer'[r] \in Requests => answer'[r] \in effects' /\ SameKey(answer'[r], r),
         unwritten'[r] = "response" => unwritten[r] = "response" \/ r \in effects',
         \A k \in CacheKey : \/ store'[k] = store[k]
                             \/ store'[k] \in {"absent", "PROCESSING"}
                             \/ store'[k] = r /\ k = KeyOf(r) /\ r \in effects'
  PROVE  ReplayInv'
  <1>1. Saved'
    BY RequestsAssumption DEF ReplayInv, Saved, KeyOf
  <1>2. ReplayIsFaithful'
    <2> SUFFICES ASSUME NEW q \in Requests, answer'[q] \in Requests
                 PROVE  answer'[q] \in effects' /\ SameKey(answer'[q], q)
      BY DEF ReplayIsFaithful, SameKey
    <2>1. CASE answer'[q] = answer[q]
      BY <2>1 DEF ReplayInv, ReplayIsFaithful
    <2>2. CASE answer'[q] # answer[q]
      BY <2>2
    <2> QED
      BY <2>1, <2>2
  <1> QED
    BY <1>1, <1>2 DEF ReplayInv

LEMMA NextReplays == ReplayInv /\ [Next]_vars => ReplayInv'
  <1> SUFFICES ASSUME ReplayInv, [Next]_vars PROVE ReplayInv'
    OBVIOUS
  <1>0. TypeOK /\ TypeOK'
    BY NextType DEF ReplayInv
  \* An answer is one request's.
  <1>1. ASSUME NEW r \in Requests, NEW what, Reply(r, what)
        PROVE  answer'[r] = what /\ \A q \in Requests \ {r} : answer'[q] = answer[q]
    <2>1. DOMAIN answer = Requests
      BY <1>0 DEF TypeOK
    <2> QED
      BY <1>1, <2>1 DEF Reply
  <1>2. ASSUME NEW r \in Requests, NEW what, Later(r, what)
         PROVE  /\ unwritten'[r] \in {what, "nothing"}
                /\ \A q \in Requests \ {r} : unwritten'[q] = unwritten[q]
    <2>1. DOMAIN unwritten = Requests
      BY <1>0 DEF TypeOK
    <2> QED
      BY <1>2, <2>1 DEF Later
  <1> USE RequestsAssumption
  <1>3. ASSUME NEW r \in Requests, LookUp(r) PROVE ReplayInv'
    <2>1. /\ UNCHANGED <<sent, store, unwritten, effects>>
          /\ \A q \in Requests \ {r} : answer'[q] = answer[q]
      BY <1>0, <1>3 DEF LookUp, Reply, TypeOK
    <2>2. answer'[r] \in {answer[r], "conflict", store[KeyOf(r)]}
      BY <1>0, <1>3 DEF LookUp, Reply, TypeOK
    <2>3. ASSUME store[KeyOf(r)] \in Requests
          PROVE  store[KeyOf(r)] \in effects /\ SameKey(store[KeyOf(r)], r)
      <3>1. KeyOf(r) \in CacheKey
        BY <1>0, <1>3, KeyShape DEF LookUp, Keyed
      <3> QED
        BY <1>0, <2>3, <3>1, KeysTellApart DEF ReplayInv, Saved
    <2> QED
      BY <1>0, <2>1, <2>2, <2>3, ReplayStep
  <1>4. ASSUME NEW r \in Requests, NoKey(r) \/ LookUpFails(r) \/ ClaimFails(r)
        PROVE  ReplayInv'
    <2>1. /\ UNCHANGED <<sent, unwritten, effects>>
          /\ \A q \in Requests \ {r} : answer'[q] = answer[q]
      BY <1>0, <1>4 DEF NoKey, LookUpFails, ClaimFails, OnStoreError, Reply, TypeOK
    <2>2. answer'[r] \in {answer[r], "bad request", "unavailable"}
      BY <1>0, <1>4 DEF NoKey, LookUpFails, ClaimFails, OnStoreError, Reply, TypeOK
    <2>3. \A k \in CacheKey : store'[k] \in {store[k], "PROCESSING"}
      BY <1>0, <1>4 DEF NoKey, LookUpFails, ClaimFails, TypeOK
    <2> QED
      BY <1>0, <2>1, <2>2, <2>3, ReplayStep
  <1>5. ASSUME NEW r \in Requests, Claim(r) \/ Overlook(r) \/ ClaimVanishes(r)
        PROVE  ReplayInv'
    <2>1. /\ UNCHANGED <<sent, unwritten, effects, answer>>
          /\ store' = store \/ store' = [store EXCEPT ![KeyOf(r)] = "PROCESSING"]
      BY <1>5 DEF Claim, Overlook, ClaimVanishes
    <2>2. \A k \in CacheKey : store'[k] \in {store[k], "PROCESSING"}
      BY <1>0, <2>1 DEF TypeOK
    <2> QED
      BY <1>0, <2>1, <2>2, ReplayStep
  <1>6. ASSUME NEW r \in Requests, Succeed(r) PROVE ReplayInv'
    <2>1. UNCHANGED <<sent, store>> /\ effects' = effects \cup {r}
      BY <1>6 DEF Succeed
    <2>2. answer'[r] = r /\ \A q \in Requests \ {r} : answer'[q] = answer[q]
      BY <1>6, <1>1 DEF Succeed
    <2>3. \A q \in Requests \ {r} : unwritten'[q] = unwritten[q]
      BY <1>6, <1>2 DEF Succeed
    <2>4. SameKey(r, r)
      BY DEF SameKey
    <2> QED
      BY <1>0, <2>1, <2>2, <2>3, <2>4, ReplayStep
  <1>7. ASSUME NEW r \in Requests, Throw(r) \/ ThrowAfterCommit(r) \/ Crash(r)
        PROVE  ReplayInv'
    <2>1. UNCHANGED <<sent, store>> /\ effects \subseteq effects'
      BY <1>7 DEF Throw, ThrowAfterCommit, Crash
    <2>2. Later(r, "removal") \/ unwritten' = unwritten
      BY <1>7 DEF Throw, ThrowAfterCommit, Crash
    <2>3. /\ unwritten'[r] \in {unwritten[r], "nothing", "removal"}
          /\ \A q \in Requests \ {r} : unwritten'[q] = unwritten[q]
      BY <1>2, <2>2
    <2>4. Reply(r, "error") \/ Reply(r, "nothing")
      BY <1>7 DEF Throw, ThrowAfterCommit, Crash
    <2>5. /\ answer'[r] \in {"error", "nothing"}
          /\ \A q \in Requests \ {r} : answer'[q] = answer[q]
      BY <1>1, <2>4
    <2> QED
      BY <1>0, <2>1, <2>3, <2>5, ReplayStep
  <1>8. ASSUME NEW r \in Requests, Land(r) \/ LoseWrite(r) PROVE ReplayInv'
    <2>1. /\ UNCHANGED <<sent, effects, answer>> /\ unwritten'[r] = "nothing"
          /\ \A q \in Requests \ {r} : unwritten'[q] = unwritten[q]
      BY <1>0, <1>8 DEF Land, LoseWrite, TypeOK
    <2>2. store' = store \/ store' = [store EXCEPT ![KeyOf(r)] = WrittenValue(r)]
      BY <1>8 DEF Land, LoseWrite
    <2>3. WrittenValue(r) = "absent" \/ (WrittenValue(r) = r /\ r \in effects')
      BY <2>1 DEF WrittenValue, ReplayInv, Saved
    <2>4. \A k \in CacheKey : store'[k] = store[k]
                              \/ (k = KeyOf(r) /\ store'[k] = WrittenValue(r))
      BY <1>0, <2>2 DEF TypeOK
    <2> QED
      BY <1>0, <2>1, <2>3, <2>4, ReplayStep
  <1>9. ASSUME NEW k \in CacheKey, Expire(k) PROVE ReplayInv'
    <2>1. /\ UNCHANGED <<sent, unwritten, effects, answer>>
          /\ \A j \in CacheKey : store'[j] \in {store[j], "absent"}
      BY <1>0, <1>9 DEF Expire, TypeOK
    <2>2. Saved'
      BY <2>1 DEF ReplayInv, Saved, KeyOf
    <2>3. ReplayIsFaithful'
      BY <2>1 DEF ReplayInv, ReplayIsFaithful, SameKey
    <2> QED
      BY <1>0, <2>2, <2>3 DEF ReplayInv
  <1>10. CASE UNCHANGED vars
    BY <1>0, <1>10 DEF vars, ReplayInv, Saved, ReplayIsFaithful, KeyOf, SameKey
  <1> QED
    BY <1>3, <1>4, <1>5, <1>6, <1>7, <1>9, <1>10, <1>8 DEF Next, Intercept, Finish

\* Whatever fails, a client is told of a success only if it took place, for the
\* route and key it asked about.
THEOREM ReplaysAreFaithful == Spec => []ReplayIsFaithful
  <1>1. ReplayInv => ReplayIsFaithful
    BY DEF ReplayInv
  <1> QED
    BY <1>1, InitReplays, NextReplays, PTL DEF Spec
=============================================================================
