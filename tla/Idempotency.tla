---------------------------- MODULE Idempotency ----------------------------
(***************************************************************************)
(* IdempotencyInterceptor: what happens to the requests that carry an      *)
(* Idempotency-Key.  The interceptor runs in several API processes around  *)
(* a Redis store; the controller behind it changes the database (one       *)
(* effect per execution) and answers.                                      *)
(*                                                                         *)
(* The look-up and the claim are two calls of the store; the response, or  *)
(* the removal of the claim, is written without being awaited and reaches  *)
(* the store later, or never.  A store that fails may reject a call, or    *)
(* answer it as if nothing were wrong: cache-manager reports an error of a *)
(* get, and Keyv one of a set, as an event, and the call resolves.         *)
(***************************************************************************)
EXTENDS Integers, FiniteSets

CONSTANTS
  Requests,    \* one per HTTP request that reaches the API
  Routes,      \* method and originalUrl
  Headers,     \* values of the Idempotency-Key header
  NoHeader,    \* the request has none
  Strict,      \* the routes decorated with { strict: true }
  MaxOutages,  \* bound: store calls that fail
  MaxCrashes,  \* bound: API processes that die in a request
  MaxExpiries, \* bound: claims or responses that outlive their 24 hours
  MaxLostAcks  \* bound: executions that commit and yet throw

ASSUME RoutesAssumption == Strict \subseteq Routes
ASSUME NoHeaderAssumption == NoHeader \notin Headers
ASSUME RequestsAssumption ==
  Requests \cap {"absent", "PROCESSING", "none", "bad request", "conflict",
                 "unavailable", "error", "nothing"} = {}
ASSUME BoundsAssumption ==
  {MaxOutages, MaxCrashes, MaxExpiries, MaxLostAcks} \subseteq Nat

VARIABLES
  sent,      \* the route and header of each request
  pc,        \* where its interception is
  guarded,   \* whether it holds a claim it made itself
  store,     \* the value of each key: a response is named after the request
             \* whose execution produced it
  unwritten, \* the write a finished request has not yet got through
  effects,   \* the requests whose execution changed the database
  answer,    \* what the client got
  doubled,   \* whether two requests of a key have met before the claim
  misled,    \* whether a failing store has hidden a taken key, or a lost claim
  outages, crashes, expiries, lostAcks

budget == <<outages, crashes, expiries, lostAcks>>
vars == <<sent, pc, guarded, store, unwritten, effects, answer, doubled,
          misled, budget>>

Sent == [route : Routes, header : Headers \cup {NoHeader}]
CacheKey == [route : Routes, header : Headers]

\* Mutant: the URL left out of the key.
HeaderOnly(r) == [route |-> CHOOSE u \in Routes : TRUE, header |-> sent[r].header]

\* `idempotency:${method}:${request.originalUrl}:${idempotencyKey}`; neither
\* the body nor the caller is part of it.
KeyOf(r) == [route |-> sent[r].route, header |-> sent[r].header]

StrictRoute(r) == sent[r].route \in Strict
SameKey(q, r) == sent[q] = sent[r]

Init ==
  /\ sent \in [Requests -> Sent]
  /\ pc = [r \in Requests |-> "idle"]
  /\ guarded = [r \in Requests |-> FALSE]
  /\ store = [k \in CacheKey |-> "absent"]
  /\ unwritten = [r \in Requests |-> "nothing"]
  /\ effects = {}
  /\ answer = [r \in Requests |-> "none"]
  /\ doubled = FALSE /\ misled = FALSE
  /\ outages = 0 /\ crashes = 0 /\ expiries = 0 /\ lostAcks = 0

-----------------------------------------------------------------------------
Reply(r, what) ==
  /\ pc' = [pc EXCEPT ![r] = "over"]
  /\ answer' = [answer EXCEPT ![r] = what]

Outage ==
  /\ outages < MaxOutages
  /\ outages' = outages + 1
  /\ UNCHANGED <<crashes, expiries, lostAcks>>

\* Without a key a strict route refuses and any other just executes.
NoKey(r) ==
  /\ pc[r] = "idle" /\ sent[r].header = NoHeader
  /\ IF StrictRoute(r)
       THEN Reply(r, "bad request")
       ELSE /\ pc' = [pc EXCEPT ![r] = "executing"]
            /\ UNCHANGED answer
  /\ UNCHANGED <<sent, doubled, misled, guarded, store, unwritten, effects, budget>>

\* The request comes while no other one of its key is between its look-up and
\* its claim: the client did not click twice.
Apart(r) == \A q \in Requests : SameKey(q, r) => pc[q] # "unclaimed"
Meet(r) == doubled' = (doubled \/ ~Apart(r))

\* Mutant: only a saved response stops a request, not the claim of another.
LookUpResponse(r) ==
  /\ pc[r] = "idle" /\ sent[r].header # NoHeader
  /\ IF store[KeyOf(r)] \in Requests
       THEN Reply(r, store[KeyOf(r)])
       ELSE /\ pc' = [pc EXCEPT ![r] = "unclaimed"]
            /\ UNCHANGED answer
  /\ Meet(r)
  /\ UNCHANGED <<sent, misled, guarded, store, unwritten, effects, budget>>

\* cacheManager.get: the key is unknown, claimed, or answered.
LookUp(r) ==
  /\ pc[r] = "idle" /\ sent[r].header # NoHeader
  /\ LET found == store[KeyOf(r)] IN
       CASE found = "absent" ->
              /\ pc' = [pc EXCEPT ![r] = "unclaimed"]
              /\ UNCHANGED answer
         [] found = "PROCESSING" -> Reply(r, "conflict")
         [] OTHER -> Reply(r, found)
  /\ Meet(r)
  /\ UNCHANGED <<sent, misled, guarded, store, unwritten, effects, budget>>

\* set(cacheKey, 'PROCESSING', 24 h): whatever the key holds by now.
Claim(r) ==
  /\ pc[r] = "unclaimed"
  /\ store' = [store EXCEPT ![KeyOf(r)] = "PROCESSING"]
  /\ guarded' = [guarded EXCEPT ![r] = TRUE]
  /\ pc' = [pc EXCEPT ![r] = "executing"]
  /\ UNCHANGED <<sent, doubled, misled, unwritten, effects, answer, budget>>

\* Mutant: the catch block passes every request on.
PassOn(r) ==
  /\ pc' = [pc EXCEPT ![r] = "executing"]
  /\ UNCHANGED answer

\* The catch block: 503 on a strict route, else execute without the guard.
OnStoreError(r) ==
  IF StrictRoute(r)
    THEN Reply(r, "unavailable")
    ELSE /\ pc' = [pc EXCEPT ![r] = "executing"]
         /\ UNCHANGED answer

\* The get rejects.
LookUpFails(r) ==
  /\ pc[r] = "idle" /\ sent[r].header # NoHeader
  /\ OnStoreError(r)
  /\ Meet(r)
  /\ Outage
  /\ UNCHANGED <<sent, misled, guarded, store, unwritten, effects>>

\* The get fails and resolves with nothing, whatever the key holds: to the
\* interceptor the key is free.
Overlook(r) ==
  /\ pc[r] = "idle" /\ sent[r].header # NoHeader
  /\ pc' = [pc EXCEPT ![r] = "unclaimed"]
  /\ Meet(r)
  /\ misled' = (misled \/ store[KeyOf(r)] # "absent")
  /\ Outage
  /\ UNCHANGED <<sent, guarded, store, unwritten, effects, answer>>

\* The set rejects; it may have reached the store all the same.
ClaimFails(r) ==
  /\ pc[r] = "unclaimed"
  /\ OnStoreError(r)
  /\ store' \in {store, [store EXCEPT ![KeyOf(r)] = "PROCESSING"]}
  /\ Outage
  /\ UNCHANGED <<sent, doubled, misled, guarded, unwritten, effects>>

\* The set fails and resolves: the request executes behind a claim that the
\* store does not have.
ClaimVanishes(r) ==
  /\ pc[r] = "unclaimed"
  /\ guarded' = [guarded EXCEPT ![r] = TRUE]
  /\ pc' = [pc EXCEPT ![r] = "executing"]
  /\ misled' = TRUE
  /\ Outage
  /\ UNCHANGED <<sent, doubled, store, unwritten, effects, answer>>

-----------------------------------------------------------------------------
(* The controller, and the pipe behind it.                                 *)

\* Mutant: the pipe put behind the unguarded execution, too.
LaterAlways(r, what) == unwritten' = [unwritten EXCEPT ![r] = what]

\* Only an execution behind its own claim is piped.
Later(r, what) ==
  unwritten' = [unwritten EXCEPT ![r] = IF guarded[r] THEN what ELSE "nothing"]

\* The handler changes the database and returns; tap() starts to save.
Succeed(r) ==
  /\ pc[r] = "executing"
  /\ effects' = effects \cup {r}
  /\ Reply(r, r)
  /\ Later(r, "response")
  /\ UNCHANGED <<sent, doubled, misled, guarded, store, budget>>

\* The handler throws; catchError starts to remove the claim.
Throw(r) ==
  /\ pc[r] = "executing"
  /\ Reply(r, "error")
  /\ Later(r, "removal")
  /\ UNCHANGED <<sent, doubled, misled, guarded, store, effects, budget>>

\* The commit succeeded but its acknowledgement was lost (the connection to
\* PostgreSQL broke): the handler throws after its effect.
ThrowAfterCommit(r) ==
  /\ pc[r] = "executing" /\ lostAcks < MaxLostAcks
  /\ effects' = effects \cup {r}
  /\ Reply(r, "error")
  /\ Later(r, "removal")
  /\ lostAcks' = lostAcks + 1
  /\ UNCHANGED <<sent, doubled, misled, guarded, store, outages, crashes, expiries>>

\* The process dies while the handler runs, before or after its commit.
Crash(r) ==
  /\ pc[r] \in {"unclaimed", "executing"} /\ crashes < MaxCrashes
  /\ effects' \in IF pc[r] = "executing" THEN {effects, effects \cup {r}}
                                         ELSE {effects}
  /\ Reply(r, "nothing")
  /\ crashes' = crashes + 1
  /\ UNCHANGED <<sent, doubled, misled, guarded, store, unwritten, outages, expiries, lostAcks>>

-----------------------------------------------------------------------------
(* The writes nobody waits for, and the clock of the store.                *)

WrittenValue(r) == IF unwritten[r] = "response" THEN r ELSE "absent"

\* cacheManager.set of the response, or cacheManager.del, takes effect.
Land(r) ==
  /\ unwritten[r] # "nothing"
  /\ store' = [store EXCEPT ![KeyOf(r)] = WrittenValue(r)]
  /\ unwritten' = [unwritten EXCEPT ![r] = "nothing"]
  /\ UNCHANGED <<sent, doubled, misled, pc, guarded, effects, answer, budget>>

\* The store fails at the write, or the process dies first: it is logged at most.
LoseWrite(r) ==
  /\ unwritten[r] # "nothing"
  /\ unwritten' = [unwritten EXCEPT ![r] = "nothing"]
  /\ Outage
  /\ UNCHANGED <<sent, doubled, misled, pc, guarded, store, effects, answer>>

Expire(k) ==
  /\ store[k] # "absent" /\ expiries < MaxExpiries
  /\ store' = [store EXCEPT ![k] = "absent"]
  /\ expiries' = expiries + 1
  /\ UNCHANGED <<sent, doubled, misled, pc, guarded, unwritten, effects, answer, outages, crashes, lostAcks>>

-----------------------------------------------------------------------------
Intercept(r) == NoKey(r) \/ LookUp(r) \/ Claim(r)
Finish(r) == Succeed(r) \/ Throw(r)

Next ==
  \/ \E r \in Requests :
       \/ Intercept(r) \/ Finish(r) \/ Land(r)
       \/ LookUpFails(r) \/ Overlook(r) \/ ClaimFails(r) \/ ClaimVanishes(r)
       \/ ThrowAfterCommit(r) \/ Crash(r) \/ LoseWrite(r)
  \/ \E k \in CacheKey : Expire(k)

Spec == Init /\ [][Next]_vars

-----------------------------------------------------------------------------
(* Properties.                                                             *)

\* Every variable holds a value of its kind.
TypeOK ==
  /\ sent \in [Requests -> Sent]
  /\ pc \in [Requests -> {"idle", "unclaimed", "executing", "over"}]
  /\ guarded \in [Requests -> BOOLEAN]
  /\ store \in [CacheKey -> {"absent", "PROCESSING"} \cup Requests]
  /\ unwritten \in [Requests -> {"nothing", "response", "removal"}]
  /\ effects \subseteq Requests
  /\ answer \in [Requests -> Requests \cup {"none", "bad request", "conflict",
                                  "unavailable", "error", "nothing"}]
  /\ doubled \in BOOLEAN /\ misled \in BOOLEAN
  /\ outages \in Nat /\ crashes \in Nat
  /\ expiries \in Nat /\ lostAcks \in Nat

Keyed(r) == sent[r].header # NoHeader

\* What no line of the interceptor provides: no two requests of a key met
\* before the claim, no failing store hid a taken key or a lost claim, no claim
\* or response expired, and no handler threw after its commit.
Calm == ~doubled /\ ~misled /\ expiries = 0 /\ lostAcks = 0

\* No key of a strict route has changed the database twice.
OneEffectPerKey ==
  \A q, r \in effects : SameKey(q, r) /\ Keyed(r) /\ StrictRoute(r) => q = r

\* On a strict route a key changes the database at most once while it is Calm,
\* however often the client repeats it, and although processes die in the
\* middle, store calls are rejected, claims that were rejected are in the store
\* and its writes arrive late or never.
AtMostOneEffect == Calm => OneEffectPerKey

\* Whatever happens, a client that is told of a success is told of one that
\* took place, for the route and key it asked about.
ReplayIsFaithful ==
  \A r \in Requests :
    answer[r] \in Requests => answer[r] \in effects /\ SameKey(answer[r], r)

\* A saved response stays, while it is Calm: no late removal and no later claim
\* takes it away, so that every later retry is told of the first success.
ResponseIsFinal ==
  [][Calm' => \A k \in CacheKey : store[k] \in Requests => store'[k] = store[k]]_vars

\* While it is Calm no two requests of one key execute behind the claim at the
\* same time, on strict and other routes: what the interceptor calls preventing
\* double clicks holds for clicks that do not fall between a look-up and its
\* claim, and only for those.
OneBehindTheLock ==
  Calm => \A q, r \in Requests :
            /\ SameKey(q, r)
            /\ pc[q] = "executing" /\ guarded[q]
            /\ pc[r] = "executing" /\ guarded[r]
            => q = r
=============================================================================
