# QuickBite core service: TLA+ models and proofs

The core service (`backend/`, NestJS on PostgreSQL, Redis and RabbitMQ) keeps the
restaurants, branches, products and stock of a food ordering platform, its users,
staff and delivery addresses. An order service, which is another repository, reserves
and releases stock through its internal API and listens to its product events.

This directory models the parts of it whose correctness depends on the order in which
several actors do things. Each module is translated from the code; comments in the modules name
the function an action stands for, and `PROJECT.json` has the lines of each definition.

## 1. Inventory

| Component | State | Operations | Interacts with |
|---|---|---|---|
| Branch stock (`product.service.ts`, `product.repository.ts`, `product-branch-details.repository.ts`) | `product_branch_details`: price, stock, availability per branch and product | reserve, release, branch part of PATCH | outbox (same transaction), idempotency (in front) |
| Transactional outbox and worker (`lib/events`, `worker.ts`, `pkg/messaging`) | `events_outbox`; one drain per worker process; the broker connection | insert, claim, publish, mark | every producer of product events; the exchange |
| Idempotency interceptor (`lib/idempotency`) | one Redis value per method, URL and header | look up, claim, save or remove | controllers of register, login, reserve-stock, ... |
| Address book (`app/address`) | `customer_addresses` | create, update, delete, list | order service reads it |
| Credentials (`auth.service.ts`, `password-reset.repository.ts`, parts of `member.service.ts`) | `users.password_hash`, `password_resets`, `restaurant_members.status` | forgot, reset, accept invitation, PATCH of the status | mail |
| Catalog (`product.service.ts`, `category.repository.ts`) | `products`, `product_categories`, rows created by a trigger | create, update with category find-or-create and event fan-out | branch stock, outbox, media |
| Members (`member.service.ts`, `member-branch.repository.ts`) | `restaurant_members`, `member_branches` | invite, change role, delete, set branches | accounts, branches, tokens |
| Accounts and tokens (`auth.service.ts`, `user.service.ts`) | `users`; claims in JWTs | register, login, refresh, profile | members |
| Response cache (`lib/cache`) | Redis values, in-flight map per process | read through, join requests of one key | public GET routes |
| Cursor pagination (`lib/pagination`) | none | one page | list routes, response cache |
| Restaurants, branches (`app/restaurant`, `app/branch`) | `restaurants`, `restaurant_branches` | create, update, status | members, catalog, media, lists |
| Media (`app/media`, `pkg/s3`) | `media`, S3 objects, presigned URLs | presign, confirm, use | restaurants, catalog |
| Permission cache and guards | per-process map of role permissions (1 h) | read through | every guarded route |
| HTTP plumbing, clients of S3 and Mailjet, health, configuration | none that outlives a request | | |

What is hard in it, and the property a team would want:

- **Stock.** Concurrent calls on the same rows; several rows per call, locked in no fixed
  order; rollbacks, deadlock victims, answers lost after a commit. A call must take effect
  on all of its rows or none, never sell what is not there, and be told to consumers
  exactly as it happened.
- **Outbox.** Several workers over one table, ids that become visible out of order,
  publishes that fail in the middle of a batch, a worker that dies between publishing and
  marking, a connection that comes and goes. At least once, nothing uncommitted, no two
  workers on one row, and a row's changes in order.
- **Idempotency.** Look-up and claim are two calls; the response is saved behind the
  client's back; the store may fail at any of them, and need not say so. One effect per key.
- **Addresses.** "Clear the old default" and "write the new one" are two statements.
- **Credentials.** OTP look-up and consumption are two statements, and one write is not
  awaited; accepting an invitation spans three tables.
- **Catalog.** Values read before the transaction that writes them back, names found or
  created by two calls at a time, events for branches that are being opened. No change may
  be lost but to a call that overlapped it, and none goes untold.
- **Members and tokens.** A sign-up spans four tables; a branch list is replaced by two
  autocommit statements; a token is a copy of two reads and is copied on. Sign-ups whole,
  names unique, a token never opens what nobody granted, a deletion stays. A sign-up's
  transaction has a connection of the pool and its look-up takes another: all must end.
- **Lists.** Pages of a table that changes between them, sorted by one column that may tie,
  behind a cache that nothing clears. What stays must be shown once, a change must not be
  hidden for longer than the time to live, and no request may wait for one that is gone.
- **Restaurants, branches, media.** No route has a transaction: checks in one statement,
  the effect in another, and an object in S3 that the client can replace. What a customer
  sees was reviewed, and what was checked is still so, but for requests that overlap.

Every place where such a thing can go wrong is listed with its line and the properties that
would notice under `hazards` in `PROJECT.json`.

## 2. Modules

| Module | Role |
|---|---|
| `Stock` | reserve, release and PATCH of branch rows as READ COMMITTED transactions with row locks |
| `StockLedger` | abstract: each call is one atomic step; `Stock` implements it (`IsLedger`) |
| `StockAccounting` | `Stock` and the account a consumer keeps of its events (a recursive function) |
| `Outbox` | producers, workers, broker connection |
| `EventRelay` | abstract: at-least-once relay; `Outbox` implements it (`IsRelay`) |
| `Idempotency` | the interceptor in several API processes over one store |
| `Address` | the address book, one autocommit statement per action |
| `Credentials` | passwords, OTPs and the invitation of one account |
| `Catalog` | products, categories and rows per branch of one restaurant, with the events they cause |
| `CatalogBook` | abstract: each call is one step or none, with what it saw when it began; `Catalog` implements it (`IsBook`) |
| `Membership` | accounts, restaurants and their staff: sign-ups, changes of a member, the claims in tokens |
| `Listing` | clients paging through a list, the response cache of several processes, a table that changes |
| `Storefront` | restaurants, branches and uploads: what is shown to customers |
| `MC*` | instances for TLC |
| `*Proofs` | theorems and their proofs |

### Stock

`table` holds the committed rows of one branch, `lock` the row locks, `wrote` and `noted`
what an open transaction has written (row versions, outbox rows). A request goes
`idle -> locking -> written -> logged -> committed -> done`, one action per statement:
`LockRow`/`Block` are the `FOR UPDATE` (there is no `ORDER BY`, so rows are reached in any
order), `Decrement`, `Increment` and `Overwrite` the bulk UPDATEs, `InsertEvents` the
outbox rows, `Commit` and `Answer` the end. `RejectReserve` and `RejectMissing` are the
early exits, `Overflow` the INT column's error, `DeadlockVictim` PostgreSQL's detector,
`Fail` a lost connection or process, `LoseAnswer` a commit the caller never hears of. A
repeated product makes `UPDATE ... FROM (VALUES ...)` join one of its lines, which one
is not specified: `Joined` is the choice. A PATCH is of one row, as its route is. The price is left out; no property depends on it.

### Outbox

Rows go `absent -> open -> pending -> dispatched` or `open -> rolledback`. A drain is one
transaction: `StartDrain` takes the snapshot, `Scan` visits a row (skipping those another
drain has locked and those dispatched since), `Arrive`/`Confirm`/`Reject` publish one by
one, `Mark` writes `dispatched_at` and `attempts` and commits. `Crash` is anything that
rolls the drain back. `Disconnect` makes unconfirmed messages go out again after
`Reconnect`, as the channel wrapper does. Producers insert under the row lock of their
aggregate (stock, price) or without (`LockModes`: the fan-out of product meta events).
`skipped` is history: the rows that a drain passed over because another one had them. The
code's `SKIP LOCKED` makes this possible as soon as there are two workers, and it is the one
way in which two changes of one row are heard in the wrong order.

### Idempotency

`LookUp`, `Claim` and the handler are separate actions, because each is awaited; `Land`
is the un-awaited `set`/`del` reaching the store and `LoseWrite` its not doing so. The
catch block (`OnStoreError`) answers 503 on strict routes and executes unguarded elsewhere.
Two requests of one key that both look up before either claims both execute, although the
code calls this "PREVENT DOUBLE-CLICKS"; `doubled` remembers that it has happened. The properties
about executions are stated for histories without it, without a failure that the store hides
(`misled`), without an expiry and without a lost acknowledgement (`Calm`); `ReplayIsFaithful`
needs no such condition. A store that fails does one of two things. It rejects the call, which leads to the
catch block (`LookUpFails`, `ClaimFails`); or it reports the error as an event and resolves,
as cache-manager 7 does for a `get` and Keyv for a `set` unless told to throw: then the key
looks free (`Overlook`) or the claim is not there (`ClaimVanishes`), and the request executes.
`ThrowAfterCommit` is a handler whose COMMIT took effect but whose acknowledgement was lost.

### Address

`Begin`, `Clear`, `Insert`/`Update`/`SkipUpdate`/`Delete`, `Reread` follow the service and
its repository. `text` remembers which request's fields a row holds, `setter` which
request made it the default, `before` which requests were over when one began; the last two are history
variables for the properties. `Runs` is the repository's test of the number of columns: an
update of one field is answered "Address updated" and writes nothing (`SkipUpdate`), and
`{isDefault: true}` alone clears the old default and sets none. `AnsweredUpdateStands` is
therefore stated for updates of several fields.

### Credentials

One account, its OTP rows `1 .. nextId - 1`, its password (named after the request that
chose it) and its membership. `wrote` is what an open `acceptInvite` transaction has changed
and locked. `SendPassword` differs with the caller, as in the code: inside a transaction the
statement queues on its connection, outside it is only sent (`late`), and `Land` or
`Lose` decide about it at any time afterwards.

### Catalog

`products` holds one row per id with `carried`, the branches it has rows for; `maker` and
`opener` say who made each category and branch, and `creator`, `asker`, `writer` of a row who
inserted it and who last asked for its category and for its name or image: that is what
the rows and events are attributed to. A request goes `idle -> open -> (inserting) ->
resolved -> (saved) -> told -> detailed -> over`, one action per statement, and what it
writes (`making`, `draft`, `posted`) is seen by others at `Commit` only. `ReadProduct` is
outside of the transaction, as in the code: the category it reads is written back by
`SaveProduct`. A unique index makes `InsertCategory` wait for an uncommitted row of the same
name and fail (`LoseCategory`) on a committed one; rows are locked by whoever has written
them. `CreateProduct` includes the trigger, `Refuse` stands for all checks before the
transaction, `Fail` for a statement that fails or a process that dies. Category names stand
for category ids: they are unique per restaurant, and no code renames or deletes one. A
branch that is opened later never gets rows of the products that were there; the code
has no statement that would insert them, and neither has the model.

`CatalogBook` forgets the statements. A call begins (`See`) and later takes effect whole
(`Create`, `Update`, `OpenBranch`), or ends without effect, with a reason that is true at
that moment (`Miss`, `Lose`) or with none (`Abandon`). Between the two it remembers the
category that it writes back, the branches that a new product must at least have rows for, and the
names that were there. What the code may do with stale reads is thus in three places of the
book, and nowhere else.

### Membership

A user is his e-mail and phone; `account[u]` says which request made his account, and his
restaurant, his `member` row and his branch `list` go by the same name (an account is a
member of one restaurant at most, and nobody owns two: a second membership would need a sign-up
with a taken e-mail). A sign-up is one transaction and goes `idle -> open -> checked -> named ->
(housed) -> (joined) -> (listed) -> over`; `OpenSignUp` takes one of `PoolSize` connections,
`CheckNames` needs a second for its look-up, which leaves the transaction out, and `GiveUp` is knex's
time-out when there is none. `draft` holds what it has inserted, and
`CommitSignUp` shows it to the others. Between `CheckNames` and `InsertUser` the code hashes a
password. `NamesFree` is PostgreSQL's wait for an uncommitted row with the same unique key.
`ReadMember` is the check that `updateMember`, `deleteMember` and `updateMemberBranches`
begin with; what follows writes whatever the row has become. `WipeList` and `FillList` are
the two autocommit statements of a PUT of the branches, `DeleteList`, `DeleteMember` and
`CommitDeletion` the transaction of a DELETE, whose rows (`gone`) make others wait (`Locked`,
`Removing`). `FindUser`, `ReadRole` and `ReadList` are a login, `Refresh` copies the `claims`
of an earlier token. `before` and `lister` are history. An acceptance is here the
one statement that activates; its transaction is in `Credentials`, whose `status` is this
module's `member[u].status`.

### Listing

A walk is a client that asks for page after page until there is no `nextCursor`. `PagesOf`
is the page that PostgreSQL and `buildPaginationResult` may make of the table now (rows that
tie come in any order); `Printed` is what a key becomes as text: numbers stay, a
`Date` loses its microseconds. A request is `Hit` or `Miss` when Redis executes its GET, `Join`
when it is back in its process, which lets one request of a key through to PostgreSQL
(`Query`) and gives the answer to those that wait (`Complete`); `FailQuery` and `Crash` end them all.
A SET is under way in `sets` from `Complete` to `Land`, or for ever. `Overlook` and
`Bypass` are the two ways a failing store shows. `Write` changes the table in any way that
`Tables` allows, and nothing clears the cache, as in the code. `Slot` is the cache key:
the URL, but for `/branches/nearby` (`Nearby`) the position alone. A filter
and a restaurant's id only say which table is listed. Routes without the cache are walks
whose every request misses.

### Storefront

A request goes `idle -> (found) -> checked -> over`: its reads with the service's checks
(`FindBranch`, `FindActiveRestaurant`, `FindRestaurant`, `AssertCompletedMediaUrl`, `FindMedia`,
`Head`) and the one statement at the end. `Put` is a client with a presigned URL, which stays
good until `Expire` whatever the service does. History variables say who set a status last
(`reviewer`), which request changed a branch under which status (`kept`), what an admin last
said of a branch (`word`), how often an object had been put when a HEAD accepted it (`headed`).
The guards in front of the routes depend on the token alone: what they turn away never begins.
The uploads there to begin with are unconfirmed. Names are such that `ListingProofs` can extend
this module together with `Listing`: `place`, `ShopInit`, `ShopNext`, `ShopSpec`.

## 3. Runs

| Run | Checks | Bounds and what they reach |
|---|---|---|
| `stock` | `StockInRange`, `EventsAccountForStock`, `IdsFollowCommits`, `IsLedger`, `EveryCallEnds` | 3 requests, 2 rows and a product without one, 6 calls: both rows locked in opposite orders with a third call queueing behind them, exact exhaustion, overflow (the column is cut to 0..3), missing rows |
| `outbox` | `CopiesNeedFaults`, `DisorderNeedsTwoDrains`, `IsRelay`, `EveryEventDispatched` | 2 workers, batches of 2 (full and partial), 1 fault of any kind, 3 events: two changes of one row under its lock and another product's event between them, whose ids become visible in any order the locks allow |
| `idempotency` | `AtMostOneEffect`, `ReplayIsFaithful`, `OneBehindTheLock`, `ResponseIsFinal` | 3 requests, strict and lenient route, 2 store failures (rejected or hidden), 1 crash, 1 expiry, 1 lost acknowledgement, double-clicks |
| `address` | `TwoDefaultsNeedOverlap`, `AnsweredUpdateStands` | 3 requests out of 10 calls, 2 users, 3 rows and 3 to come; updates of one, two and three columns |
| `credentials` | `ReuseNeedsOverlap`, `FailedAcceptLeavesNoTrace`, `OneAcceptance`, `InvitedChoosesPassword` | 3 requests, the invitation's OTP and one more |
| `credentials_unsaved` | `AnsweredResetIsSaved` (violated) | 2 resets |
| `catalog` | `CategoryLossNeedsOverlap`, `RowsCoverBranches`, `EveryChangeIsTold`, `NoCircle`, `IsBook`, `EveryCallEnds` | 3 requests out of 6 calls, 2 categories of which one is new, 2 branches of which one is opened meanwhile, 1 product and 3 to come: two inserts of one name, a stale category written back while a third call changes it, a branch opened in the middle of a creation |
| `membership` | `NamesAreUnique`, `SignUpsAreWhole`, `MixedListNeedsOverlap`, `AccessWasGranted`, `ClaimsAreCurrent`, `DeletionIsFinal`, `EveryCallEnds` | 3 requests out of 11 calls, 4 people of whom two want one telephone, 2 restaurants, 3 branches, a pool of 3 connections: three sign-ups that hold them all and wait for a fourth, two that race past the look-up, two PUTs around a DELETE, a login whose reads a change divides and the refresh of its token |
| `membership_owner` | `OwnersAreKept` (violated) | 2 requests, 4 calls |
| `listing` | `RowsShownOnce`, `StaleEntryNeedsLateSet`, `OneQueryPerProcess`, `EveryRequestEnds` | 2 walks in either order, 2 processes, 2 rows, pages of 1 row, 1 change of the table (a row is hidden, moved behind the other, ties within a millisecond, loses its key), 1 tick, which is the time to live, 1 fault |
| `listing_nearby` | `NoRowTwice` (violated) | 1 walk through `/branches/nearby`, no fault |
| `storefront` | `KeptWhileActive`, `VisibleByReview`, `LogoWasConfirmed`, `SwapNeedsLatePut` | 3 requests out of 16 calls of an owner, a manager and an admin, 2 restaurants, 2 branches and 2 uploads of which one of each is there, 2 puts per object |

Why the bounds are enough. Conflicts over rows, keys, claims and OTPs are between two actors;
the third gives each pair someone who comes before, between or after them. Two rows suffice for
opposite lock orders. Three events make a batch of two that is followed by another, and let one
worker pass over an event that the other holds. Two rows and pages of one make two page
boundaries; two walks are what it takes to share a query, a cache entry and its late SET. The
safety properties that hold are also proved without these bounds (section 5), all of them. Type invariants are proved, hence in no run. Deadlock checking is off where
requests are finitely many and the system comes to rest. The outbox run checks for deadlock: a
worker can always start a drain.

## 4. Fairness

- `Stock!FairSpec`: weak fairness of each request's own statements. The event loop and
  PostgreSQL keep running an open request, a queued lock is granted when it is free, and the
  deadlock detector runs (it is part of PostgreSQL's lock wait, `deadlock_timeout`). Requests
  need not begin.
- `Outbox!FairSpec`: weak fairness of each worker's drain (`worker.ts` schedules it every
  second and starts it again after a failure) and of the reconnection (the connection manager
  retries for ever). Faults are finitely many; nothing is assumed about when. No fairness for
  producers: a transaction may stay open for ever without stopping the others' events.
- `Catalog!FairSpec`: weak fairness of each request's statements, once it has begun. No
  deadlock detector is assumed: `EveryCallEnds` shows that none is needed, because category,
  product and branch row are locked in this order by every call. `NoCircle` is the safety part
  of it, and is proved for any number of calls.
- `Membership!FairSpec`: weak fairness of each request's statements, once it has begun;
  PostgreSQL grants a lock when the transaction that has it ends. Each statement takes its
  rows in one step: between statements no cycle of waits can arise. Within one
  (two INSERTs of the same branches in opposite orders, the cascade of a DELETE that meets
  rows another DELETE has) PostgreSQL's detector ends a cycle with an error, which is `Fail`.
  `GiveUp` is among the steps that are fair, because knex's timer runs whatever the others do
  (60 s by default, and the code sets no other); without it `EveryCallEnds` fails.
- `Listing!FairSpec`: weak fairness of each request's own steps in its process: the event
  loop runs and PostgreSQL answers or fails. Clients need not go on, SETs need not arrive.

## 5. Proofs

| Theorem | States | Assumes |
|---|---|---|
| `StockProofs!TypeCorrect`, `StockStaysInRange`, `CommitsFollowIds` | `TypeOK`, `StockInRange`, `IdsFollowCommits` | the constants' assumptions |
| `StockProofs!StockIsLedger` | `Stock` implements `StockLedger` | no call names a product twice (`OneLineEach`) |
| `StockProofs!EventsTellTheStock` | `EventsAccountForStock` | the same |
| `OutboxProofs!OutboxTypeCorrect`, `ClaimsExclusive`, `CopiesAreFaults`, `DisorderTakesTwoDrains`, `OutboxIsRelay` | `TypeOK`, `ClaimsDisjoint`, `CopiesNeedFaults`, `DisorderNeedsTwoDrains`, `IsRelay` | the constants' assumptions |
| `IdempotencyProofs!IdempotencyTypeCorrect`, `ReplaysAreFaithful`, `OneAtATime`, `OneEffect`, `ResponsesStay` | `TypeOK`, `ReplayIsFaithful`, `OneBehindTheLock`, `AtMostOneEffect`, `ResponseIsFinal` | the constants' assumptions (the last three properties speak of `Calm` histories: no two requests of a key met before the claim, the store hid no failure, nothing expired, no acknowledgement was lost) |
| `AddressProofs!AddressTypeCorrect`, `DefaultIsUnique`, `UpdatesStand` | `TypeOK`, `TwoDefaultsNeedOverlap`, `AnsweredUpdateStands` | the constants' assumptions |
| `CredentialsProofs!CredentialsTypeCorrect`, `OneUseInSequence`, `AcceptIsAtomic`, `AcceptedOnce`, `PasswordIsChosen` | `TypeOK` and the four invariants of `credentials` | the constants' assumptions |
| `CatalogProofs!CatalogTypeCorrect`, `UncommittedLeavesNoTrace`, `CategoryStays`, `ConflictsHaveAWinner`, `NewProductsAreCarried`, `ChangesAreTold` | `TypeOK`, `NoTraceWithoutCommit`, `CategoryLossNeedsOverlap`, `ConflictNeedsOverlap`, `RowsCoverBranches`, `EveryChangeIsTold`; the second and the fourth of these say of the tables and of a 409 what `IsBook` says too, and are in no run | the constants' assumptions |
| `CatalogProofs!CatalogIsBook`, `LocksAreOrdered` | `Catalog` implements `CatalogBook` (`IsBook`); `NoCircle` | the same |
| `MembershipProofs!MembershipTypeCorrect`, `NamesStayUnique`, `SignUpsStayWhole`, `ListsMixInOverlapsOnly`, `AccessIsGranted`, `ClaimsWereCurrent`, `DeletionStays` | `TypeOK`, `NamesAreUnique`, `SignUpsAreWhole`, `MixedListNeedsOverlap`, `AccessWasGranted` and the action properties `ClaimsAreCurrent`, `DeletionIsFinal` | the constants' assumptions (the tables to begin with are in order) |
| `ListingProofs!ListingTypeCorrect`, `OneQueryAtATime`, `StaleEntriesNeedLateSets` | `TypeOK`, `OneQueryPerProcess`, `StaleEntryNeedsLateSet` | the constants' assumptions (times printed are not later than they are, and in their order) |
| `ListingProofs!RowsAreShownOnce`, `NoRowIsShownTwice` | `RowsShownOnce`, `NoRowTwice` | the same, and a cache key that has the cursor (`~Nearby`) |
| `ListingProofs!StorefrontIsTyped`, `AdminsShowBranches`, `LogosWereConfirmed`, `OnlyLatePutsSwap`, `BranchesAreKeptWhileActive` | `ShopType`, `VisibleByReview`, `LogoWasConfirmed`, `SwapNeedsLatePut`, `KeptWhileActive` | the constants' assumptions of `Storefront` |

Arguments, in short:

- *Stock.* Whoever has written a row holds its lock, and a request that is past `locking`
  holds the locks of all rows it wrote; so what it computed from the committed row is still
  true when it commits. Event ids are drawn under those locks, hence a product's pending
  ids are greater than all its committed ones. The refinement maps `Commit` to the ledger's
  step of the call, a rejection to `Refuse`, other ends to `Abandon`, and the rest to stutters.
  The account (`AccountInv`): some running balance of a product, from its opening stock over its
  committed events by id, ends at the stock that is in the table (`Accounted`), and a call that
  is about to commit holds the events of what it has changed (`Noted`). That the
  balance of the property is that one needs no induction over data: were two balances of the same
  events to differ, they would do so at a least id (`LeastNumber`), and one step of the definition refutes that.
- *Outbox.* `OutboxInv`: ids from `nextId` on are absent (`Serial`), a claimed row is pending
  and no one else's (`ClaimsDisjoint`, `Claims`), what is confirmed or on the wire has been
  heard (`Wires`). So `Mark` settles heard events only. `OrderInv` adds the order: of two
  changes under one row's lock the later is inserted when the earlier's transaction has ended
  (`LocksSerialize`), so a snapshot with the later one has the earlier one, and the scan in the
  order of the ids claims it first or skips it (`ScansInOrder`). `CopyInv` counts: an event
  has been heard as often as there were faults at most, and once more if it is dispatched or some
  drain has it and has had it confirmed or on the wire (`Spoken`).
- *Idempotency.* `KeyInv`: while the history is `Calm`, the store tells the truth about who is
  behind a key (`StoreTells`), and a look-up reads it; a key that has been claimed on a strict
  route is never absent again while an execution with it may have had its effect; `Spent` says
  which keys those are. Unbounded retries then meet `PROCESSING` or the response. `ReplayInv`
  holds in every history: what is stored, or on the way to the store, as a response is that of
  an execution under its own key.
- *Address.* `Cleared`: once a request has cleared, every default of its user was set by
  a request that was not over when it began. `TwoDefaultsNeedOverlap` alone is not inductive:
  it does not say what happens between the two statements. `UpdateInv` follows an update from its
  statement to its answer: whose text the row has was not over when it began.
- *Credentials.* `CredInv` ties each phase to what has been locked and written, an
  OTP's consumption to a request that used it, and activation to the password
  written in the same transaction.
- *Catalog.* `CatInv` says of each request what the version it has written shares with the
  table (`Version`: the row's lock keeps that true), which events it holds (`Told`), and
  which branches it has covered (`Covered`). The category needs most: `Stale` says that
  one read and not asked for is still right, or somebody has asked since, or it had been lost
  already; so that `RightCategory`, which also remembers that the request that overwrote it
  overlapped with the asker, survives the write-back. Steps that change no
  table are covered by one lemma (`LocalStep`); opening a branch and committing have their own.
  For the book it is not enough to say what a call's version may be, it must be what the book
  writes: `BookInv` adds that a request past each phase has made exactly the category it names
  if that was free (`Named`), written exactly the row of the book (`Drafted`) and posted exactly
  its events (`Posted`). `Commit` is then the book's effect, `Refuse` and `Fail` are `Abandon`,
  and the statements between are stutters. `NoCircle` follows from the same invariants: who holds a branch row
  waits for nothing, who holds a product for branch rows at most, and of those that insert
  categories none has made one.
- *Membership.* `MemInv` has one part per request (`ReqInv`: its phase, what it has
  inserted, what it has read and whether somebody has changed that since), one per user
  (`UserInv`: his rows belong together, come from a whole sign-up, and his list is its writer's
  or mixed by an overlap) and one for the names. A step changes the rows of its own
  subject only (`Moves`) and is final (`Step`); `OtherRequests` and `OtherUsers` show once
  that everybody else's parts survive any such step, and each action is left with its own. That
  a token's branches are of the token's restaurant needs `Read`: the row a login has read
  is of the same restaurant as the row the list belongs to, because a row never changes it.

- *Listing.* `PagesFaithful`: every page, in an answer, a SET or the cache, says the truth about
  the rows that have not changed since its version (which of them are past its cursor, and
  that the rows it left out are not ahead of its end). So each page moves every steady row that
  does not tie with its end either behind the cursor and shown once, or not yet
  (`ShownSoFar`); `SamePrint` is what the lost microseconds need. `EntriesEnd`: an entry older than a change
  is gone a time to live after it, or landed later.

- *Storefront.* `ShopInv` says of each phase what its checks have seen and what others may have
  done to it since. A branch is never removed (`BranchesFound`), and what an admin said of it
  last is its status (`WordIsKept`). A confirmed upload stays confirmed, so a logo that has been
  checked may be written at any time (`LogoChecked`). An object has been put as
  often as the HEAD in hand has seen, or more often (`HeadsSaw`). A restaurant that a request found active
  is still so, or an overlapping request has changed it (`StatusChanged`).

Only model-checked: the liveness properties, `EveryCallEnds`, `EveryEventDispatched` and
`EveryRequestEnds`, because liveness under fairness and ENABLED are out of the prover's reach. What
the violated runs show is a trace, not a theorem.

## 6. Findings

1. `AnsweredResetIsSaved`: `updatePassword` is not awaited (`user.service.ts:47`).
2. `OwnersAreKept`: a PATCH may change an owner's role (`member.service.ts:202` looks
   at the new role only), after which the DELETE that "cannot delete the restaurant owner" does.
3. `NoRowTwice`: `/branches/nearby` is cached under the rounded position alone
   (`cache.interceptor.ts:47`): asked for `nextCursor` it answers with the first page again.

Other behaviours are in the models, and stand as conditions in properties:

- Two requests of one key that look up together both execute
  (`idempotency.interceptor.ts:53` and `:64`, under "PREVENT DOUBLE-CLICKS"): `Calm`.
- The 503 "Idempotency storage is unavailable. Request blocked." (`idempotency.interceptor.ts:68`)
  is for store calls that reject. A `get` (`:53`) that resolves with nothing while the store
  fails, or a `set` (`:64`) that resolves and stores nothing, makes a strict route execute
  a key again, and the new claim overwrites the first response: `misled`, in `Calm`.
- A PATCH of one field of an address is answered and not written (`address.repository.ts:111`;
  line 110 means to leave out empty bodies only): `Columns(r) > 1` in `AnsweredUpdateStands`.
- With several workers a consumer may hear two changes of one product in the wrong order
  (`outbox.repository.ts:69`): `DisorderNeedsTwoDrains` says when.
- As many sign-ups as there are connections wait for each other until knex gives up
  (`user.repository.ts:59` does not use the transaction): `GiveUp`.
- Rows that tie with the end of a page may be skipped, or come again where the cursor is a
  timestamp: `Clear`. A SET that was under way keeps an old page for a whole time to live.
- A confirmed upload can be replaced while its URL is good: `SwapNeedsLatePut`.
- `createWithOwner` makes a restaurant whose owner has no row in `restaurant_members`.
- A product on two lines of one call loses or gains only one line's quantity
  (`product.repository.ts:256`): `IsLedger` is proved under `OneLineEach`, and no call of
  the instance repeats a product.
- Resets that overlap may use the same OTP (`password-reset.repository.ts:68`), and consuming
  the latest one makes an earlier one valid again: `ReuseNeedsOverlap` says that each
  is still used once.

## 7. What is not modelled

- A statement that PostgreSQL executes after the process that sent it died; a multi-row
  UPDATE is one step (its row locks are taken before it).
- Two different OTPs with the same digits; OTP expiry is a step that may come at any time.
- The PATCH of a profile, which may change a phone: one statement under the same unique
  index.
- Filters of a list (they choose its table), limits beyond the default (`Limit` is any
  positive number), several sort columns one after the other by one client.
- The product routes check an image as the logo's check does; `Storefront` has the logo only.
- Guards and the permission cache: functions of a token and its route; no code changes what
  they read.
- Removal of restaurants, branches and uploads: no route does it.
- The wording of answers, validation that only rejects, logging.
- The components marked `not_modelled` in `PROJECT.json`, with the reason for each.

## 8. Plan

Done: stock, outbox, idempotency, addresses, credentials, catalog, membership with its
connection pool, lists with their cache, storefront. What would add most to it:

1. **Checkout**: `Idempotency`, `StockLedger` and `EventRelay` composed with the order
   service as an external client that retries: one reservation per order, stock projections
   that converge.
2. **Waits in `Membership`**: that the waits for names, rows and lists form
   no circle, with a DELETE of several rows taken row by row, in which case it may not hold.
3. **The profile's PATCH** in `Membership`, which changes a phone under the unique index.

A composed run may take the place of the runs of its parts.
