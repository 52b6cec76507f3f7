# Verification of the food ordering platform

TLA+ modules that model the platform's services, TLC configurations that check
them on small instances, and theorems about them whose proofs TLAPS checks for
every value of the constants. Each definition is translated from the TypeScript
source; `PROJECT.json` says, definition by definition, from which lines.

To check a module by hand: `tlc -workers 2 -config Checkout.cfg MCCheckout.tla`,
`tlapm Checkout_proofs.tla`.

## 1. The system

A browser application (`apps/web`) talks to one REST gateway and, for live order
status, to a WebSocket gateway. Behind the REST gateway are four gRPC services,
each with several replicas. Kafka carries events between them.

```
 web ── REST ── gateway ── gRPC ──┬─ identity   Postgres, Redis ──┐
  │                               ├─ catalog    Postgres, Redis   │ user.registered,
  │                               ├─ cart       Redis, Postgres   │ user.otp.requested,
  │                               └─ order      Postgres, Redis ──┤ order.created/paid/
  │                                   │ gRPC: cart, catalog       │ failed/status.changed
  └── WebSocket ── realtime ──────────── Kafka ── notification ───┘
                   (Redis pub/sub, presence)
```

| component | its state | operations that change it | what is hard about it |
|---|---|---|---|
| order: checkout | `orders` and their items, `order_idempotency`, the Redis lock `lock:order:{userId}` | PlaceOrder: key lookup, lock, lookup again, cart, catalog, transaction, ClearCart, release | a 5 s lock that nothing extends; retries with the same key; a failure at any of nine awaits; the lock is deleted by whoever is in the `finally`; an addItem under a checkout |
| order: lifecycle | `orders.status`, `soft_deleted`, `order_status_history` | CancelOrder (owner, admin), finalizeOrder (charge, markStatus), their events | the row is read without a lock and written by TypeORM's `save()`; cancellation and payment race; redelivery |
| order: outbox and finalizer | `order_outbox`, topic `order.created`, offsets of `order-finalizer` | claim, publish, mark; subscribe, fetch, handle, commit | the timer starts ticks that overlap; at-least-once delivery; a tick that dies between publishing and marking |
| identity: sessions | `sessions`, `refresh_tokens`, the denylist `revoked:jti:*` | login, refresh with rotation and reuse detection, logout, revokeSession, logoutAll | no transaction spans two statements, so refreshes race each other and every revocation; partial failure of a revocation |
| identity: one-time codes | `otp:*`, `otp:attempts:*`, `rl:otp_request:*` in Redis | requestOtp, verifyOtp | GET, comparison and DEL are three steps; INCR and EXPIRE are two; two requests overlap |
| identity: accounts | `users`, `credentials`, `user_roles`; the seeded admin | register, loginPassword, assignRole, seeding by each replica at its start | registrations and seeds race for unique columns; the row, the credential and the event are three steps; two assignRole delete and insert |
| catalog | `products`, `variants`, the cache `product:{id}`, `catalog:list:*` | create, update, delete of products and variants, cache fill and invalidation, truncation at start | stale cache fills; `save()` with cascade writes variants another admin has changed |
| cart | the Redis hash `cart:{userId}`, the snapshot `carts` | addItem, updateItem, removeItem, clearCart, priceCart | read-modify-write without a lock; a pipeline that is not a transaction; two stores |
| notification | `notifications`, `notification_delivery`, DLQ topics | a message's jobs, their attempts, dead letters | retries around a provider whose answer is not known; a throw that drops the jobs behind it; redelivery |
| realtime | maps of one replica, pub/sub, `ws:presence:*` | connect, disconnect, heartbeat | two event handlers of one loop that interleave at awaits |
| gateway: auth | the refresh cookie, `rl:gw:*` counters | login, verify, refresh, logout, logout-all | guards read the denylist once, at the start; who answers last sets the cookie |
| web: signing in and out | access token in each tab's memory, `refreshPromise`, one cookie for all tabs | silentRefresh, the forms, the logout buttons, reloads | tabs that share one cookie refresh it each for itself; answers that are lost or late |
| web: order page | the order shown, `wsConnected`, requests under way | load on mount, on an event, on a 5 s tick; two hooks with a socket each | two sockets write one flag; requests overlap and fail; nobody reconnects |
| web: cart store and pages | the quantities on show, answers awaited, an Idempotency-Key per visit of the checkout page | edits shown at once and asked for after, their answers and rollbacks, the load of the cart page, Place Order | answers are taken as they come and replace the store; a rollback restores what was on show before; leaving a page does not stop its fetches, nor does a lost connection stop a PlaceOrder |
| gateway: other routes | – | one gRPC call per REST route | none beyond what the services do |
| libraries, infrastructure | none of their own | | |

What makes them correct, in a sentence each:

* **checkout** – an Idempotency-Key never has two orders, no cart line is sold
  twice, answers name committed orders, and nobody is locked out for good;
* **lifecycle** – what an order shows was charged or cancelled and is on record,
  events never precede facts, and an accepted order does not stay pending;
* **outbox** – every committed order reaches the finalizer, nothing else does;
* **sessions** – a family has one usable refresh token, a reuse is only detected
  when there was one, what was revoked stays revoked;
* **one-time codes** – one login per code, a bounded number of attempts at each,
  counters that end;
* **accounts** – no address has two accounts and none but the admin has the
  admin's, whoever registered can log in, the role last assigned is the role;
* **catalog** – what is stale in the cache has a known cause, and edits that do
  not mix all hold;
* **cart** – exact while calls do not overlap, never more than was asked for
  otherwise, and never without a TTL;
* **web: cart store** – a tab with nothing on its way shows the cart, and what is
  ordered is what was on show when Place Order was pressed;
* **notification** – no job is lost, none is sent again without a reason, a dead
  letter was really tried;
* **realtime** – limits are exact, one subscription per user, every open socket
  hears, nothing is left behind;
* **signing in and out** – a tab is not taken for a thief by what it did itself,
  the cookie works unless something named here ended it, a logout that was
  carried out ends its session;
* **order page** – a page with nothing on its way shows the order as it is, and
  one that is left to polling catches up.

## 2. The modules

`M.tla` has the component, `MCM.tla` its instance for TLC, `M_proofs.tla` its
theorems; `Delivery_proofs` has those of the three modules that a status passes on
its way to the page, Outbox, Realtime and OrderTracking, and `Otp_proofs`,
`Cart_proofs` and `Sessions_proofs` have those of the module that extends theirs. A VARIABLE is a table, a Redis key, a topic or the await a call is at;
an action is what runs between two awaits, with everything it changes. Replicas
do not appear as such: two calls may run anywhere and interleave at every await.
A replica that dies is a call that stops, with its transaction rolled back.

| module | code | its processes | abstract specification |
|---|---|---|---|
| Checkout | `OrderService.placeOrder`, `RedisCheckoutLock`, `TypeOrmOrderRepository.placeOrder`, addItem as it meets a checkout | PlaceOrder calls | OncePerKey: a key chooses one order, answers name it |
| OrderLifecycle | `cancelOrder`, `finalizeOrder`, `cancel`, `markStatus` | CancelOrder calls, deliveries of order.created | OrderRecord: a row is settled, cancelled, hidden |
| Outbox | `OutboxRelay`, `claimOutboxBatch`, `markOutboxPublished`, `OrderFinalizerWorker` | ticks, consumers | AtLeastOnce: only accepted orders are handed over, any number of times |
| Sessions | `IdentityService`: issueSession, refresh, logout, revokeSession, logoutAll | calls of one user | – |
| WebSession, which extends Sessions | `lib/api.ts`, `store/auth.ts`, `Providers`, `RequireAuth`, the login and logout buttons, the gateway's `AuthController` | tabs of one browser, other devices | Sessions: each step of a browser is one of Sessions or a stutter |
| Otp | requestOtp, verifyOtp, `RedisOtpStore`, `RedisRateLimiter` | requests, verifies | – |
| Accounts, which extends Otp | register, loginPassword, assignRole, `seed-admin.ts`, `TypeOrmUserRepository` and its migrations | registers, replicas at their start, logins, assignments | Otp: each step is one of Otp or a stutter |
| Catalog | `CatalogService`, `RedisCatalogCache`, `TypeOrmProductRepository` | admins, readers | – |
| Cart | `CartService`, `RedisCartStore`, the snapshot repository | calls of one user | – |
| Storefront, which extends Cart | `store/cart.ts`, the menu, product, cart and checkout pages, the gateway's cart and orders routes | one tab and its fetches, other devices, PlaceOrder | Cart: each step is one of Cart or a stutter |
| Notification | `NotificationKafkaWorker`, `NotificationDispatcher`, providers | the delivery of one message | – |
| Realtime | `OrderStatusGateway`, `PresenceStore`, `OrderStatusPubSub` | sockets of one user on one replica | – |
| OrderTracking | `app/orders/[id]/page.tsx`, `use-order-ws.ts`, getOrder, the Kafka bridge | requests of one page, sockets of two hooks | – |

How they meet: Checkout takes lines from the cart (Cart has the commands that
write them) and asks the catalog again for their prices; the orders it commits
are the rows of Outbox, whose `Handle` is one task of OrderLifecycle; verifyOtp
of Otp finds an account that Accounts registered, needs it to be there and ends
in the login of Sessions, whose calls are those WebSession's tabs make; the calls
that Storefront's tab awaits are calls of Cart, and its PlaceOrder takes the
cart's lines by two of them, as the order service does between the steps of
Checkout; the status that OrderTracking shows is one that OrderLifecycle wrote and
the socket it hears from is one of Realtime's; the events of OrderLifecycle are the
messages of Notification and what Realtime's sockets hear. Each module has the
part of its neighbour that it can observe, and no more: the product of all of
them would be out of TLC's reach and would not share a variable.

What the environment is taken to do, since its code is not in the repository:

* Postgres at READ COMMITTED, without locks on what is only read; a transaction
  whose connection is lost may have committed.
* TypeORM's `save()` selects the entity and its loaded relations again, writes
  the columns that differ from the object in memory, inserts what it does not
  find, and detaches what the object does not know, which a NOT NULL column
  turns into a rollback.
* Redis runs commands one at a time; a command may have taken effect although
  its reply was lost; a pipeline is not a transaction. A command takes effect once:
  ioredis may send what was not answered again after a reconnect, so that an INCR
  may count twice. No module has that: in Otp it would charge a try or a request
  too many, never too few.
* kafkajs runs one message at a time, commits its offset when `eachMessage`
  returns, and delivers again what was not committed.

## 3. The runs

| run | instance | what it shows | distinct states |
|---|---|---|---|
| Checkout | three calls of one user: a call, its retry with the same key, a call with another key; two cart lines | every property under `LockOutlivesCheckout`, with a failure or a crash at every await; a fair one ends with the lock free | 63 000 |
| Checkout_two_orders | the same with a lock that may expire | **violated**: a slow checkout lets its retry commit a second order for the key | – |
| Lifecycle | two deliveries of one order.created, an owner's and an admin's CancelOrder, one rejected await, one crash | consistency and refinement; what may cancel a settled order; an order is finalized unless an await rejected | 367 000 |
| Lifecycle_customer_cancels_paid | one delivery, the owner's CancelOrder, no fault | **violated**: a cancellation that read "pending" commits over a payment | – |
| Outbox | two orders, two replicas with a tick each, one fault | rows are marked once sent, no message is skipped, every order is handled | 211 000 |
| WebSession | two tabs, and any three calls of theirs or of another device | one usable token, revocations and logouts that hold, no tab that reuses its own token, what may end the cookie | 843 000 |
| Accounts | the codes of one user (two requests, three verifies, MAX_ATTEMPTS 2, limit 1) with another registration, two seeding replicas, a login, two assignRole | single use, attempts, expiry of counters, order of mails; unique addresses, one admin, logins of the registered, roles | 790 000 |
| Catalog | two changes, one reader, two variants, two prices | causes of staleness, edits that hold | 475 000 |
| Storefront | no tab and any three calls for two variants; or a tab with two visits of the checkout page, its calls and another device's | exactness, bounds, TTL of the cart; what the tab shows, what it orders, also when a POST it gave up on is served late | 870 000 |
| Notification | a message of each topic (one, two or three jobs), one death | no lost job, no needless repetition, tried dead letters | 443 000 |
| Realtime | four sockets of one user from two addresses, limits 2 and 2 | limits, subscription, presence, clean-up | 276 000 |
| OrderTracking | one page, two requests at a time, two changes of the order, one refresh of the token | what a quiet page shows, what the flag means, that polling catches up | 363 000 |

`CHECK_DEADLOCK FALSE` wherever it is written means that the calls of the
instance are finite and may all be over.

**Why the bounds are enough.** The hazards need few actors: two calls race, and
a third is the one that meets what the race left. Three PlaceOrder calls have a
pair with one key and a pair with two; three session calls are a login and two
calls that race for its token, from one tab, from two, or from another device,
with the answer of either lost or late, and a revocation may be one of them; two
requests of a page overtake each other, and with two changes an event that is
lost has one after it; a third verify
meets the attempt limit of two; two registrations want one address, one of them
or neither the admin's, and two replicas seed the same admin; two assignRole
meet; two edits of a tab overlap, a third or an order follows them; two admins
mix, one reader is overtaken; the fourth socket connects while the third closes and meets a limit of two. One
crash or error puts a failure at every await of one task; more of them in the
same task repeat it. Bounds that only exist for TLC are `MaxErrors`,
`MaxCrashes`, `MaxFaults`, `MaxDeaths`, `MaxEvents`, `MaxFlights`, `MaxCodes`,
`MaxCalls`, `MaxMixed`; the theorems hold for each of their values, as they do for
every number of calls, tabs and sockets. `MaxCodes` 4 and `MaxCalls` 3 are how
many calls of Otp and how many others begin, `MaxMixed` 2 their product at most:
the two share the account and nothing else. `MaxEvents` 4 is how many calls, visits
and mishaps a tab lives through (a call of another device is a call and a mishap,
as is a POST that goes on without its tab),
`MaxFlights` 2 the answers it awaits at once; when
there is a tab, calls do not overlap inside the service (the run without a tab
has that), a tab that may be wrong loads before it edits again, and the cart page
is not opened again while its GET is awaited. `MaxStatus`, `MaxTokens` and the set
`Loads` of OrderTracking bound the page's life. Symmetry is only used
in runs without temporal properties, but for WebSession, whose `OverStaysOver` is a property of single steps that names no call.

**Fairness.** Four specifications have it. Checkout: every call takes its next
step unless it has failed or crashed, since each await settles, and Redis
expires a key; this gives `LockIsFreed`. OrderLifecycle: a finalizer's awaits
settle and kafkajs delivers again; nobody has to cancel. Outbox: the timer
fires and the awaits of a tick settle, some replica joins the group, and the
owner of the partition polls. OrderTracking: the interval ticks, a request ends
by an answer or an error, and of those made again and again some are served and
answered (strong fairness of `Serve` and `Loaded`); nothing is asked of sockets,
which may all be closed for good. Crashes are never fair. The other modules state
safety only.

**Properties with exceptions.** Several properties hold but for overlaps that
the code does not prevent, and the model records when one took place: `overlap`
(an addItem that straddles a ClearCart), `Raced` (two refreshes that accepted
one token), `raced` and `overlapped` (codes), `harm` (overlapping cart calls, a
pipeline broken off, an expiry), `overlaps` (three meetings of handlers in the
WebSocket gateway), `lost` (answers a browser never took), `excused` (since the
page was last right an event missed it, or a request failed or was overtaken),
`mixed`, `overtaken` and `spoiled` (catalog), `unsure` and
`threw` (notification), `mixed` and `lastRole` (accounts: two assignRole under way
at once, and what was assigned last), `sure`, `astray` and `shown` (storefront:
what may have made the show untrue since a load, and what was on show; a POST
that goes on without its tab is such a thing, and as long as it is on its way
(`late`, which is state and no history) no load makes up for it).
`mishaps` of Storefront counts what has gone wrong for its bound only. They are history variables: no guard reads them, and
each exception names one documented weakness, so the property says that there is
no other. A run without the exception fails, which is how the list was found.

## 4. The theorems

Every `Spec => []Inv` below rests on an inductive invariant that TLC checked
first; `Init => IInv`, `IInv /\ [Next]_vars => IInv'`, `IInv => Inv`, then PTL.

* **Checkout_proofs.** `CheckoutTyped` and `AnswersNameCommittedOrders` (answers
  are committed orders of the caller's key), `PlacedOrdersLeaveCart` and
  `NoLockIsForgotten` (a lock is of a call that is to release it, or that is over)
  need no assumption on the lock. `CheckoutInvariant`, `CheckoutsExclude`,
  `KeysAreOrderedOnce`, `LinesAreAcceptedOnce` and `CheckoutRefinesOncePerKey`
  assume `LockOutlivesCheckout`. The strengthening: a call inside the try holds
  the lock of its user (`HolderHasLock`); hence nobody commits its key between
  its last lookup and its own commit (`KeyFreeAtCommit`); hence table and orders
  are images of each other. Without the first conjunct the second is not
  preserved by another call's `TxCommit`.
* **OrderLifecycle_proofs.** `OrdersStayConsistent` proves `LifecycleInv`, for
  any tasks, orders and fault bounds: where a task is says what has happened to
  its order (`TaskInv`: after "charge" it was charged, at "announce" its row is
  recorded). `EventsAreNeverAhead` follows. The history is a number of rows of each
  status and has no order: the table has no sequence, `at` is stamped before
  `save()`, and nothing sorts what is read, so that the latest row of a cancelled
  order may well be "paid".
  `LifecycleRefinesOrderRecord`: only `SaveWrite` maps to a step. A second
  invariant, `DecisionInv` (an order is pending exactly as long as its history has
  one row; a transaction that read it pending has seen that row), gives
  `FinalizersDecide`, the part of the liveness property that is not scheduling: no
  finalizer that met no error is through with an order still pending; and
  `SettledOrdersAreCancelledByRacesOnly`, which proves `CancelsByRaceOnly`: a
  settled order turns cancelled by an admin, or by a transaction that read it
  pending before it was settled. That is what remains of the promise refuted in
  section 5.
* **Delivery_proofs.** Outbox: `OutboxInvariant`; what a tick no longer has to do
  is in the topic (`TicksInv`), the owner has handled what it fetched but for the
  message it works on (`GroupInv`, if `GroupHasOffset`). `MarkedRowsWereSent`,
  `GroupSkipsNothing`, `OutboxRefinesAtLeastOnce` follow, and from the first two
  `NoAcceptedOrderIsLost`: an accepted order that was not handled is a row still to
  be claimed, or a message beyond the committed offset that the owner, if there is
  one, has still to fetch or is at; liveness adds only that somebody does. Realtime:
  `RealtimeInvariant`, for any sockets, addresses and limits. What its two Redis
  connections owe is what the handlers wait for, once each (`RepliesAreAwaited`), so
  that a reply tells what its handler has done; the user's set and the counts are
  exact (`SetIsExact`, `LimitsHold`), by cardinalities of finite sets. On that rest
  three invariants, each void once the meeting it excepts took place: nobody waits
  for a subscription while there is one, and no UNSUBSCRIBE is answered after a
  SUBSCRIBE (`OneAtATime`); an unsubscriber is that of a live listener
  until the last socket's UNSUBSCRIBE, which is the last command of its connection
  (`SubscriptionLasts`); a socket that closes was online (`PresenceFollows`). From
  them `SubscribedOnce`, `OpenSocketsHear`, `NothingIsLeftBehind`,
  `PresenceIsOfALiveSocket`. OrderTracking: `TrackingInvariant`, inductive as the
  run checks it: a page that is behind without an excuse has an event or a request
  on its way (`Coming`). `QuietPagesAreCurrent` follows.
* **Sessions_proofs.** `SessionsInvariant` for any number of calls. The key idea
  is a *claim*: a usable token, or a call on its way to write one; a session has
  one claim unless two refreshes accepted the same token (`OneClaim`). From it:
  `OneUsableToken`, `RowsKnowAccessTokens`, `ReusesHaveCauses`,
  `CompletedRevocationsHold`, `LogoutsEndSessions`, and, as an action property,
  `SessionsStayOver`. Then the browser, for any number of tabs:
  `WebImplementsSessions` takes every step of it to one of Sessions or a
  stutter, so that the theorems above hold for it, and `BrowserInvariant` adds
  what the tabs hold: nothing but pairs whose answer they took (`HeldInv`), and
  a token a tab spent is in no later fetch of it (`SpendInv`). The second is not
  inductive without the first, since a cookie that nobody took could name a
  token already spent. `TabsDoNotReuse` and `CookiesAreGood` follow.
* **Otp_proofs.** `OtpInvariant`, for any limits and calls: `CodesAreAcceptedOnce`,
  `CountersAreGivenAnEnd`, `LastMailsCount`. `AttemptsAreCounted` needs to know
  which of the wrong guesses at a code the counter has seen (by cardinalities).
  Then the accounts, for any registrations, replicas, logins and assignments:
  `AccountsInvariant`, in which no two rows committed or about to be clash
  (`AccountsAreUnique`: what a unique index holds while a transaction is open), a
  row comes before what depends on it (`RowsInOrder`) and the admin's before
  anybody is served (`AdminIsFirst`), without which a customer could take the
  admin's address. `TheRegisteredCanLogIn`, `TheAdminIsAlone`, `RolesAreAsAssigned`
  follow. `AccountsImplementOtp` takes each step to one of Otp or a stutter, hence
  `CodesOfAnAccount` and `AttemptsAtAnAccount`.
* **Catalog_proofs.** `CatalogInvariant`: readers and editors that no change
  overtook hold what the database holds; `StaleEntriesHaveACause`,
  `UnmixedEditsHold`.
* **Cart_proofs.** `CartTyped`, `QuietCartsExpire`, `CartsHoldWhatWasAsked`; the
  strengthening `CopiesAsked` carries the bound through the calls' copies.
  `QuietCartsAreExact`: as long as no call overlapped another, was cut off or was
  outlived by the cart (`harm = {}`), a call is alone from its read to its last
  write, and between calls hash and snapshot hold what the completed ones make,
  in their order.
  `StorefrontImplementsCart` takes every step of a tab, another device or an order
  to one of Cart or a stutter, so that `StorefrontsCartHolds`.
  What the tab shows and orders rests on `StorefrontInv`, whose parts need each
  other. `KeysAreKnown`: a key is in use only after its page was opened.
  `DecidedOnce`: a job commits before it clears, for a key without an order; from
  it also that an order never becomes another (`StorefrontOrdersStay`). `InOrder`:
  a tab that has not gone astray since it last loaded the cart has one thing on its
  way at most (an edit, a load or an order), none that it gave up on among them
  (`NoLate`), and each stage of it says where the
  lines are that the tab is to show: in the rollback's copy until the cart is
  written, in the call's copy while the hash is rewritten line by line, in the
  answer after; an order leaves the cart alone until it has its lines and empties it
  after. That is not inductive without `FreshPage`: a checkout page whose key has an
  order is still waiting for its answer, as a second press would be answered
  "placed" beside a cart that nobody clears. `PressedInv`: as long as a key pressed
  on a true show can still get its order, the cart waits as it was shown. From
  these `QuietStoresAreCarts` and `OrdersAreAsShown`. They use one assumption that
  the code gives for free, that null is no object (`StorefrontAssumption`).
* **Notification_proofs.** `NotificationInvariant`, for every list of jobs and
  every MAX_ATTEMPTS; `JobsAreNotLost`. `JobsAreSentOnceIfKnown`: a provider
  takes a job twice only if the outcome of a send of it was lost (`unsure`), and at
  most MAX_ATTEMPTS times in the life of a replica. `LettersHadTheirTries`, an
  action property: a dead letter has a row for each of MAX_ATTEMPTS tries, and its
  provider had not taken it, but for a send whose outcome was lost.

The assumptions are the named ASSUMEs of the modules (`CheckoutAssumption`: two
users never present one key, a UUID made by the client, which the gateway takes as
it comes and does not tie to the user, so that it is asked of clients; `OtpAssumption`, and so
on), which TLC evaluates in every run.

**Checked as parts.** Some properties have no line of their own in a cfg,
because they are conjuncts of an inductive invariant that a run checks or follow
from it by a theorem: `MutualExclusion` and the answers of Checkout,
`EventsFollowFacts` of OrderLifecycle, `CommittedWereHandled` of Outbox,
`ReuseHasCause`, `CurrentAccessIsKnown` and `OneTokenUnlessRaced` of Sessions,
`OneOrderPerKey` of Checkout (`CheckoutInv`, and `OncePerKey`), `NoJobIsLost` of
Notification, `CodeAcceptedOnce`, `LastMailCounts` and `CountersExpire` of Otp,
`CartsExpire` and `NeverMoreThanAsked` of Cart, `LimitsHold` of Realtime,
`LiveMeansOpen` and `QuietPageIsCurrent` of OrderTracking.

**Only model-checked.** Liveness (`LockIsFreed`, `AcceptedIsFinalizedUnlessError`,
`EveryOrderIsHandled`, `PollingCatchesUp`) is beyond the prover: it needs ENABLED
and, for the last three, an argument over a measure that falls. What can be said of
their steps alone is proved (`NoLockIsForgotten`, `FinalizersDecide`,
`NoAcceptedOrderIsLost`, and `Coming` in `TrackingInvariant`). Every safety property that a passing run checks
has a theorem.

## 5. What the model found

Two runs are expected to fail; each property quotes what the repository says.

* `Checkout_two_orders`: `swagger.constants.ts:134` promises an identical order
  for a retry with the same key.
* `Lifecycle_customer_cancels_paid`: `order.proto:6` lets a customer cancel an
  own, pending order. `SettledOrdersAreCancelledByRacesOnly` proves how far the
  code departs from it: only by a save that read the order pending and overwrites
  what was committed since.

Met while modelling, without a run of their own:

* OrderFinalizerWorker swallows an error of finalizeOrder and the offset is
  committed (`kafka.workers.ts:130`), so that one
  rejected await leaves an accepted order pending for good;
  `AcceptedIsFinalizedUnlessError` says that nothing else does.
* A logout with an access token that the guard no longer accepts fails before it
  reaches the service. The header ignores that and clears the store, the cookie
  stays, and the next page load signs the user in again.
* A refresh that is refused clears the store of its tab, also when a login has
  filled it in the meantime.
* Two tabs that refresh at the same moment present one cookie. Either both are
  accepted, and the family has two usable tokens, or the later one is taken for
  a reuse and the session is revoked under both.
* The two hooks of the web app share one flag. When the page's socket has closed
  and the header's is open, the page neither hears events nor polls, although
  `page.tsx:55` means to poll while there is no socket. Nothing opens a closed
  socket again until the token changes.
* The request made on mount, if it fails after a later one succeeded, takes the
  order off the page. An order that an admin cancelled is a 404 to its owner, so
  that an open page keeps the status from before.
* An answer from the idempotency table before the lock never clears the cart; a
  call whose ClearCart failed leaves the cart full after its retry succeeds.
* An admin who cancels an order that its owner has cancelled does not soft-delete
  it: the early return comes first.
* `fromBeginning: false`: what the relay published before the group had an
  offset is skipped. With `GroupHasOffset = FALSE`, `EveryOrderIsHandled` fails.
* logoutAll denies the access token the session row names, and misses those that
  were handed out before the last refresh, although `auth.controller.ts:182`
  says "Logs the user out everywhere".
* Dead letters carry no payload, so that a replay of the topic yields no jobs.
* PATCH of a product without `imageUrl` erases it. `deleteVariant` invalidates
  the lists only, although its comment speaks of the product.
* The catalog truncates products, variants and carts at every start unless two
  variables are set.
* A rejected Redis command in the WebSocket gateway ends its process. There is
  one presence key per user, shared by replicas.
* The cart store takes answers as they come: the answer of an earlier edit that
  arrives after that of a later one sets the cart back to what it was between the
  two. The menu's rollback restores the snapshot from before its edit, and with it
  undoes on the screen what was edited since. The product page (`page.tsx:101`)
  has no rollback and keeps a line that the server refused. The answer of an edit
  that arrives after `clear()` fills the store again.
* Place Order pressed again after a failed ClearCart gets its order from the
  idempotency table, which clears nothing; the tab then shows an empty cart, and
  the server still holds the full one.
* A reload empties the store, so that the checkout page's button stays disabled
  until the cart page has loaded the cart.
* A replica that dies while it seeds, between the row and the credential, leaves
  an admin without a password: the next start finds the row and writes nothing.
* A POST /orders that the tab has given up on, or left by a reload, is served all
  the same (`orders.controller.ts:71` does not notice that the browser has gone):
  it may order what the customer has changed meanwhile, and clear the cart under a
  tab that has loaded it again.
* Of two overlapping assignRole one may be lost: it finds its role in place and
  writes nothing, the other then replaces it; or it fails on the row that the
  other inserted. With two roles none leaves a user both (`OneRole` in
  `AccountsInv`).
* seedAdmin stores ADMIN_PHONE as it is configured, without the normalisation of
  register, which looks for the normal form. The default is in that form, and the
  model has a seeded account whose address and phone register would find.
* The event of register is published after the commit. If the process dies in
  between, nobody is told of the new user, and the retry answers a conflict.

## 6. What is not modelled, and why

* **gateway, routes other than auth**: those that change something are one gRPC
  call each. The cart's routes and POST /orders are in Storefront, the products' in
  Catalog, GET /orders/:id in OrderTracking. Left out: routes that only list,
  traces, and the limiter's counters, which are the INCR and EXPIRE of Otp.
* **web, other pages**: the cart store with the menu, product, cart and checkout
  pages is in Storefront, with what logout does to it. The list of orders, the
  sessions page and the admin pages load, show, send and load again.
* **tokens, hashing, metrics, configuration, infrastructure**: libraries and
  deployment; access tokens are model values.
* **Kafka bridge of realtime**: forwards a message at a time, drops it on error;
  that is `Forward` of OrderTracking, and its consumer group is not modelled.
* Left out within modules: lifetimes of tokens (Sessions); what getMe and
  listSessions read, hashing, and an ADMIN_EMAIL that changes between deployments
  or an ADMIN_PHONE that is not in normal form (Accounts, whose assignRole is reached by gRPC alone: the gateway has no route
  to it); two replicas that work on one
  message at a time, one of which has lost its partition without knowing it yet
  (Notification: its two properties about repetition hold for one delivery at a
  time, and such a second one may send a job again); prices of cart lines
  (an order asks the catalog again); pages of the product list one by one, and
  `catalog.product.changed`, which has no consumer; graceful shutdown, which to
  the tables is a crash; messages of other partitions, users and orders, which
  share nothing with those of the instance.

## 7. The plan

Done, in this order: Checkout with OncePerKey; OrderLifecycle with OrderRecord;
Outbox with AtLeastOnce; Sessions; Realtime; Cart; Notification; Catalog; Otp;
WebSession over Sessions; OrderTracking; Accounts over Otp; Storefront over Cart;
and proofs about every one of them, of every safety property the passing runs
check.

Next:

1. OrderTracking over Realtime: the server behind the page's socket with its
   limits and its subscription, in place of `ServerForgets`.
2. The limiter of the gateway's routes and the services' graceful shutdown, if
   either comes to keep state that a request depends on.
