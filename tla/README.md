# Verification of the phyllonix order system

phyllonix is the backend of a web shop: FastAPI handlers on PostgreSQL
(SQLAlchemy, asyncpg, READ COMMITTED), Redis for caching, Razorpay as payment
provider (PSP), Cloudinary for images, and background workers fed by an
in-memory queue. This directory holds TLA+ models of the parts in which mistakes
are costly and which tests hardly reach: from the checkout to the stock a paid
order takes, the sessions and tokens of users, the circuit breaker, and the
catalogue with its caches and carts. TLC checks the models on small instances;
TLAPS proves every safety property and every refinement the passing runs check,
for all instances. Liveness is model-checked.

`PROJECT.json` maps each definition to the source lines it models and lists runs,
mutants, findings, hazards and theorems. Paths below are relative to
`src/backend`.

## 1. Inventory

### How a request and a transaction behave

`get_session` (`db/dependencies.py`) yields one session per request and never
commits. A handler that raises, is cancelled, or returns without `commit()`
leaves nothing in the database. Between two statements other requests run. A
`SELECT ... FOR UPDATE` or an `UPDATE` waits for the row's lock, then sees the
newest committed version; a plain read sees what was committed before it.
`INSERT ... ON CONFLICT DO NOTHING` waits for an uncommitted insert of the same
key. These four facts are the memory model of all modules.

### Components

| component | state | operations | interacts with |
|---|---|---|---|
| checkout and reservation (`orders/`) | `CheckoutSession`, `InventoryReservation` | initiate, order-summary | cart, product rows, confirm |
| confirmation (`orders/`) | `IdempotencyKey`, `Orders`, `Payment`, `PaymentAttempt` | secure-confirm | checkout row, PSP |
| payment webhook (`orders/webhooks.py`) | `PaymentWebhookEvent`, payment and order status, `OutboxEvent`, `CommitIntent` | razorpay_webhook | PSP, queue |
| background workers (`background_workers/`) | queue of 1000, two loops, intents, stock | publish, worker loop, commit-intent and outbox handlers, stop | webhook, product rows |
| cart (`cart/`) | `Cart`, `CartItem` | get or create, add | checkout |
| products (`products/`) | `Product`, category links | create, patch, list, details | checkout, workers, cache, images |
| product cache (`cache/`) | Redis entries and fill locks | get, or lock and fill, or poll | products |
| image uploads (`image_uploads/`) | `ProductImage` | init-batch, provider webhook | products |
| circuit breaker and retries (`common/`) | one breaker in the memory of each process | admit, probe, record, retry | login |
| authentication (`auth/`, `user/`, `common/routes.py`) | users, credentials, roles and their version, device sessions, refresh tokens | session init, sign-up, login, refresh, password, roles | middleware |
| rate limiting (`rate_limiting/`) | Redis windows and buckets | three algorithms | middleware, not installed |

### What is hard, and what makes each part correct

* **Checkout.** Concurrent summaries read stock and reservations, then reserve.
  Correct: no unit is reserved twice; what was checked still holds when it is
  used; what is ordered is reserved; locks taken in any order block nobody.
* **Confirmation.** Clients repeat a request with its key while the first one
  runs, or after it was cut off between four commits and an external call.
  Correct: a key stands for one provider order; a 200 is backed by committed
  rows; orders come from open checkouts only.
* **Webhook.** The PSP repeats and reorders events and sends several at once; the
  queue may be full and the process may stop. Correct: payment, order, outbox
  and intent agree; capture is final; an intent is announced at most once.
* **Workers.** Two workers and administrators change the same product rows;
  commits may succeed without the worker knowing. Correct: the stock of an order
  is taken at most once, completely, never below zero.
* **Circuit breaker.** Answers of calls admitted in one state arrive in another;
  probes end by success, error, cancellation or timeout. Correct: places for
  probes are neither lost nor doubled; counters start anew with each period; an
  open circuit stays open for its time; after an outage it closes.
* **Sessions.** Logins, refreshes, password and role changes read first and lock
  later. Correct: one live refresh token per user and device session; a device
  session keeps its first user; an access token that passes the test of its role
  version carries the roles of now.
* **Listing and cart.** Pages are cached at different times while products are
  added; the holder of a fill lock may die or outlive it; two tabs add to one
  cart. Correct: who follows the cursors misses nothing; every page is answered;
  the cart holds what was in stock and acknowledged.
* **Catalogue.** Creations and renames wait for names other transactions have
  inserted; batches of images fail halfway. Correct: names are unique; a product
  appears with its categories, an image with its key; only the owner writes;
  everyone is answered.

## 2. Modules

| module | models |
|---|---|
| `Checkout` | `POST /checkout/initiate`, `POST /checkout/{id}/order-summary`, with carts, stock writes and time |
| `CheckoutProofs` | theorems about `Checkout` |
| `IdempotentConfirm` | abstract: what an Idempotency-Key promises |
| `SecureConfirm` | `POST /checkout/{id}/secure-confirm`; shown to implement `IdempotentConfirm` |
| `ConfirmProofs` | theorems about `SecureConfirm`, with the refinement |
| `PaymentWebhook` | `razorpay_webhook` |
| `WebhookProofs` | theorems about `PaymentWebhook` |
| `CommitWorker` | `BasePubSubWorker`, the commit-intent handler, the outbox handler |
| `OrderPipeline` | `CommitWorker` with `PaymentWebhook` as its producer, in one process; shown to implement both |
| `WorkerProofs` | theorems about `CommitWorker` and about `OrderPipeline` |
| `DbCircuit` | `CircuitBreaker` and `retry_with_db_circuit` around the login |
| `CircuitProofs` | theorems about `DbCircuit` |
| `Sessions` | session init, sign-up, login, refresh, password change, role change |
| `SessionsProofs` | theorems about `Sessions` |
| `Storefront` | product listing through the cache, then `POST /cart/items` |
| `StorefrontProofs` | theorems about `Storefront` |
| `Catalogue` | creation, update and details of products, image batches |
| `CatalogueProofs` | theorems about `Catalogue` |
| `MC...` | instances and symmetry for TLC |

Names follow the source. A request, delivery or worker is a process with a
program counter. One action is the stretch of code between two points at which
another process can be seen or waited for. Uncommitted writes are not state:
they appear, all at once, in the action that commits. Operators with a comment
`Mutant:` are not part of the model; each is a plausible mistake in the
definition below it, used to make sure that a property notices.

### Checkout

`BeginSummary` is `get_checkout_details` (which closes an expired checkout, and
rejects one that is not the user's); `CaptureCart` and `LockProduct` are
`capture_cart_snapshot`, one row lock at a time in any order; `ValidateItems` is
`items_avblty` and `validate_items_avblty`; `Reserve` is `reserve_inventory`,
`update_checkout_cart_n_paymethod` and the commit. `InitiateCheckout`,
`InitiateExpired` and `CloseCheckout` are the other writers of checkout rows,
`AddToCart` and `WriteStock` the writers of what a summary reads. The two
comparisons with the clock differ, as in the source: a checkout is expired when
`expires_at < now`, a reservation counts while `reserved_until > now`.
`DeadlockVictim` is PostgreSQL's deadlock detection (external); `Abort` stands
for errors, cancellation and the end of the process.

### SecureConfirm

The handler is three transactions and the PSP call: `ValidateCheckout` (row of
the checkout `FOR UPDATE`; 403 if it is not active, 410 if it has expired, 409 if it
has no payment method or no items), `LookupKey`, `RecordKey`, `RereadKey` (after the
five seconds' sleep), `PlaceOrder` (commits order, items, payment and key);
`AttemptSucceeds`, `AttemptTransient`, `AttemptRejected`, `AttemptUnknown` (the
loop of `retry_payments`, with the PSP's answer and its effect chosen
separately, so an order can exist whose answer was lost); `AcceptPayment` (commits
provider order and response); `CloseCheckout`. Amounts are left out.

### PaymentWebhook

`Arrive` to `FindPayment` is everything up to the lookup of the payment,
`Receive` the insert of the event row, `UpdatePayment` the conditional update
that holds the payment row, `Commit` the rest of the critical section,
`Publish` the two `put_nowait`. `Fail` is an exception in the critical section.
`Take`, `SettleIntent` and `SettlePaid` are what the workers may do to the shared
state.

### CommitWorker

`Claim` is the first transaction (`FOR UPDATE SKIP LOCKED`), `LockItem` and
`CommitWork` the second, `Recover` the except branch. `CommitUnknown` is a commit
that took effect and reported an error. `supplied` and `applied` are history:
what the stock would be had no order taken any, and the orders that took theirs.
`CreateIntent`, `Announce` and `Notify` are what the webhook may do.

### OrderPipeline

Extends `CommitWorker` and instantiates `PaymentWebhook`, so that both act on the
same `intent`, `paid`, `queue` and `announced`; what the one does leaves the other's
own variables alone, and a crash (`Stop`) is one of both. The refinements `ImplementsWorker` and `ImplementsWebhook` say that each side keeps to what
the other's specification allows its environment, so what is established of a
component alone holds of it in the system. `announced` is the channel's
history: `Announce` is the only way to put an intent's message in the queue.

### DbCircuit

A caller is a task that goes through the decorator again and again. The lock of
the breaker is never held across an `await` that suspends, so the steps are
those between suspensions: `BeforeCall` (admission, with the transition to
half-open), `AcquireProbe` and `ProbeTimeout` (the semaphore), `Succeed`,
`FailRecoverable` (a database error: recorded, and retried if attempts are
left), `FailOther` (an error of the request itself or its cancellation) and
`CancelSleep`. The last attempt raises without recording its failure, as in the
source. The clock is reduced to whether `recovery_timeout` has passed since the
circuit opened (`RecoveryTimeout`); `Outage` ends and begins outages.

### Sessions

`Login` and `Refresh` are what is read before the device session is locked (the
user and the role version; the token and its expiry), `LockSession` the
`FOR UPDATE` of the device session, `SaveToken` the revocation of the live tokens,
the link to the user and the new token, committed; `IssueAccess` reads the roles
afterwards and signs them, for a login with the version read first. The locked
second read of a refresh returns the object the session already holds, so
`LockSession` does not test the token again. `ChangePassword`, `SetPassword` and
`CommitPassword` lock the credential only. `ChangeRoles` deletes the roles that the
administrator has too, `CommitRoles` inserts the granted ones and counts the version
up; a role the user still has makes an insertion fail and rolls the ones before
it back (`RolesAfter`). `Expire` is the end of a token or a device session. Hashes
and claims other than user, roles and version are left out.

### Storefront

A page is a function of the products it was read from and the cursor, so the
cache holds, for each cursor, the products at the moment of the read. `CacheHit`,
`CacheMiss`, `TryLock`, `Recheck`, `Load`, `Store`, `Release` and `PollTimeout` are
the branches of `cache_get_n_set` in mode wait, one Redis command each;
`ExpirePage` and `ExpireLock` come at any time, also while the holder works.
`AddToCart` to `InsertItem` are the transactions of the cart: `SelectItem` locks a row
that exists, and two tabs that find none both insert, one of which fails on
`uq_cart_product`. Whether the product has stock is read in `AddToCart`, before the
row is locked; workers and administrators write the stock, so the reading is an
input (`soldOut`). `added` and `due` are history: the additions that succeeded, and
those of them that should count by the comments of `add_item_to_cart`. The branch of
`get_or_create_cart` for guests is left out: the authentication middleware lets
no request to `/cart/items` through without a user (it does not use
`maybe_auth_paths`), and only the device middleware, which is not installed, sets
a session id.

### Catalogue

`CreateProduct`, `InsertProduct`, `AddProductCategories`, `CommitProduct`;
`UpdateProduct`, `PatchProduct` (the row), `IndexName` (the unique index),
`CommitUpdate`; `InitImages`, `CreateImageIntent`, `UpdateStorageKey`, `InvalidFile`,
`CommitImages`; `GetDetails` to `Answer`. `WaitsFor` says which transaction a
request waits for: the one that holds its row or has an uncommitted insert of
its name. `DeadlockVictim` may abort a member of a cycle. The details are never
stored in the cache (section 4), so only the fill lock is state.

## 3. Runs

| run | instance | shows |
|---|---|---|
| `checkout` | 2 users, 2 products, 2 checkouts, 2 requests, stock and quantities up to 1, clock 0..2, ttl 1 | no oversell; what was checked holds; what is ordered is reserved |
| `checkout_live` | the same, time stands still, `FairSpec` | every accepted request is answered |
| `checkout_mismatch` | 1 user, quantities up to 2 | **finding**: reservation and snapshot differ |
| `confirm` | 3 requests with one key; 2 successive checkouts of one user, 1 of another; 2 attempts | implements `IdempotentConfirm`; answers are backed and for the right checkout |
| `confirm_live` | 2 requests, 2 keys, 2 checkouts of a user, `FairSpec` | requests are answered; orders only from open checkouts |
| `webhook` | 1 order, 3 events with any of 7 payloads, 3 deliveries, queue of 2 | payment, order, outbox and intent agree; capture is final; announced once |
| `worker` | 2 workers, 2 products, 2 orders of 2 and 1 units, stock up to 2, queue of 3, 2 attempts | stock is conserved and never negative; DONE means taken |
| `pipeline` | 2 orders, 2 events, 3 deliveries, 2 workers, queue of 3 | the composition implements both parts; stock leaves only for captured payments |
| `circuit` | 3 callers, 3 attempts, thresholds 3 and 2, 2 probes, `FairSpec` | probes are conserved, counters fresh, open stays open, the circuit closes after an outage |
| `sessions` | 2 users on 1 device session, 3 tokens, 4 requests, 2 roles | one live token per user and session; first user stays; current version means current roles |
| `storefront` | 4 products (2 moments, 1 added later), pages of 2, 2 tabs of one user, at most 3 of a product, `FairSpec` | no product is skipped, additions are counted, every page is answered |
| `catalogue` | 2 connections serving any number of requests, 2 owners, 2 products, 2 names, 1 category, batches of 2, `FairSpec` | names unique, products and images appear whole, owners only, everyone answered |

**Why the bounds are enough to be interesting.** Every conflict in this code is
between two transactions over one or two rows: two requests and two products
give lock cycles, two requests and one unit give oversell, three requests with one
key give a first one, one waiting for its insert and one that comes after. Three
deliveries allow a duplicate beside another event, or three events in any order.
A queue of 2 or 3 is full between the two messages of a delivery. An intent is
processed once, so `MaxAttempts` is 2 for some to be given up. Two ticks pass both
sides of the expiry comparisons. `MaxStock`, `MaxClock`, `MaxItemQty`,
`MaxQueue`, `MaxQty`, `MaxImages`, `Tokens` and the finite sets are the named
bounds. Three callers are two probes and one that waits; the failure threshold
is reached by three callers or by one. Four requests are two logins or refreshes
that race, with a password and a role change beside them. A tab needs two pages
of two to walk through three products, and the fourth, of the same moment as the
first, appears on either side of its cursor. Two renames of two products to each
other's names are the shortest deadlock of the catalogue. Where requests,
deliveries or tabs are used once a run ends, so deadlock is not checked there;
`circuit` and `catalogue` serve for ever and check it. Symmetry is used in safety
runs only, over sets whose members the model treats alike.

**Fairness.** `FairSpec` asks weak fairness of the steps of each accepted request:
the event loop runs them, statements have results, and
PostgreSQL resolves deadlocks (a step of one of the waiting transactions). Locks
are released within bounded work of their holder, so weak fairness suffices.
Arrivals, time, errors, crashes and administrators are not fair. Three modules
need more, or less:

* `DbCircuit` asks that time passes, that requests keep arriving, that calls and
  waits end, that the semaphore serves its waiters (asyncio's does, in order), and
  that not every request fails on its own account. Without the last two a circuit
  could stay half-open although the database is up.
* `Storefront` asks only that a page request keeps running; nothing is assumed of
  the expiry of pages and locks, because the poll has a time limit.
* `Catalogue` asks strong fairness of each request: it may be enabled and blocked
  again and again while others take the name it waits for, but PostgreSQL wakes
  a waiting transaction when the one it waits for ends.

## 4. Findings

One disagreement has a run of its own, whose property states what a comment of the
source says and TLC refutes; `PROJECT.json` quotes the lines.

* `checkout_mismatch`: two summaries of one checkout, and an item added between them:
  `ON CONFLICT DO NOTHING` keeps the first quantity in the reservation, the snapshot
  takes the second.

The others follow from reading the code and are part of the models as the code
has them.

*Orders.*
* After a failure at the PSP or a lost connection an idempotency key has an order
  and no response; each repetition fails on the unique `ik_id` (a 500).
* `mark_webhook_received` returns `None` for a known event, and `ev["id"]` raises: a
  redelivered webhook gets a 500. Three other calls name a parameter it does not have.
* A webhook that overtakes its payment is acknowledged; the row kept "for
  reconciliation" is never committed.
* Nothing reads `next_retry_at`: a failed commit intent is never taken up again. A
  stop of the process loses the queue and leaves claimed intents in PROCESSING.
* Confirming a cash-on-delivery checkout always raises (`json.dumps` of a UUID,
  `orders/repository.py:401`).
* The `UNKNOWN` payment attempt is rolled back by the exception after it
  (`orders/services.py:114`), and the error recorded after a webhook failure updates
  a row the rollback removed (`orders/webhooks.py:118`).
* Failed payments are published under a topic nobody subscribes to
  (`orders/webhooks.py:94`).
* The summary's total includes shipping, the confirmed order's does not
  (`compute_order_totals` against `compute_final_total`).

*Cart and catalogue.*
* `cart/repository.py:79-80` means to leave the quantity as it is when the product was
  read without stock ("simply don't increase qty"), and the next line overwrites it.
  `AdditionsCounted` says of such additions only that none counts twice.
* The details cache is never filled: a dict is passed to Redis' `eval`, and the
  response is a dict too, so the request ends in a 500. A request that
  does not get the fill lock polls to its end.
* `ValidationError("...")` raises a `TypeError`: one bad file fails its whole batch.
* The image provider's webhook writes to `providerwebhookevent`, a table that the
  migrations renamed, and always answers 500.
* `PATCH` of a product takes the product's id from a query parameter called `value`.

*Users.*
* A refresh whose token was revoked by a login or a password change between its two
  reads still rotates it, although the branch at `auth/services.py:210-229` is there
  to refuse it: with the row in the identity map the locked query at line 203 returns
  the old object. `OneLiveToken` holds all the same.
* `user/routes.py:142` says that the role change is verified by the authorization
  middleware, which covers `/admin/products` only (`main.py:64`).
* `circuit_breaker.py:20` says that a failing probe opens the circuit again; one
  that fails in its last attempt raises unrecorded and leaves it half-open.
* Logout and the upload of a profile image always raise.

## 5. Proofs

`CheckoutProofs` proves, for any users, products, requests, quantities, stock and
clock bounds, and any finite nonempty set of checkouts (`CheckoutAssumption`):

| theorem | says |
|---|---|
| `CheckoutInvariant` | `Spec => []CheckoutInv` |
| `TypeCorrect` | `Spec => []TypeOK` |
| `CheckedIsStillAvailable` | `Spec => []CheckStillHolds` |
| `SnapshotIsBacked` | `Spec => []SnapshotBacked` |
| `LocksAreOfReaders` | `Spec => []LocksMatchReads` |
| `NeverOversold` | `Spec => NoOversell` |

`CheckStillHolds` is not inductive alone. A step of another request could reserve
the same units, or an administrator lower the stock, unless the request holds the
row: `LocksMatchReads` ties `lock` to what was read, `ReadBeforeReserve` says that
all wanted rows were read, `SeenIsCurrent` that what was read is the stock.
`ActsForCheckout` and `RowsHaveOwner` keep a new checkout row free of reservations, so
that giving it a later expiry adds no units. The counting argument is
`UnitsStep`: a step either adds no units of a product or is the `Reserve` of a
request that wanted it and adds at most what it wanted; it rests on `AddRow`
(adding a row of n units to a finite set of units). Reserved units are counted as
the cardinality of a set with one element per unit, so no recursive sum is
needed.

`WebhookProofs` proves, for any orders, events, payloads, deliveries and queue
size (`WebhookAssumption`): `WebhookInvariant`, `WebhookTypeCorrect`,
`ConfirmedExactlyWhenCaptured`, `IntentAnnouncedOnce`, `ComparisonIsStable` (invariants of
`Spec`) and `CaptureIsFinal` (an action property). `WebhookInv` adds to the properties:
`HoldsItsRows` (a delivery about to commit holds its payment row and its event,
so no other commit changes what it compared), `PaymentFound` (the confirm
handler's `Accept` cannot touch a payment a delivery has found), and `OneAnnouncer`
(between commit and publication an order has one delivery about to announce, and
nothing announced yet), which the strictness of `Payment.status < payment_status`
gives.

`WorkerProofs` proves, for any finite set of orders, any products, workers,
payloads and queue size (`WorkerAssumption`): `WorkerInvariant`, `WorkerTypeCorrect`,
`StockIsConserved`, `StockStaysNonNegative`, `DoneIsTaken`. The handler does not protect
itself against a second message: after `CommitUnknown` and `Recover` the intent is
PENDING again with its stock taken. What saves it is that there is one message:
`OneMessage`, `OneCarrier`, `CarriedIsAnnounced` and `TakenIsOver` follow it from the queue to
the worker that ends with it. `LocksAreEnough` carries the comparison made at `LockItem` to
the commit. `TakenByOrder` is the counting lemma. A remedy for the intents that are never
taken up again has to make the claim look at more than the status.

The second half of `WorkerProofs` is about `OrderPipeline`, with the assumptions of both
parts (`WorkerAssumption`, `PipelineAssumption`):

| theorem | says |
|---|---|
| `PipelineInvariant` | `PipelineSpec => []PipelineInv` |
| `PipelineImplementsWorker` | `PipelineSpec => ImplementsWorker`, that is `Spec` of `CommitWorker` |
| `PipelineImplementsWebhook` | `PipelineSpec => ImplementsWebhook`, that is `Spec` of `PaymentWebhook` |
| `StockLeavesForPaidOrders` | `PipelineSpec => []StockOnlyForPaid` |

`PipelineInv` is `WebhookInv`, `WorkerInv` and `IntentsExist` (messages about a paid
order, busy workers and stock taken have a commit intent in the database). Each
side's refinement needs the other side's invariant: that `Commit` is a `CreateIntent`
needs `ComparisonStillHolds` and `ConfirmedIffCaptured` (there was no intent before);
that `Publish` is an `Announce` needs `OneAnnouncer`; that a worker's step is a
`SettleIntent` or `SettlePaid` needs `IntentsExist`. So the steps of the pipeline are
shown to be steps of both specifications under the joint invariant
(`PipelineSteps`), which is then kept because each specification keeps its own part.
The facts about the webhook come from `WebhookProofs` by instantiation
(`SameWebhook`, `WebhookKept`).

`CircuitProofs` proves, for any finite set of callers and any positive thresholds,
attempts and number of probes (`CircuitAssumption`): `CircuitInvariant`,
`CircuitTypeCorrect` (with it, that the counters stay below their thresholds),
`ProbesAreConserved`, `CountersAreFresh` and `OpenStaysOpen`. The three conjuncts of
`CircuitInv` need each other: a probe is given back by the caller that has it only
if callers in the set `probing` are inside the call, and the counters stay in
their range only because they are reset with each change of state. `BreakerSteps` treats
what `record_success` and `record_failure` do to the breaker once;
`AcquireConserves` and `ReleaseConserves` are the counting lemmas of the semaphore.

`ConfirmProofs` proves, for any requests, keys, users, checkouts, provider orders and
number of retries (`ConfirmAssumption`): `ConfirmInvariant`, `ConfirmTypeCorrect`,
`OneCallerForEachKey`, `AttemptsKeptAreOneRun`, `AnswersAreBacked`,
`AnswersAreForCheckout` (invariants), `OrdersNeedOpenCheckout` (an action property) and
`ImplementsKeyPromise` (the refinement of `IdempotentConfirm`). `ConfirmInv` follows the
rows: `CheckoutHeld` (a user has one open checkout, and the first transaction holds
it to its end), `KeyHasOneOrder` (the row of a key and its order are committed
together by the request that inserted it), `ResponseMatchesPayment` (response,
payment and provider order of a key agree), `AnswersRepeatResponse`,
`TriesAreARun`. `AnswerForCheckout` needs the first two: the second look at the key does
not compare checkouts, and only the one open checkout of the user makes it right.
`OneCallerPerKey` rests on the unique `ik_id`: a request goes on to the PSP by
committing the order of its key, which a second one cannot. The refinement maps
the response of a key's row to `decided`; its step is `AcceptPayment`, which finds the
response unset because no other request is past the order.

`SessionsProofs` proves, for any users, devices, tokens, roles and requests
(`SessionsAssumption`): `SessionsInvariant`, `SessionsTypeCorrect`, `OneTokenIsLive`,
`CurrentVersionShowsRoles` (invariants) and `SessionsLinkedForGood` (an action
property). `OneLiveToken` is not inductive: a request that saves a token must have
found all that are live. `SaverHoldsSession` says that it holds the row of the device
session, and `SaverRevokesAll` that every token live there for its user is one its
`UPDATE` found, because only the holder of the row makes a token live. A refresh on
a token that was revoked in the meantime is covered by this: it revokes what is
live, not what it read. `VersionsBehind` and `RequestsKnown` keep every version that
was read or signed at or below the row's, so that a version counted up matches no
token handed out before.

`StorefrontProofs` proves, for any finite catalogue and times of creation, any page
limit, tabs and users (`StorefrontAssumption`): `StoreInvariant`,
`StorefrontTypeCorrect`, `ListingIsComplete`, `AdditionsAreCounted`. For the listing,
`NothingSkipped` says that what a tab has not been shown of the products all its
pages could show comes after its cursor; a page keeps it whatever catalogue it was
read from, current or cached. That needs the last product of a full page to come
before everything left out (`PageEnds`), which needs a product at place `Limit` of the
order: `EveryRankTaken`, by counting (`RankBound`, `RankGrows` and the pigeonhole
principle), without induction. For the cart, `UpdaterHolds` carries what `SELECT FOR
UPDATE` read to the `UPDATE`; an insertion meets no updater because there is no row
to hold. `AdditionsCounted` bounds the quantity by the additions that found stock from
below and by all that succeeded from above, and is inductive with that.

`CatalogueProofs` proves, for any connections, users, products, names, categories,
batches and number of images (`CatalogueAssumption`): `CatalogueInvariant`,
`CatalogueTypeCorrect`, `NamesStayUnique`, `DetailsAreComplete`, `ImagesHaveKeys`
(invariants) and `OnlyOwnersWrite` (an action property). For the names: `NamesApart` (two
open transactions have no name in common, neither one they enter nor one they
free), `NamesFree` (a name that was entered is no committed product's) and
`OneWriterPerRow`. For the details: `CreatesFresh` (nobody sees a product, or links to
it, before the commit that creates it), `CategoriesExist` and `ProductsKnown`. For the
images: `BatchInOrder` (only the row being inserted lacks its key), `IdsApart`, and
`RoomLeft`, which counts the rows that exist and the files announced against
`MaxImages`, so that each insertion finds an id of its own.

The inductive invariants and the parts named here are left to the proofs, and so
are the type invariants of checkout, webhook, workers and circuit breaker; no run
repeats them. TLC has checked each inductive invariant on the instance of its run
before it was proved.

Only model-checked: liveness, which is out of reach of the prover. These are
`RequestsAnswered` of `Checkout`, `SecureConfirm` and `Catalogue`, `PagesAnswered` and
`ClosesAfterOutage`. The violation that `checkout_mismatch` looks for
is a counterexample and needs no proof.

## 6. Not modelled

* Code that no request reaches: rate limiting and the device middleware (not
  installed), the outbox publisher loop (never started), the thumbnail handler
  (not subscribed), the superseded breaker and retries (not imported),
  `retry_transaction_with_db_circuit`, `validate_reservations`,
  `commit_reservations_and_decrement_stock`, `commit_idempotent_order_place`,
  `short_circuit_concurrent_req`, mode stale of the cache and `bump_catalog_version`
  (not called).
* Code that always raises before it changes anything: logout, the profile image,
  the image provider's webhook and with it the transform handler.
* Orderly shutdown of the workers: it ends loops that `Crash` ends at any point.
* Amounts, formatting and the conversion of payloads; request ids; logging,
  settings, migrations and seeds.
* `acquire_pglock` is called and its result ignored, so it orders nothing.

## 7. Plan

*Done.* All modules of section 2. Every safety property and refinement of the
passing runs is checked on an instance and proved for all.

Next, in this order:

1. `SecureConfirm` and `PaymentWebhook` together: the payment row that `Accept` stands for
   in the webhook's model is the one `AcceptPayment` commits; a composition like
   `OrderPipeline`, with its two refinements.
2. `Checkout` and `SecureConfirm` together: the checkout that is confirmed is one whose
   reservation a summary committed.
3. Abstract specifications for `Checkout` (units reserved against stock) and `CommitWorker`
   (each paid order takes its stock once), with the models shown to implement them.
