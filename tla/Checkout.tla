------------------------------ MODULE Checkout ------------------------------
(***************************************************************************)
(* Checkout sessions and inventory reservations: the handlers              *)
(* POST /checkout/initiate and POST /checkout/{id}/order-summary           *)
(* (backend/orders/routes.py) with the cart and the product rows they      *)
(* read.  PostgreSQL runs every handler at READ COMMITTED: a statement     *)
(* sees what was committed before it started, a row locked FOR UPDATE      *)
(* stays locked until commit or rollback, and a handler that raises or     *)
(* returns without commit leaves nothing behind (backend/db/dependencies). *)
(*                                                                         *)
(* One order-summary request is a process: it reads the checkout, reads    *)
(* the cart, locks the product rows one after the other, checks            *)
(* availability, and reserves.  What the transaction writes becomes        *)
(* visible at its only commit, so reserve_inventory,                       *)
(* update_checkout_cart_n_paymethod and the commit are one action.         *)
(***************************************************************************)
EXTENDS Integers, FiniteSets

CONSTANTS Users,       \* customers, each with one cart
          Products,    \* product rows
          Checkouts,   \* identifiers that checkout rows can get
          Requests,    \* order-summary requests, each used once
          Methods,     \* payment methods clients ask for, among UPI and COD
          NoUser,      \* owner of a checkout row that does not exist yet
          NoRequest,   \* holder of a free product row lock
          MaxItemQty,  \* max_item_qty of add_item_to_cart
          MaxStock,    \* bound on the stock an administrator sets
          Ttl,         \* RESERVATION_TTL_MINUTES, in ticks of the clock
          MaxClock     \* bound on the clock

ASSUME CheckoutAssumption ==
    /\ IsFiniteSet(Checkouts) /\ Checkouts # {}
    /\ Methods \subseteq {"UPI", "COD"}
    /\ NoUser \notin Users
    /\ NoRequest \notin Requests
    /\ MaxItemQty \in Nat \ {0}
    /\ MaxStock \in Nat
    /\ Ttl \in Nat \ {0}
    /\ MaxClock \in Nat

VARIABLES clock,     \* now()
          stock,     \* Product.stock_qty
          cart,      \* CartItem.quantity per user and product; 0: no row
          owner,     \* CheckoutSession.user_id; NoUser: no row
          active,    \* CheckoutSession.is_active
          expires,   \* CheckoutSession.expires_at
          snap,      \* CheckoutSession.cart_snapshot
          method,    \* CheckoutSession.selected_payment_method
          resv,      \* InventoryReservation.quantity per checkout and
                     \* product; 0: no row.  No code changes a row's status
          lock,      \* holder of the row lock on each product
          pc,        \* where an order-summary request is
          ctx,       \* its user, checkout and payment method
          want,      \* the cart quantities it read
          seen       \* the stock it read with each lock

csVars == <<owner, active, expires, snap, method>>
reqVars == <<pc, ctx, want, seen>>
vars == <<clock, stock, cart, csVars, resv, lock, reqVars>>

-----------------------------------------------------------------------------
Quantities == [Products -> 0..MaxItemQty]
NoItems == [p \in Products |-> 0]

NotRead == -1
NothingRead == [p \in Products |-> NotRead]

Context == [user     : Users \cup {NoUser},
            checkout : Checkouts,
            method   : Methods \cup {"none"}]
NoContext == [user |-> NoUser, checkout |-> CHOOSE c \in Checkouts : TRUE,
              method |-> "none"]

Wanted(r) == {p \in Products : want[r][p] > 0}
InFlight(r) == pc[r] \in {"capture", "locking", "reserve"}

\* get_checkout_details, get_checkout_session: the strict comparison.
Expired(c) == expires[c] < clock

\* The condition in items_avblty: ACTIVE and reserved_until > now().  A row
\* carries the expires_at of its checkout, which never changes.
Live(c) == expires[c] > clock

\* The units of p held by live rows, one element per unit, so that
\* sum(quantity) is the number of units.
Units(p) == {u \in Checkouts \X (1..MaxItemQty) :
                Live(u[1]) /\ u[2] <= resv[u[1]][p]}

\* reserved_qty of items_avblty: a row of the same checkout counts as well.
Reserved(p) == Cardinality(Units(p))

-----------------------------------------------------------------------------
TypeOK ==
    /\ clock \in Nat
    /\ stock \in [Products -> Nat]
    /\ cart \in [Users -> Quantities]
    /\ owner \in [Checkouts -> Users \cup {NoUser}]
    /\ active \in [Checkouts -> BOOLEAN]
    /\ expires \in [Checkouts -> Nat]
    /\ snap \in [Checkouts -> Quantities]
    /\ method \in [Checkouts -> Methods \cup {"none"}]
    /\ resv \in [Checkouts -> Quantities]
    /\ lock \in [Products -> Requests \cup {NoRequest}]
    /\ pc \in [Requests -> {"idle", "capture", "locking", "reserve", "done"}]
    /\ ctx \in [Requests -> Context]
    /\ want \in [Requests -> Quantities]
    /\ seen \in [Requests -> [Products -> Nat \cup {NotRead}]]

Init ==
    /\ clock = 0
    /\ stock \in [Products -> 0..MaxStock]
    /\ cart = [u \in Users |-> NoItems]
    /\ owner = [c \in Checkouts |-> NoUser]
    /\ active = [c \in Checkouts |-> FALSE]
    /\ expires = [c \in Checkouts |-> 0]
    /\ snap = [c \in Checkouts |-> NoItems]
    /\ method = [c \in Checkouts |-> "none"]
    /\ resv = [c \in Checkouts |-> NoItems]
    /\ lock = [p \in Products |-> NoRequest]
    /\ pc = [r \in Requests |-> "idle"]
    /\ ctx = [r \in Requests |-> NoContext]
    /\ want = [r \in Requests |-> NoItems]
    /\ seen = [r \in Requests |-> NothingRead]

-----------------------------------------------------------------------------
(* The environment: time, carts, the administrator, the confirm handler.   *)

Tick ==
    /\ clock < MaxClock
    /\ clock' = clock + 1
    /\ UNCHANGED <<stock, cart, csVars, resv, lock, reqVars>>

\* add_item_to_cart: a new row has quantity 1, an existing one is locked and
\* incremented up to the cap, whatever the stock.  Nothing removes a row.
AddToCart(u, p) ==
    /\ cart[u][p] < MaxItemQty
    /\ cart' = [cart EXCEPT ![u][p] = @ + 1]
    /\ UNCHANGED <<clock, stock, csVars, resv, lock, reqVars>>

\* A single-statement write of stock_qty: the absolute value update_product
\* sets, or the result of the commit-intent worker's decrement.  It waits
\* for the row lock and is committed on its own.
WriteStock(p, n) ==
    /\ lock[p] = NoRequest
    /\ stock' = [stock EXCEPT ![p] = n]
    /\ UNCHANGED <<clock, cart, csVars, resv, lock, reqVars>>

\* place_order ends a checkout: because it expires within 40 seconds (less
\* than a tick), or after the payment intent of an order made from its
\* snapshot.
CloseCheckout(c) ==
    /\ active[c]
    /\ ~Live(c) \/ (snap[c] # NoItems /\ method[c] = "UPI")
    /\ active' = [active EXCEPT ![c] = FALSE]
    /\ UNCHANGED <<clock, stock, cart, owner, expires, snap, method, resv,
                   lock, reqVars>>

-----------------------------------------------------------------------------
(* POST /checkout/initiate                                                 *)

ActiveCheckouts(u) == {c \in Checkouts : owner[c] = u /\ active[c]}

\* The insert, which the partial unique index on (user_id) where is_active
\* lets through.
InitiateCheckout(u, c) ==
    /\ cart[u] # NoItems
    /\ ActiveCheckouts(u) = {}
    /\ owner[c] = NoUser
    /\ owner' = [owner EXCEPT ![c] = u]
    /\ active' = [active EXCEPT ![c] = TRUE]
    /\ expires' = [expires EXCEPT ![c] = clock + Ttl]
    /\ UNCHANGED <<clock, stock, cart, snap, method, resv, lock, reqVars>>

\* The insert conflicts and the existing row has expired: it is closed and
\* the client gets 410.  (A row still valid is returned unchanged.)
InitiateExpired(u, c) ==
    /\ cart[u] # NoItems
    /\ c \in ActiveCheckouts(u)
    /\ Expired(c)
    /\ active' = [active EXCEPT ![c] = FALSE]
    /\ UNCHANGED <<clock, stock, cart, owner, expires, snap, method, resv,
                   lock, reqVars>>

-----------------------------------------------------------------------------
(* POST /checkout/{id}/order-summary                                       *)

\* Mutant: the transaction stays open after the answer.
FinishKeepsLocks(r) ==
    /\ pc' = [pc EXCEPT ![r] = "done"]
    /\ ctx' = [ctx EXCEPT ![r] = NoContext]
    /\ want' = [want EXCEPT ![r] = NoItems]
    /\ seen' = [seen EXCEPT ![r] = NothingRead]
    /\ UNCHANGED lock

\* The answer of a request, with its transaction over and its locks free.
Finish(r) ==
    /\ pc' = [pc EXCEPT ![r] = "done"]
    /\ ctx' = [ctx EXCEPT ![r] = NoContext]
    /\ want' = [want EXCEPT ![r] = NoItems]
    /\ seen' = [seen EXCEPT ![r] = NothingRead]
    /\ lock' = [p \in Products |->
                   IF lock[p] = r THEN NoRequest ELSE lock[p]]

\* get_checkout_details takes no lock.  403, 410 and the repeated summary
\* (snapshot and method already there) answer at once.
BeginSummary(r, u, c, m) ==
    /\ pc[r] = "idle"
    /\ \/ /\ c \notin ActiveCheckouts(u)                        \* 403
          /\ Finish(r)
          /\ UNCHANGED active
       \/ /\ c \in ActiveCheckouts(u) /\ Expired(c)             \* 410
          /\ Finish(r)
          /\ active' = [active EXCEPT ![c] = FALSE]
       \/ /\ c \in ActiveCheckouts(u) /\ ~Expired(c)            \* 200
          /\ snap[c] # NoItems /\ method[c] # "none"
          /\ Finish(r)
          /\ UNCHANGED active
       \/ /\ c \in ActiveCheckouts(u) /\ ~Expired(c)
          /\ snap[c] = NoItems \/ method[c] = "none"
          /\ pc' = [pc EXCEPT ![r] = "capture"]
          /\ ctx' = [ctx EXCEPT ![r] = [user |-> u, checkout |-> c,
                                        method |-> m]]
          /\ UNCHANGED <<active, lock, want, seen>>
    /\ UNCHANGED <<clock, stock, cart, owner, expires, snap, method, resv>>

\* capture_cart_snapshot, the start of its statement: the quantities are the
\* ones committed now.  An empty result raises at rows[0].
CaptureCart(r) ==
    /\ pc[r] = "capture"
    /\ \/ /\ cart[ctx[r].user] = NoItems
          /\ Finish(r)
       \/ /\ cart[ctx[r].user] # NoItems
          /\ want' = [want EXCEPT ![r] = cart[ctx[r].user]]
          /\ pc' = [pc EXCEPT ![r] = "locking"]
          /\ UNCHANGED <<lock, ctx, seen>>
    /\ UNCHANGED <<clock, stock, cart, csVars, resv>>

\* Mutant: the stock is read without FOR UPDATE, the README's experiment.
ReadProduct(r, p) ==
    /\ pc[r] = "locking"
    /\ p \in Wanted(r)
    /\ seen[r][p] = NotRead
    /\ seen' = [seen EXCEPT ![r][p] = stock[p]]
    /\ UNCHANGED <<clock, stock, cart, csVars, resv, lock, pc, ctx, want>>

\* FOR UPDATE OF product: rows are locked one by one in the order of the
\* plan, and the stock returned is the one of the locked version.
LockProduct(r, p) ==
    /\ pc[r] = "locking"
    /\ p \in Wanted(r)
    /\ seen[r][p] = NotRead
    /\ lock[p] = NoRequest
    /\ lock' = [lock EXCEPT ![p] = r]
    /\ seen' = [seen EXCEPT ![r][p] = stock[p]]
    /\ UNCHANGED <<clock, stock, cart, csVars, resv, pc, ctx, want>>

\* Mutant: reservations are not subtracted.
InStock(r, p) == seen[r][p]

Available(r, p) == LET left == seen[r][p] - Reserved(p)
                   IN  IF left > 0 THEN left ELSE 0

\* validate_items_avblty: one product short is 409 for the whole request.
ValidateItems(r) ==
    /\ pc[r] = "locking"
    /\ \A p \in Wanted(r) : seen[r][p] # NotRead
    /\ \/ /\ \E p \in Wanted(r) : want[r][p] > Available(r, p)
          /\ Finish(r)
       \/ /\ \A p \in Wanted(r) : want[r][p] <= Available(r, p)
          /\ pc' = [pc EXCEPT ![r] = "reserve"]
          /\ UNCHANGED <<lock, ctx, want, seen>>
    /\ UNCHANGED <<clock, stock, cart, csVars, resv>>

\* Mutant: a checkout that has any row gets no more.
ReserveOnce(r) ==
    LET c == ctx[r].checkout IN
    /\ pc[r] = "reserve"
    /\ resv' = [resv EXCEPT ![c] = IF @ = NoItems THEN want[r] ELSE @]
    /\ snap' = [snap EXCEPT ![c] = want[r]]
    /\ method' = [method EXCEPT ![c] = ctx[r].method]
    /\ Finish(r)
    /\ UNCHANGED <<clock, stock, cart, owner, active, expires>>

\* reserve_inventory (ON CONFLICT DO NOTHING keeps an older row),
\* update_checkout_cart_n_paymethod (by id, whatever the row became since it
\* was read) and the commit.
Reserve(r) ==
    LET c == ctx[r].checkout IN
    /\ pc[r] = "reserve"
    /\ resv' = [resv EXCEPT ![c] = [p \in Products |->
                   IF resv[c][p] = 0 THEN want[r][p] ELSE resv[c][p]]]
    /\ snap' = [snap EXCEPT ![c] = want[r]]
    /\ method' = [method EXCEPT ![c] = ctx[r].method]
    /\ Finish(r)
    /\ UNCHANGED <<clock, stock, cart, owner, active, expires>>

\* Members of a set of requests that wait only for each other: PostgreSQL
\* finds the cycle and aborts one of them (external).
Deadlocked(D) ==
    \A r \in D :
        /\ pc[r] = "locking"
        /\ \E p \in Wanted(r) : seen[r][p] = NotRead
        /\ \A p \in Wanted(r) : seen[r][p] = NotRead => lock[p] \in D

DeadlockVictim(r) ==
    /\ \E D \in SUBSET Requests : r \in D /\ Deadlocked(D)
    /\ Finish(r)
    /\ UNCHANGED <<clock, stock, cart, csVars, resv>>

\* A database error, a cancelled request or a crash of the server: get_session
\* closes the session and the transaction is rolled back.
Abort(r) ==
    /\ InFlight(r)
    /\ Finish(r)
    /\ UNCHANGED <<clock, stock, cart, csVars, resv>>

-----------------------------------------------------------------------------
Step(r) == \/ CaptureCart(r)
           \/ \E p \in Products : LockProduct(r, p)
           \/ ValidateItems(r)
           \/ Reserve(r)
           \/ DeadlockVictim(r)

Next ==
    \/ Tick
    \/ \E u \in Users, p \in Products : AddToCart(u, p)
    \/ \E p \in Products, n \in 0..MaxStock : WriteStock(p, n)
    \/ \E c \in Checkouts : CloseCheckout(c)
    \/ \E u \in Users, c \in Checkouts : InitiateCheckout(u, c)
                                      \/ InitiateExpired(u, c)
    \/ \E r \in Requests, u \in Users, c \in Checkouts, m \in Methods :
          BeginSummary(r, u, c, m)
    \/ \E r \in Requests : Step(r) \/ Abort(r)

Spec == Init /\ [][Next]_vars

\* The server runs every request it accepted; clients and time may stop.
FairSpec == Spec /\ \A r \in Requests : WF_vars(Step(r))

-----------------------------------------------------------------------------
(* Properties.                                                             *)

\* The test test_two_users_concurrent_order_summary_reservation for any
\* number of requests: a step that takes more units of a product out of what
\* is available leaves no more units reserved than are in stock.  (Stock
\* written later may fall below what is reserved: reservations are not
\* released when the worker decrements.)
NoOversell ==
    [][\A p \in Products : Reserved(p)' > Reserved(p)
                              => Reserved(p)' <= stock'[p]]_vars

\* What validate_items_avblty checked is still true when reserve_inventory
\* runs, however much happened in between: the row locks keep other requests
\* and stock writes away, and time only frees units.
CheckStillHolds ==
    \A r \in Requests : pc[r] = "reserve" =>
        \A p \in Wanted(r) : want[r][p] + Reserved(p) <= stock[p]

\* A snapshot that secure-confirm may turn into an order has a reservation
\* row for each of its products, whichever of several concurrent summaries
\* of the checkout wrote it last, and an order has a method to be paid by.
SnapshotBacked ==
    \A c \in Checkouts :
        snap[c] # NoItems =>
            /\ method[c] # "none"
            /\ \A p \in Products : snap[c][p] > 0 => resv[c][p] > 0

\* A request in flight for a product holds its row until it ends, and a lock
\* is held by no one else: a rollback or an answer gives every row back.
LocksMatchReads ==
    \A r \in Requests, p \in Products :
        /\ lock[p] = r <=> seen[r][p] # NotRead
        /\ lock[p] = r => pc[r] \in {"locking", "reserve"}

\* What makes the properties above inductive: the stock a request has read is
\* the stock of the row, it has read every row it reserves from, it acts for
\* a checkout that exists, and only such a checkout has reservation rows.
SeenIsCurrent ==
    \A r \in Requests, p \in Products :
        seen[r][p] # NotRead => seen[r][p] = stock[p]

ReadBeforeReserve ==
    \A r \in Requests : pc[r] = "reserve" =>
        \A p \in Wanted(r) : seen[r][p] # NotRead

ActsForCheckout ==
    \A r \in Requests : InFlight(r) =>
        /\ ctx[r].user \in Users
        /\ ctx[r].method \in Methods
        /\ owner[ctx[r].checkout] # NoUser

RowsHaveOwner ==
    \A c \in Checkouts : owner[c] = NoUser => resv[c] = NoItems

CheckoutInv ==
    /\ TypeOK
    /\ LocksMatchReads
    /\ SeenIsCurrent
    /\ ReadBeforeReserve
    /\ ActsForCheckout
    /\ RowsHaveOwner
    /\ CheckStillHolds
    /\ SnapshotBacked

\* Every request that was accepted is answered: products locked in opposite
\* orders and rolled back transactions block nobody for good.
RequestsAnswered ==
    \A r \in Requests : InFlight(r) ~> pc[r] = "done"

\* What validate_reservations (backend/orders/repository.py) asserts of every
\* checkout: a reservation row has the quantity of the snapshot.
ReservationMatchesSnapshot ==
    \A c \in Checkouts, p \in Products :
        resv[c][p] > 0 => resv[c][p] = snap[c][p]
=============================================================================
