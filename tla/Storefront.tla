----------------------------- MODULE Storefront ------------------------------
(***************************************************************************)
(* The shop as a shopper meets it: the product listing, page after page    *)
(* through the Redis cache (backend/products, backend/cache), while        *)
(* products are added; then an addition to the cart (backend/cart).        *)
(*                                                                         *)
(* A page is a function of the catalogue it was read from and the cursor,  *)
(* so the cache holds, for each cursor, the catalogue of its page.  Every  *)
(* Redis command and every transaction is a step of its own; time is the   *)
(* expiry of pages and locks, which may come at any moment, also while the *)
(* holder of a lock still works.                                           *)
(***************************************************************************)
EXTENDS Integers, FiniteSets

CONSTANTS Products,   \* ids, in the order of the id sequence
          CreatedAt,  \* created_at of a product, taken before its commit
          Stocked,    \* the products listed at first
          Limit,      \* limit of a page
          Shoppers,   \* tabs, each walking through the listing once
          UserOf,     \* the user of a tab
          NoOne,
          MaxItemQty, \* max_item_qty
          Wanted,     \* the products somebody may want
          Kept        \* what a user's cart may hold of them from earlier visits

ASSUME StorefrontAssumption ==
    /\ Products \subseteq Nat \ {0}
    /\ IsFiniteSet(Products)
    /\ CreatedAt \in [Products -> Nat]
    /\ Stocked \subseteq Products
    /\ Limit \in Nat \ {0}
    /\ MaxItemQty \in Nat \ {0}
    /\ Wanted \subseteq Products
    /\ Kept \in [Wanted -> 0 .. MaxItemQty]
    /\ NoOne \notin Shoppers

Users == {UserOf[s] : s \in Shoppers}

VARIABLES
    listed,   \* the products committed
    cache,    \* of a cursor: the catalogue its cached page shows
    lock,     \* of a cursor: whose token the lock key holds
    carts,    \* the users with a Cart row
    qty,      \* CartItem.quantity of a user and a product; 0: no row
    rowLock,  \* the tab holding that row
    pc,       \* where the request of a tab is
    cursor,   \* the cursor it asks for; 0: the first page
    held,     \* the catalogue it has loaded
    mine,     \* it took the lock
    seen,     \* the products it was shown
    known,    \* the products that every page it was shown could show
    want,     \* the product it adds to the cart, and the quantity it read
    read,
    soldOut,  \* product_data["stock_qty"] == 0 when it read the product
    added,    \* how many additions of a product to a user's cart succeeded
    due       \* how many of them found stock, or no row yet

redis == <<cache, lock>>
cartVars == <<carts, qty, rowLock, want, read, soldOut, added, due>>
tab == <<pc, cursor, held, mine, seen, known>>
vars == <<listed, redis, cartVars, tab>>

Empty == [hit |-> FALSE, of |-> {}]
Page(c) == [hit |-> TRUE, of |-> c]
Cursors == Products \cup {0}

Browsing == {"get", "lock", "recheck", "load", "store", "release", "poll"}

TypeOK ==
    /\ listed \subseteq Products
    /\ cache \in [Cursors -> [hit : BOOLEAN, of : SUBSET Products]]
    /\ lock \in [Cursors -> Shoppers \cup {NoOne}]
    /\ carts \subseteq Users
    /\ qty \in [Users \X Wanted -> 0 .. MaxItemQty]
    /\ rowLock \in [Users \X Wanted -> Shoppers \cup {NoOne}]
    /\ pc \in [Shoppers -> Browsing \cup
                  {"shop", "cart", "item", "insert", "update", "done", "gone"}]
    /\ cursor \in [Shoppers -> Cursors]
    /\ held \in [Shoppers -> SUBSET Products]
    /\ mine \in [Shoppers -> BOOLEAN]
    /\ seen \in [Shoppers -> SUBSET Products]
    /\ known \in [Shoppers -> SUBSET Products]
    /\ want \in [Shoppers -> Wanted \cup {0}]
    /\ read \in [Shoppers -> 0 .. MaxItemQty]
    /\ soldOut \in [Shoppers -> BOOLEAN]
    /\ added \in [Users \X Wanted -> Nat]
    /\ due \in [Users \X Wanted -> Nat]

Init ==
    /\ listed = Stocked
    /\ cache = [c \in Cursors |-> Empty]
    /\ lock = [c \in Cursors |-> NoOne]
    /\ carts \in {{}, Users}
    /\ qty = [k \in Users \X Wanted |-> IF carts = {} THEN 0 ELSE Kept[k[2]]]
    /\ rowLock = [k \in Users \X Wanted |-> NoOne]
    /\ pc = [s \in Shoppers |-> "get"]
    /\ cursor = [s \in Shoppers |-> 0]
    /\ held = [s \in Shoppers |-> {}]
    /\ mine = [s \in Shoppers |-> FALSE]
    /\ seen = [s \in Shoppers |-> {}]
    /\ known = [s \in Shoppers |-> Products]
    /\ want = [s \in Shoppers |-> 0]
    /\ read = [s \in Shoppers |-> 0]
    /\ soldOut = [s \in Shoppers |-> FALSE]
    /\ added = qty
    /\ due = qty

-----------------------------------------------------------------------------
(* The catalogue: create_product, and fetch_prods.                         *)

\* create_product_with_catgs and its commit, in any order of ids.  A taken
\* name or an unknown category raises, and nothing is left.
CreateProduct(p) ==
    /\ p \notin listed
    /\ listed' = listed \cup {p}
    /\ UNCHANGED <<redis, cartVars, tab>>

\* The ORDER BY of fetch_prods: newest first, then by id.
Before(p, q) ==
    \/ CreatedAt[p] > CreatedAt[q]
    \/ CreatedAt[p] = CreatedAt[q] /\ p < q

\* Mutant: products created at the cursor's time are left out.
StrictlyOlder(c, of) == {p \in of : c = 0 \/ CreatedAt[p] < CreatedAt[c]}

\* keyset_filter.
Rest(c, of) == {p \in of : c = 0 \/ Before(c, p)}

Items(c, of) ==
    LET rest == Rest(c, of)
    IN {p \in rest : Cardinality({q \in rest : Before(q, p)}) < Limit}

\* One row more than the limit was found.
HasMore(c, of) == Cardinality(Rest(c, of)) > Limit

\* The cursor in next_cursor: the last product of the page.
Last(items) == CHOOSE p \in items : \A q \in items : q = p \/ Before(q, p)

-----------------------------------------------------------------------------
(* get_products through cache_get_or_set_product_listings.                 *)

Goto(s, l) == pc' = [pc EXCEPT ![s] = l]

\* The walk through the listing is over, and so is what it needed.
Leave(s, l) ==
    /\ Goto(s, l)
    /\ cursor' = [cursor EXCEPT ![s] = 0]
    /\ held' = [held EXCEPT ![s] = {}]
    /\ mine' = [mine EXCEPT ![s] = FALSE]
    /\ seen' = [seen EXCEPT ![s] = {}]
    /\ known' = [known EXCEPT ![s] = {}]

\* The page is answered; the tab asks for the next one or is through.
Show(s, of) ==
    LET c == cursor[s]
        items == Items(c, of)
    IN /\ seen' = [seen EXCEPT ![s] = @ \cup items]
       /\ known' = [known EXCEPT ![s] = @ \cap of]
       /\ cursor' = [cursor EXCEPT ![s] = IF HasMore(c, of) THEN Last(items) ELSE c]
       /\ held' = [held EXCEPT ![s] = {}]
       /\ mine' = [mine EXCEPT ![s] = FALSE]
       /\ Goto(s, IF HasMore(c, of) THEN "get" ELSE "shop")

\* get_products_without_cache, for one page.
Uncached(s) ==
    /\ pc[s] = "get"
    /\ Show(s, listed)
    /\ UNCHANGED <<listed, redis, cartVars>>

\* get_bytes, first and while polling.
CacheHit(s) ==
    /\ pc[s] \in {"get", "poll"}
    /\ cache[cursor[s]].hit
    /\ Show(s, cache[cursor[s]].of)
    /\ UNCHANGED <<listed, redis, cartVars>>

CacheMiss(s) ==
    /\ pc[s] = "get"
    /\ ~cache[cursor[s]].hit
    /\ Goto(s, "lock")
    /\ UNCHANGED <<listed, redis, cartVars, cursor, held, mine, seen, known>>

\* SET NX EX.
TryLock(s) ==
    LET free == lock[cursor[s]] = NoOne
    IN /\ pc[s] = "lock"
       /\ lock' = IF free THEN [lock EXCEPT ![cursor[s]] = s] ELSE lock
       /\ mine' = [mine EXCEPT ![s] = free]
       /\ Goto(s, IF free THEN "recheck" ELSE "poll")
       /\ UNCHANGED <<listed, cache, cartVars, cursor, held, seen, known>>

\* The cache may have been filled while the tab got the lock.
Recheck(s) ==
    LET entry == cache[cursor[s]]
    IN /\ pc[s] = "recheck"
       /\ held' = [held EXCEPT ![s] = entry.of]
       /\ Goto(s, IF entry.hit THEN "release" ELSE "load")
       /\ UNCHANGED <<listed, redis, cartVars, cursor, mine, seen, known>>

\* Mutant: a tab without the lock waits for as long as there is no page.
KeepPolling(s) == FALSE /\ UNCHANGED vars

\* lock_timeout + 1 seconds without a page: the tab computes it itself.
PollTimeout(s) ==
    /\ pc[s] = "poll"
    /\ Goto(s, "load")
    /\ UNCHANGED <<listed, redis, cartVars, cursor, held, mine, seen, known>>

Load(s) ==
    /\ pc[s] = "load"
    /\ held' = [held EXCEPT ![s] = listed]
    /\ Goto(s, "store")
    /\ UNCHANGED <<listed, redis, cartVars, cursor, mine, seen, known>>

\* set_bytes, or its swallowed error; without the lock the answer follows.
Store(s) ==
    /\ pc[s] = "store"
    /\ \/ cache' = [cache EXCEPT ![cursor[s]] = Page(held[s])]
       \/ UNCHANGED cache
    /\ IF mine[s] THEN Goto(s, "release") /\ UNCHANGED <<cursor, held, mine, seen, known>>
                  ELSE Show(s, held[s])
    /\ UNCHANGED <<listed, lock, cartVars>>

\* release_lock: the script deletes the tab's own token; if it raises, the
\* lock is deleted whoever holds it, or stays.
Unlocked(s) ==
    LET c == cursor[s]
    IN {[lock EXCEPT ![c] = IF @ = s THEN NoOne ELSE @], [lock EXCEPT ![c] = NoOne], lock}

Release(s) ==
    /\ pc[s] = "release"
    /\ lock' \in Unlocked(s)
    /\ Show(s, held[s])
    /\ UNCHANGED <<listed, cache, cartVars>>

\* The loader raises: the finally clause releases the lock.
LoadFails(s) ==
    /\ pc[s] = "load"
    /\ lock' \in IF mine[s] THEN Unlocked(s) ELSE {lock}
    /\ Leave(s, "gone")
    /\ UNCHANGED <<listed, cache, cartVars>>

\* decode_cursor: the cursor is more than a day old.
CursorExpired(s) ==
    /\ pc[s] = "get"
    /\ cursor[s] # 0
    /\ Leave(s, "gone")
    /\ UNCHANGED <<listed, redis, cartVars>>

\* The process dies or the request is cancelled.  A lock that was taken is
\* left to expire.
Crash(s) ==
    /\ pc[s] \in Browsing
    /\ Leave(s, "gone")
    /\ UNCHANGED <<listed, redis, cartVars>>

\* PRODUCT_LIST_TTL and REDIS_LOCK_TIMEOUT pass.
ExpirePage(c) ==
    /\ cache[c].hit
    /\ cache' = [cache EXCEPT ![c] = Empty]
    /\ UNCHANGED <<listed, lock, cartVars, tab>>

ExpireLock(c) ==
    /\ lock[c] # NoOne
    /\ lock' = [lock EXCEPT ![c] = NoOne]
    /\ UNCHANGED <<listed, cache, cartVars, tab>>

-----------------------------------------------------------------------------
(* add_to_cart.                                                            *)

Key(s) == <<UserOf[s], want[s]>>

GetProductData(p) == p \in listed

\* get_product_data, and the SELECT of get_or_create_cart.  Workers and
\* administrators write the stock, so the reading may be anything.
AddToCart(s, p) ==
    /\ pc[s] = "shop"
    /\ p \in seen[s]
    /\ GetProductData(p)
    /\ want' = [want EXCEPT ![s] = p]
    /\ \E none \in BOOLEAN : soldOut' = [soldOut EXCEPT ![s] = none]
    /\ Leave(s, IF UserOf[s] \in carts THEN "item" ELSE "cart")
    /\ UNCHANGED <<listed, redis, carts, qty, rowLock, read, added, due>>

\* The INSERT of a cart and its commit.  When the unique index refuses it,
\* the rollback and the second SELECT find the other tab's cart.  Every
\* request that gets here has a user, and none a session id, so the branch for
\* guests is not taken.
CreateCart(s) ==
    /\ pc[s] = "cart"
    /\ carts' = carts \cup {UserOf[s]}
    /\ Goto(s, "item")
    /\ UNCHANGED <<listed, redis, qty, rowLock, want, read, soldOut, added, due,
                   cursor, held, mine, seen, known>>

\* Mutant: the row is read without FOR UPDATE.
SelectItemUnlocked(s) ==
    /\ pc[s] = "item"
    /\ read' = [read EXCEPT ![s] = qty[Key(s)]]
    /\ Goto(s, IF qty[Key(s)] = 0 THEN "insert" ELSE "update")
    /\ UNCHANGED <<listed, redis, carts, qty, rowLock, want, soldOut, added, due,
                   cursor, held, mine, seen, known>>

\* The SELECT FOR UPDATE of add_item_to_cart.  Without a row the stock that
\* was read plays no part.
SelectItem(s) ==
    /\ pc[s] = "item"
    /\ rowLock[Key(s)] = NoOne
    /\ read' = [read EXCEPT ![s] = qty[Key(s)]]
    /\ rowLock' = IF qty[Key(s)] = 0 THEN rowLock ELSE [rowLock EXCEPT ![Key(s)] = s]
    /\ soldOut' = IF qty[Key(s)] = 0 THEN [soldOut EXCEPT ![s] = FALSE] ELSE soldOut
    /\ Goto(s, IF qty[Key(s)] = 0 THEN "insert" ELSE "update")
    /\ UNCHANGED <<listed, redis, carts, qty, want, added, due,
                   cursor, held, mine, seen, known>>

\* The transaction commits with a quantity, and the addition is answered.
CommitItem(s, n) ==
    /\ qty' = [qty EXCEPT ![Key(s)] = n]
    /\ added' = [added EXCEPT ![Key(s)] = @ + 1]
    /\ due' = [due EXCEPT ![Key(s)] = IF soldOut[s] /\ pc[s] = "update" THEN @ ELSE @ + 1]
    /\ rowLock' = [rowLock EXCEPT ![Key(s)] = IF @ = s THEN NoOne ELSE @]
    /\ Goto(s, "done")
    /\ want' = [want EXCEPT ![s] = 0]
    /\ read' = [read EXCEPT ![s] = 0]
    /\ soldOut' = [soldOut EXCEPT ![s] = FALSE]
    /\ UNCHANGED <<listed, redis, carts, cursor, held, mine, seen, known>>

\* new_qty, no more than max_item_qty.
Cap(n) == IF n > MaxItemQty THEN MaxItemQty ELSE n

\* Mutant: the cap is tested before the increment.
CapFirst(s) ==
    /\ pc[s] = "update"
    /\ CommitItem(s, IF read[s] > MaxItemQty THEN MaxItemQty ELSE read[s] + 1)

\* Without stock new_qty is set to existing_qty, and then overwritten as it is
\* with stock.
UpdateItem(s) ==
    /\ pc[s] = "update"
    /\ CommitItem(s, Cap(read[s] + 1))

InsertItem(s) ==
    /\ pc[s] = "insert"
    /\ qty[Key(s)] = 0
    /\ CommitItem(s, 1)

\* uq_cart_product refuses the second of two first additions (500), or the
\* transaction fails.
CartFails(s) ==
    /\ pc[s] \in {"cart", "item", "insert", "update"}
    /\ rowLock' = [rowLock EXCEPT ![Key(s)] = IF @ = s THEN NoOne ELSE @]
    /\ Goto(s, "gone")
    /\ want' = [want EXCEPT ![s] = 0]
    /\ read' = [read EXCEPT ![s] = 0]
    /\ soldOut' = [soldOut EXCEPT ![s] = FALSE]
    /\ UNCHANGED <<listed, redis, carts, qty, added, due, cursor, held, mine, seen, known>>

-----------------------------------------------------------------------------
Browse(s) ==
    \/ CacheHit(s) \/ CacheMiss(s) \/ TryLock(s) \/ Recheck(s) \/ PollTimeout(s)
    \/ Load(s) \/ Store(s) \/ Release(s) \/ LoadFails(s)

Buy(s) ==
    \/ \E p \in Wanted : AddToCart(s, p)
    \/ CreateCart(s) \/ SelectItem(s) \/ UpdateItem(s) \/ InsertItem(s) \/ CartFails(s)

Next ==
    \/ \E p \in Products : CreateProduct(p)
    \/ \E c \in Cursors : ExpirePage(c) \/ ExpireLock(c)
    \/ \E s \in Shoppers : Browse(s) \/ Uncached(s) \/ CursorExpired(s) \/ Crash(s) \/ Buy(s)

Spec == Init /\ [][Next]_vars

\* A request keeps running; nothing is assumed of expiry.
Fairness == \A s \in Shoppers : WF_vars(Browse(s))

FairSpec == Spec /\ Fairness

-----------------------------------------------------------------------------
(* Properties.                                                             *)

\* A shopper who has followed next_cursor to the end has been shown every
\* product that each of the pages could show, although products were added
\* meanwhile, also behind the cursor and with equal times, and although the
\* pages were cached at different moments by different requests.
ListingComplete ==
    \A s \in Shoppers : pc[s] = "shop" => known[s] \subseteq seen[s]

\* Every page request is answered, although the tab that holds the lock may
\* fail, die or not store the page, and the lock may outlive it.
PagesAnswered == \A s \in Shoppers : pc[s] \in Browsing ~> pc[s] \notin Browsing

\* An addition that was answered with success and found stock is in the cart
\* exactly once, up to max_item_qty, although the tabs of a user add at the
\* same time; one that failed is not.  An addition to a row that found no
\* stock is not to be counted by the comments of add_item_to_cart, and is: of
\* these the property asks only that none is counted twice.
AdditionsCounted ==
    \A k \in Users \X Wanted : Cap(due[k]) <= qty[k] /\ qty[k] <= Cap(added[k])
==============================================================================
