-------------------------- MODULE StorefrontProofs ---------------------------
(***************************************************************************)
(* Proofs about Storefront: a walk through the listing misses nothing, and *)
(* the cart counts every addition once, for any catalogue, page limit and  *)
(* number of tabs.                                                         *)
(*                                                                         *)
(* The argument for the listing: whatever catalogue a page was read from,  *)
(* what it leaves out of the rest behind the cursor comes after the last   *)
(* product it shows.  That needs a product at every place of the order of  *)
(* fetch_prods, which follows from counting: no two products have the same *)
(* number of products before them.                                         *)
(***************************************************************************)
EXTENDS Storefront, FiniteSetTheorems, TLAPS

\* Where a tab is in the listing: of the products that all its pages could
\* show, the ones it has not been shown come after its cursor.
NothingSkipped ==
    \A s \in Shoppers : pc[s] \in Browsing =>
        \A p \in known[s] : p \in seen[s] \/ cursor[s] = 0 \/ Before(cursor[s], p)

\* A tab that writes a cart row knows which.
WantedKnown ==
    \A s \in Shoppers : pc[s] \in {"cart", "item", "insert", "update"} => want[s] \in Wanted

\* A tab about to UPDATE a row holds it, and has read what it holds.
UpdaterHolds ==
    \A s \in Shoppers : pc[s] = "update" =>
        rowLock[Key(s)] = s /\ read[s] = qty[Key(s)] /\ qty[Key(s)] # 0

\* The inductive invariant of listing and cart.
StoreInv ==
    /\ TypeOK
    /\ NothingSkipped
    /\ ListingComplete
    /\ WantedKnown
    /\ UpdaterHolds
    /\ AdditionsCounted
-----------------------------------------------------------------------------
(* The order of fetch_prods, and a page of it.                             *)

\* How many of R come before p.
Rank(R, p) == Cardinality({q \in R : Before(q, p)})

\* The ORDER BY is a strict total order of the products.
LEMMA BeforeIsOrder ==
    ASSUME NEW p \in Products, NEW q \in Products, NEW r \in Products
    PROVE  /\ ~Before(p, p)
           /\ Before(p, q) /\ Before(q, r) => Before(p, r)
           /\ p = q \/ Before(p, q) \/ Before(q, p)
<1>1. p \in Nat /\ q \in Nat /\ r \in Nat
  BY StorefrontAssumption
<1>2. CreatedAt[p] \in Nat /\ CreatedAt[q] \in Nat /\ CreatedAt[r] \in Nat
  BY StorefrontAssumption
<1> QED BY <1>1, <1>2 DEF Before

\* A set of products is finite, and so is any part of it.
LEMMA SetsOfProducts ==
    ASSUME NEW R \in SUBSET Products, NEW T \in SUBSET R
    PROVE  /\ IsFiniteSet(R) /\ Cardinality(R) \in Nat
           /\ IsFiniteSet(T) /\ Cardinality(T) \in Nat
           /\ Cardinality(T) <= Cardinality(R)
<1>1. IsFiniteSet(R)
  BY FS_Subset, StorefrontAssumption
<1>2. IsFiniteSet(T) /\ Cardinality(T) <= Cardinality(R)
  BY <1>1, FS_Subset
<1> QED BY <1>1, <1>2, FS_CardinalityType

\* A product has fewer products before it than there are.
LEMMA RankBound ==
    ASSUME NEW R \in SUBSET Products, NEW p \in R
    PROVE  Rank(R, p) \in Nat /\ Rank(R, p) < Cardinality(R)
<1> DEFINE B == {q \in R : Before(q, p)}
<1>1. IsFiniteSet(R) /\ Cardinality(R) \in Nat
  BY SetsOfProducts
<1>2. B \in SUBSET (R \ {p})
  BY BeforeIsOrder
<1>3. IsFiniteSet(R \ {p}) /\ Cardinality(R \ {p}) = Cardinality(R) - 1
  BY <1>1, FS_RemoveElement
<1>4. Cardinality(B) <= Cardinality(R) - 1
  <2> HIDE DEF B
  <2> QED BY <1>2, <1>3, FS_Subset
<1>5. Cardinality(B) \in Nat
  BY SetsOfProducts
<1> QED BY <1>1, <1>4, <1>5 DEF Rank

\* A later product has more products before it.
LEMMA RankGrows ==
    ASSUME NEW R \in SUBSET Products, NEW p \in R, NEW q \in R, Before(p, q)
    PROVE  Rank(R, p) < Rank(R, q)
<1> DEFINE B == {r \in R : Before(r, p)}
           C == {r \in R : Before(r, q)}
<1>1. B \in SUBSET R /\ C \in SUBSET R
  OBVIOUS
<1>2. B \in SUBSET C /\ p \in C /\ p \notin B
  BY BeforeIsOrder
<1>3. Rank(R, p) = Cardinality(B) /\ Rank(R, q) = Cardinality(C)
  BY DEF Rank
<1> HIDE DEF B, C
<1>4. /\ IsFiniteSet(B) /\ Cardinality(B) \in Nat
      /\ IsFiniteSet(C) /\ Cardinality(C) \in Nat
  BY <1>1, SetsOfProducts
<1>5. Cardinality(B \cup {p}) = Cardinality(B) + 1
  BY <1>2, <1>4, FS_AddElement
<1>6. Cardinality(B \cup {p}) <= Cardinality(C)
  BY <1>2, <1>4, FS_Subset
<1> QED BY <1>3, <1>4, <1>5, <1>6

\* There is a product at every place of the order.
LEMMA EveryRankTaken ==
    ASSUME NEW R \in SUBSET Products, NEW n \in Nat, n < Cardinality(R)
    PROVE  \E p \in R : Rank(R, p) = n
<1> DEFINE N == Cardinality(R)
           T == (0 .. N - 1) \ {n}
           f == [p \in R |-> Rank(R, p)]
<1>1. IsFiniteSet(R) /\ N \in Nat
  BY SetsOfProducts
<1>2. IsFiniteSet(0 .. N - 1) /\ Cardinality(0 .. N - 1) = N
  <2>1. N - 1 \in Int /\ ~(0 > N - 1) /\ (N - 1) - 0 + 1 = N
    BY <1>1
  <2> HIDE DEF N
  <2> QED BY <2>1, FS_Interval
<1>3. IsFiniteSet(T) /\ Cardinality(T) = N - 1
  <2>1. n \in 0 .. N - 1
    BY <1>1
  <2> QED BY <1>2, <2>1, FS_RemoveElement
<1>4. SUFFICES ASSUME \A p \in R : Rank(R, p) # n
               PROVE  FALSE
  OBVIOUS
<1>5. f \in [R -> T]
  <2>1. ASSUME NEW p \in R
        PROVE  Rank(R, p) \in T
    BY <1>1, <1>4, RankBound
  <2> QED BY <2>1
<1>6. PICK p \in R, q \in R : p # q /\ f[p] = f[q]
  <2> HIDE DEF f, T
  <2> QED BY <1>1, <1>3, <1>5, FS_PigeonHole
<1>7. Before(p, q) \/ Before(q, p)
  BY <1>6, BeforeIsOrder
<1> QED BY <1>6, <1>7, RankGrows, RankBound

\* When there are more, the product in next_cursor is one of the rest behind
\* the cursor, and comes before all of the rest that is not shown.
LEMMA PageEnds ==
    ASSUME NEW c, NEW of \in SUBSET Products, HasMore(c, of)
    PROVE  /\ Last(Items(c, of)) \in Rest(c, of)
           /\ \A p \in Rest(c, of) \ Items(c, of) : Before(Last(Items(c, of)), p)
<1> DEFINE R == Rest(c, of)
           I == Items(c, of)
<1>1. R \in SUBSET Products
  BY DEF Rest
<1>2. I = {p \in R : Rank(R, p) < Limit}
  BY DEF Items, Rank
<1>3. Cardinality(R) \in Nat /\ Limit \in Nat \ {0} /\ Limit < Cardinality(R)
  BY <1>1, SetsOfProducts, StorefrontAssumption DEF HasMore
<1> HIDE DEF R, I
<1>4. PICK l \in R : Rank(R, l) = Limit - 1
  BY <1>1, <1>3, EveryRankTaken
<1>5. l \in I
  BY <1>2, <1>3, <1>4
<1>6. \A q \in I : q = l \/ Before(q, l)
  <2> SUFFICES ASSUME NEW q \in I
               PROVE  q = l \/ Before(q, l)
    OBVIOUS
  <2>1. q \in R /\ Rank(R, q) < Limit
    BY <1>2
  <2>2. CASE Before(l, q)
    BY <1>1, <1>3, <1>4, <2>1, <2>2, RankGrows, RankBound
  <2> QED BY <1>1, <2>1, <2>2, BeforeIsOrder
<1>7. /\ Last(I) \in I
      /\ \A q \in I : q = Last(I) \/ Before(q, Last(I))
  BY <1>5, <1>6 DEF Last
<1>8. Last(I) = l
  <2>1. Last(I) \in Products /\ l \in Products
    BY <1>1, <1>2, <1>4, <1>7
  <2>2. (Last(I) = l \/ Before(Last(I), l)) /\ (l = Last(I) \/ Before(l, Last(I)))
    BY <1>5, <1>6, <1>7
  <2> QED BY <2>1, <2>2, BeforeIsOrder
<1>9. \A p \in R \ I : Before(l, p)
  <2> SUFFICES ASSUME NEW p \in R, p \notin I
               PROVE  Before(l, p)
    OBVIOUS
  <2>1. Rank(R, p) >= Limit /\ Rank(R, p) \in Nat
    BY <1>1, <1>2, <1>3, RankBound
  <2>2. p # l
    BY <1>5
  <2>3. ~Before(p, l)
    BY <1>1, <1>3, <1>4, <2>1, RankGrows
  <2> QED BY <1>1, <1>4, <2>2, <2>3, BeforeIsOrder
<1> QED BY <1>4, <1>8, <1>9 DEF R, I

\* The last page shows all of the rest.
LEMMA LastPageShowsRest ==
    ASSUME NEW c, NEW of \in SUBSET Products, ~HasMore(c, of)
    PROVE  Items(c, of) = Rest(c, of)
<1> DEFINE R == Rest(c, of)
<1>1. R \in SUBSET Products
  BY DEF Rest
<1>2. Items(c, of) = {p \in R : Rank(R, p) < Limit}
  BY DEF Items, Rank
<1>3. Cardinality(R) \in Nat /\ Limit \in Nat /\ Cardinality(R) <= Limit
  BY <1>1, SetsOfProducts, StorefrontAssumption DEF HasMore
<1> HIDE DEF R
<1>4. \A p \in R : Rank(R, p) < Limit
  BY <1>1, <1>3, RankBound
<1> QED BY <1>2, <1>4 DEF R
-----------------------------------------------------------------------------
(* What the parts of a step keep.                                          *)

\* The places in add_to_cart from which a row may still be written.
Buying == {"cart", "item", "insert", "update"}

\* What concerns the walk through the listing, and the cart.
ListingInv == NothingSkipped /\ ListingComplete

CartInv == WantedKnown /\ UpdaterHolds /\ AdditionsCounted

TabTypeOK ==
    /\ pc \in [Shoppers -> Browsing \cup {"shop", "cart", "item", "insert", "update", "done", "gone"}]
    /\ cursor \in [Shoppers -> Cursors]
    /\ held \in [Shoppers -> SUBSET Products]
    /\ mine \in [Shoppers -> BOOLEAN]
    /\ seen \in [Shoppers -> SUBSET Products]
    /\ known \in [Shoppers -> SUBSET Products]

CartTypeOK ==
    /\ carts \subseteq Users
    /\ qty \in [Users \X Wanted -> 0 .. MaxItemQty]
    /\ rowLock \in [Users \X Wanted -> Shoppers \cup {NoOne}]
    /\ want \in [Shoppers -> Wanted \cup {0}]
    /\ read \in [Shoppers -> 0 .. MaxItemQty]
    /\ soldOut \in [Shoppers -> BOOLEAN]
    /\ added \in [Users \X Wanted -> Nat]
    /\ due \in [Users \X Wanted -> Nat]

RedisTypeOK ==
    /\ listed \subseteq Products
    /\ cache \in [Cursors -> [hit : BOOLEAN, of : SUBSET Products]]
    /\ lock \in [Cursors -> Shoppers \cup {NoOne}]

\* The parts together are the invariant, before a step and after it.
LEMMA StoreInvParts ==
    /\ StoreInv => TabTypeOK /\ CartTypeOK /\ RedisTypeOK /\ ListingInv /\ CartInv
    /\ TabTypeOK' /\ CartTypeOK' /\ RedisTypeOK' /\ ListingInv' /\ CartInv' => StoreInv'
BY DEF StoreInv, TypeOK, TabTypeOK, CartTypeOK, RedisTypeOK, ListingInv, CartInv

\* A page that is answered, whatever catalogue it was read from, leaves the
\* tab with nothing skipped: behind the next cursor, or at the end.
LEMMA ShowKeepsListing ==
    ASSUME TabTypeOK, ListingInv,
           NEW s \in Shoppers, NEW of \in SUBSET Products,
           pc[s] \in Browsing, Show(s, of)
    PROVE  /\ TabTypeOK' /\ ListingInv'
           /\ \E l \in {"get", "shop"} : pc' = [pc EXCEPT ![s] = l]
<1> DEFINE c == cursor[s]
           n == IF HasMore(c, of) THEN Last(Items(c, of)) ELSE c
           l == IF HasMore(c, of) THEN "get" ELSE "shop"
<1>1. c \in Cursors /\ known[s] \in SUBSET Products /\ seen[s] \in SUBSET Products
  BY DEF TabTypeOK
<1>2. Rest(c, of) \in SUBSET Products /\ Items(c, of) \in SUBSET Rest(c, of)
  BY DEF Rest, Items
<1>3. n \in Cursors
  BY <1>1, <1>2, PageEnds DEF Cursors
<1>4. /\ seen' = [seen EXCEPT ![s] = seen[s] \cup Items(c, of)]
      /\ known' = [known EXCEPT ![s] = known[s] \cap of]
      /\ cursor' = [cursor EXCEPT ![s] = n]
      /\ held' = [held EXCEPT ![s] = {}]
      /\ mine' = [mine EXCEPT ![s] = FALSE]
      /\ pc' = [pc EXCEPT ![s] = l]
  BY DEF Show, Goto
<1>5. \A p \in known[s] \cap of : p \in seen[s] \cup Rest(c, of)
  BY DEF ListingInv, NothingSkipped, Rest
<1>6. HasMore(c, of) => \A p \in known[s] \cap of : p \in seen[s] \cup Items(c, of) \/ Before(n, p)
  BY <1>5, PageEnds
<1>7. ~HasMore(c, of) => \A p \in known[s] \cap of : p \in seen[s] \cup Items(c, of)
  BY <1>5, LastPageShowsRest
<1>8. l \in {"get", "shop"} /\ (l = "get" <=> HasMore(c, of))
  OBVIOUS
<1> HIDE DEF c, n, l
<1>9. TabTypeOK'
  <2>1. seen[s] \cup Items(c, of) \in SUBSET Products /\ known[s] \cap of \in SUBSET Products
    BY <1>1, <1>2
  <2>2. l \in Browsing \cup {"shop"}
    BY <1>8 DEF Browsing
  <2>3. mine' \in [Shoppers -> BOOLEAN]
    BY <1>4 DEF TabTypeOK
  <2> QED BY <1>3, <1>4, <2>1, <2>2, <2>3 DEF TabTypeOK
<1>10. NothingSkipped'
  <2> SUFFICES ASSUME NEW t \in Shoppers, pc'[t] \in Browsing, NEW p \in known'[t]
               PROVE  p \in seen'[t] \/ cursor'[t] = 0 \/ Before(cursor'[t], p)
    BY DEF NothingSkipped, Before
  <2>1. CASE t # s
    <3>1. pc'[t] = pc[t] /\ known'[t] = known[t] /\ seen'[t] = seen[t] /\ cursor'[t] = cursor[t]
      BY <1>4, <2>1 DEF TabTypeOK
    <3> QED BY <3>1 DEF ListingInv, NothingSkipped
  <2>2. CASE t = s
    <3>1. /\ pc'[s] = l /\ known'[s] = known[s] \cap of
          /\ seen'[s] = seen[s] \cup Items(c, of) /\ cursor'[s] = n
      BY <1>4 DEF TabTypeOK
    <3>2. HasMore(c, of)
      BY <1>8, <2>2, <3>1 DEF Browsing
    <3> QED BY <1>6, <2>2, <3>1, <3>2
  <2> QED BY <2>1, <2>2
<1>11. ListingComplete'
  <2> SUFFICES ASSUME NEW t \in Shoppers, pc'[t] = "shop"
               PROVE  known'[t] \subseteq seen'[t]
    BY DEF ListingComplete
  <2>1. CASE t # s
    <3>1. pc'[t] = pc[t] /\ known'[t] = known[t] /\ seen'[t] = seen[t]
      BY <1>4, <2>1 DEF TabTypeOK
    <3> QED BY <3>1 DEF ListingInv, ListingComplete
  <2>2. CASE t = s
    <3>1. pc'[s] = l /\ known'[s] = known[s] \cap of /\ seen'[s] = seen[s] \cup Items(c, of)
      BY <1>4 DEF TabTypeOK
    <3> QED BY <1>7, <1>8, <2>2, <3>1
  <2> QED BY <2>1, <2>2
<1> QED BY <1>4, <1>8, <1>9, <1>10, <1>11 DEF ListingInv

\* A step of a tab within the page it asks for.
LEMMA SamePageKeepsListing ==
    ASSUME TabTypeOK, ListingInv,
           NEW s \in Shoppers, NEW l,
           \/ l \in Browsing /\ pc[s] \in Browsing
           \/ l \in Buying \cup {"done", "gone"},
           Goto(s, l), UNCHANGED <<cursor, seen, known>>
    PROVE  ListingInv'
<1>1. ASSUME NEW t \in Shoppers
      PROVE  /\ pc'[t] \in Browsing => pc[t] \in Browsing
             /\ pc'[t] = "shop" => pc[t] = "shop"
  BY DEF Goto, TabTypeOK, Browsing, Buying
<1>2. NothingSkipped'
  BY <1>1 DEF ListingInv, NothingSkipped, Before
<1>3. ListingComplete'
  BY <1>1 DEF ListingInv, ListingComplete
<1> QED BY <1>2, <1>3 DEF ListingInv

\* A tab that leaves the listing.
LEMMA LeaveKeepsListing ==
    ASSUME TabTypeOK, ListingInv,
           NEW s \in Shoppers, NEW l \in Buying \cup {"gone"}, Leave(s, l)
    PROVE  TabTypeOK' /\ ListingInv'
<1>1. /\ pc' = [pc EXCEPT ![s] = l]
      /\ cursor' = [cursor EXCEPT ![s] = 0]
      /\ held' = [held EXCEPT ![s] = {}]
      /\ mine' = [mine EXCEPT ![s] = FALSE]
      /\ seen' = [seen EXCEPT ![s] = {}]
      /\ known' = [known EXCEPT ![s] = {}]
  BY DEF Leave, Goto
<1>2. TabTypeOK'
  <2>1. mine' \in [Shoppers -> BOOLEAN]
    BY <1>1 DEF TabTypeOK
  <2> QED BY <1>1, <2>1 DEF TabTypeOK, Cursors, Buying
<1>3. ASSUME NEW t \in Shoppers
      PROVE  \/ t = s /\ pc'[t] \notin Browsing \cup {"shop"}
             \/ /\ pc'[t] = pc[t] /\ known'[t] = known[t]
                /\ seen'[t] = seen[t] /\ cursor'[t] = cursor[t]
  BY <1>1 DEF TabTypeOK, Browsing, Buying
<1>4. NothingSkipped'
  BY <1>3 DEF ListingInv, NothingSkipped, Before
<1>5. ListingComplete'
  BY <1>3 DEF ListingInv, ListingComplete
<1> QED BY <1>2, <1>4, <1>5 DEF ListingInv

\* A step that leaves the carts alone.
LEMMA BrowsingKeepsCart ==
    ASSUME TabTypeOK, CartTypeOK, CartInv, NEW s \in Shoppers, NEW l, l \notin Buying,
           pc' = [pc EXCEPT ![s] = l] \/ pc' = pc, UNCHANGED cartVars
    PROVE  CartTypeOK' /\ CartInv'
<1>1. CartTypeOK'
  BY DEF cartVars, CartTypeOK
<1>2. ASSUME NEW t \in Shoppers, pc'[t] \in Buying
      PROVE  pc'[t] = pc[t]
  BY <1>2 DEF TabTypeOK
<1>3. WantedKnown'
  BY <1>2 DEF cartVars, CartInv, WantedKnown, Buying
<1>4. UpdaterHolds'
  <2>1. ASSUME NEW t \in Shoppers, pc'[t] = "update"
        PROVE  pc[t] = "update"
    BY <1>2, <2>1 DEF Buying
  <2> QED BY <2>1 DEF cartVars, CartInv, UpdaterHolds, Key
<1>5. AdditionsCounted'
  BY DEF cartVars, CartInv, AdditionsCounted
<1> QED BY <1>1, <1>3, <1>4, <1>5 DEF CartInv
-----------------------------------------------------------------------------
(* The steps of the listing.                                               *)

\* release_lock leaves the locks well formed, whichever way it goes.
LEMMA UnlockedType ==
    ASSUME RedisTypeOK, TabTypeOK, NEW s \in Shoppers, NEW k \in Unlocked(s)
    PROVE  k \in [Cursors -> Shoppers \cup {NoOne}]
BY DEF RedisTypeOK, TabTypeOK, Unlocked

\* A page is answered from the database or from the cache.
LEMMA AnswerStep ==
    ASSUME StoreInv, NEW s \in Shoppers, Uncached(s) \/ CacheHit(s)
    PROVE  StoreInv'
<1>1. TabTypeOK /\ CartTypeOK /\ RedisTypeOK /\ ListingInv /\ CartInv
  BY StoreInvParts
<1>2. pc[s] \in Browsing /\ UNCHANGED <<listed, redis, cartVars>>
  BY DEF Uncached, CacheHit, Browsing
<1>3. PICK of \in SUBSET Products : Show(s, of)
  <2>1. listed \in SUBSET Products /\ cache[cursor[s]].of \in SUBSET Products
    BY <1>1 DEF RedisTypeOK, TabTypeOK
  <2> QED BY <2>1 DEF Uncached, CacheHit
<1>4. TabTypeOK' /\ ListingInv' /\ \E l \in {"get", "shop"} : pc' = [pc EXCEPT ![s] = l]
  BY <1>1, <1>2, <1>3, ShowKeepsListing
<1>5. CartTypeOK' /\ CartInv'
  BY <1>1, <1>2, <1>4, BrowsingKeepsCart DEF Buying
<1>6. RedisTypeOK'
  BY <1>1, <1>2 DEF RedisTypeOK, redis
<1> QED BY <1>4, <1>5, <1>6, StoreInvParts

\* A page is missed, awaited or loaded: the steps that stay with the page.
LEMMA PageStep ==
    ASSUME StoreInv, NEW s \in Shoppers,
           CacheMiss(s) \/ TryLock(s) \/ Recheck(s) \/ PollTimeout(s) \/ Load(s)
    PROVE  StoreInv'
<1>1. TabTypeOK /\ CartTypeOK /\ RedisTypeOK /\ ListingInv /\ CartInv
  BY StoreInvParts
<1>2. PICK l \in {"lock", "recheck", "poll", "release", "load", "store"} :
          pc[s] \in Browsing /\ Goto(s, l) /\ UNCHANGED <<listed, cartVars, cursor, seen, known>>
  <2>1. CASE CacheMiss(s)
    BY <2>1 DEF CacheMiss, Browsing
  <2>2. CASE TryLock(s)
    BY <2>2 DEF TryLock, Browsing
  <2>3. CASE Recheck(s)
    BY <2>3 DEF Recheck, Browsing
  <2>4. CASE PollTimeout(s)
    BY <2>4 DEF PollTimeout, Browsing
  <2>5. CASE Load(s)
    BY <2>5 DEF Load, Browsing
  <2> QED BY <2>1, <2>2, <2>3, <2>4, <2>5
<1>3. ListingInv'
  BY <1>1, <1>2, SamePageKeepsListing DEF Browsing
<1>4. CartTypeOK' /\ CartInv'
  BY <1>1, <1>2, BrowsingKeepsCart DEF Buying, Goto
<1>5. held' \in [Shoppers -> SUBSET Products]
  BY <1>1 DEF CacheMiss, TryLock, Recheck, PollTimeout, Load, TabTypeOK, RedisTypeOK
<1>6. mine' \in [Shoppers -> BOOLEAN]
  <2>1. CASE TryLock(s)
    <3>1. (lock[cursor[s]] = NoOne) \in BOOLEAN
      OBVIOUS
    <3>2. mine' = [mine EXCEPT ![s] = (lock[cursor[s]] = NoOne)]
      BY <2>1 DEF TryLock
    <3> QED BY <1>1, <3>1, <3>2, Zenon DEF TabTypeOK
  <2>2. CASE UNCHANGED mine
    BY <1>1, <2>2 DEF TabTypeOK
  <2> QED BY <2>1, <2>2 DEF CacheMiss, Recheck, PollTimeout, Load
<1>7. TabTypeOK'
  <2>1. pc' \in [Shoppers -> Browsing \cup {"shop", "cart", "item", "insert", "update", "done", "gone"}]
    BY <1>1, <1>2 DEF Goto, TabTypeOK, Browsing
  <2> QED BY <1>1, <1>2, <1>5, <1>6, <2>1 DEF TabTypeOK
<1>8. RedisTypeOK'
  BY <1>1 DEF CacheMiss, TryLock, Recheck, PollTimeout, Load, TabTypeOK, RedisTypeOK, redis
<1> QED BY <1>3, <1>4, <1>7, <1>8, StoreInvParts

\* The loaded page goes to the cache, and the answer or the release follows.
LEMMA StoreStep ==
    ASSUME StoreInv, NEW s \in Shoppers, Store(s)
    PROVE  StoreInv'
<1>1. TabTypeOK /\ CartTypeOK /\ RedisTypeOK /\ ListingInv /\ CartInv
  BY StoreInvParts
<1>2. pc[s] \in Browsing /\ UNCHANGED <<listed, lock, cartVars>>
  BY DEF Store, Browsing
<1>3. held[s] \in SUBSET Products
  BY <1>1 DEF TabTypeOK
<1>4. RedisTypeOK'
  <2>1. Page(held[s]) \in [hit : BOOLEAN, of : SUBSET Products]
    BY <1>3 DEF Page
  <2>2. cache' = [cache EXCEPT ![cursor[s]] = Page(held[s])] \/ UNCHANGED cache
    BY DEF Store
  <2>3. cache' \in [Cursors -> [hit : BOOLEAN, of : SUBSET Products]]
    BY <1>1, <2>1, <2>2 DEF RedisTypeOK
  <2> QED BY <1>1, <1>2, <2>3 DEF RedisTypeOK
<1>5. CASE mine[s]
  <2>1. Goto(s, "release") /\ UNCHANGED <<cursor, held, mine, seen, known>>
    BY <1>5 DEF Store
  <2>2. ListingInv'
    BY <1>1, <1>2, <2>1, SamePageKeepsListing DEF Browsing
  <2>3. CartTypeOK' /\ CartInv'
    BY <1>1, <1>2, <2>1, BrowsingKeepsCart DEF Buying, Goto
  <2>4. TabTypeOK'
    BY <1>1, <2>1 DEF Goto, TabTypeOK, Browsing
  <2> QED BY <1>4, <2>2, <2>3, <2>4, StoreInvParts
<1>6. CASE ~mine[s]
  <2>1. Show(s, held[s])
    BY <1>6 DEF Store
  <2>2. TabTypeOK' /\ ListingInv' /\ \E l \in {"get", "shop"} : pc' = [pc EXCEPT ![s] = l]
    BY <1>1, <1>2, <1>3, <2>1, ShowKeepsListing
  <2>3. CartTypeOK' /\ CartInv'
    BY <1>1, <1>2, <2>2, BrowsingKeepsCart DEF Buying
  <2> QED BY <1>4, <2>2, <2>3, StoreInvParts
<1> QED BY <1>5, <1>6

\* The lock is released, and the page answered.
LEMMA ReleaseStep ==
    ASSUME StoreInv, NEW s \in Shoppers, Release(s)
    PROVE  StoreInv'
<1>1. TabTypeOK /\ CartTypeOK /\ RedisTypeOK /\ ListingInv /\ CartInv
  BY StoreInvParts
<1>2. /\ pc[s] \in Browsing /\ Show(s, held[s]) /\ lock' \in Unlocked(s)
      /\ UNCHANGED <<listed, cache, cartVars>>
  BY DEF Release, Browsing
<1>3. held[s] \in SUBSET Products
  BY <1>1 DEF TabTypeOK
<1>4. TabTypeOK' /\ ListingInv' /\ \E l \in {"get", "shop"} : pc' = [pc EXCEPT ![s] = l]
  BY <1>1, <1>2, <1>3, ShowKeepsListing
<1>5. CartTypeOK' /\ CartInv'
  BY <1>1, <1>2, <1>4, BrowsingKeepsCart DEF Buying
<1>6. RedisTypeOK'
  BY <1>1, <1>2, UnlockedType DEF RedisTypeOK
<1> QED BY <1>4, <1>5, <1>6, StoreInvParts

\* The tab gives up: the loader fails, the cursor is too old, the request dies.
LEMMA GoneStep ==
    ASSUME StoreInv, NEW s \in Shoppers, LoadFails(s) \/ CursorExpired(s) \/ Crash(s)
    PROVE  StoreInv'
<1>1. TabTypeOK /\ CartTypeOK /\ RedisTypeOK /\ ListingInv /\ CartInv
  BY StoreInvParts
<1>2. Leave(s, "gone") /\ UNCHANGED <<listed, cache, cartVars>>
  BY DEF LoadFails, CursorExpired, Crash, redis
<1>3. TabTypeOK' /\ ListingInv'
  BY <1>1, <1>2, LeaveKeepsListing
<1>4. CartTypeOK' /\ CartInv'
  BY <1>1, <1>2, BrowsingKeepsCart DEF Buying, Leave, Goto
<1>5. RedisTypeOK'
  <2>1. lock' \in Unlocked(s) \/ lock' = lock
    BY DEF LoadFails, CursorExpired, Crash, redis
  <2> QED BY <1>1, <1>2, <2>1, UnlockedType DEF RedisTypeOK
<1> QED BY <1>3, <1>4, <1>5, StoreInvParts

\* A product is added, or a page or a lock expires.
LEMMA BackgroundStep ==
    ASSUME StoreInv,
           \/ \E p \in Products : CreateProduct(p)
           \/ \E c \in Cursors : ExpirePage(c) \/ ExpireLock(c)
    PROVE  StoreInv'
<1>1. TabTypeOK /\ CartTypeOK /\ RedisTypeOK /\ ListingInv /\ CartInv
  BY StoreInvParts
<1>2. UNCHANGED <<cartVars, tab>>
  BY DEF CreateProduct, ExpirePage, ExpireLock
<1>3. TabTypeOK' /\ CartTypeOK' /\ ListingInv' /\ CartInv'
  BY <1>1, <1>2 DEF cartVars, tab, TabTypeOK, CartTypeOK, ListingInv, NothingSkipped, Before,
     ListingComplete, CartInv, WantedKnown, UpdaterHolds, Key, AdditionsCounted, Cap
<1>4. RedisTypeOK'
  <2>1. Empty \in [hit : BOOLEAN, of : SUBSET Products]
    BY DEF Empty
  <2>2. CASE \E p \in Products : CreateProduct(p)
    BY <1>1, <2>2 DEF CreateProduct, RedisTypeOK, redis
  <2>3. CASE \E c \in Cursors : ExpirePage(c) \/ ExpireLock(c)
    BY <1>1, <2>1, <2>3 DEF ExpirePage, ExpireLock, RedisTypeOK
  <2> QED BY <2>2, <2>3
<1> QED BY <1>3, <1>4, StoreInvParts
-----------------------------------------------------------------------------
(* The steps of add_to_cart.                                               *)

\* The row a tab is about to write is a row of its user.
LEMMA KeyType ==
    ASSUME NEW s \in Shoppers, want[s] \in Wanted
    PROVE  Key(s) \in Users \X Wanted
BY DEF Key, Users

\* A step of add_to_cart stays out of the listing.
LEMMA BuyingKeepsListing ==
    ASSUME TabTypeOK, RedisTypeOK, ListingInv,
           NEW s \in Shoppers, NEW l \in Buying \cup {"done", "gone"}, Goto(s, l),
           UNCHANGED <<listed, redis, cursor, held, mine, seen, known>>
    PROVE  TabTypeOK' /\ RedisTypeOK' /\ ListingInv'
<1>1. ListingInv'
  BY SamePageKeepsListing
<1>2. TabTypeOK'
  BY DEF Goto, TabTypeOK, Buying
<1>3. RedisTypeOK'
  BY DEF RedisTypeOK, redis
<1> QED BY <1>1, <1>2, <1>3

\* A product that was shown is chosen, and the cart looked up.
LEMMA AddToCartStep ==
    ASSUME StoreInv, NEW s \in Shoppers, NEW p \in Wanted, AddToCart(s, p)
    PROVE  StoreInv'
<1>1. TabTypeOK /\ CartTypeOK /\ RedisTypeOK /\ ListingInv /\ CartInv
  BY StoreInvParts
<1>2. PICK l \in {"item", "cart"} : Leave(s, l)
  BY DEF AddToCart
<1>3. /\ want' = [want EXCEPT ![s] = p]
      /\ \E none \in BOOLEAN : soldOut' = [soldOut EXCEPT ![s] = none]
      /\ UNCHANGED <<listed, redis, carts, qty, rowLock, read, added, due>>
  BY DEF AddToCart
<1>4. TabTypeOK' /\ ListingInv'
  BY <1>1, <1>2, LeaveKeepsListing DEF Buying
<1>5. CartTypeOK' /\ RedisTypeOK'
  BY <1>1, <1>3 DEF CartTypeOK, RedisTypeOK, redis
<1>6. ASSUME NEW t \in Shoppers
      PROVE  IF t = s THEN pc'[t] = l /\ want'[t] = p ELSE pc'[t] = pc[t] /\ want'[t] = want[t]
  BY <1>1, <1>2, <1>3 DEF Leave, Goto, TabTypeOK, CartTypeOK
<1>7. WantedKnown'
  BY <1>1, <1>6 DEF CartInv, WantedKnown
<1>8. UpdaterHolds'
  BY <1>1, <1>3, <1>6 DEF CartInv, UpdaterHolds, Key
<1>9. AdditionsCounted'
  BY <1>1, <1>3 DEF CartInv, AdditionsCounted, Cap
<1> QED BY <1>4, <1>5, <1>7, <1>8, <1>9, StoreInvParts DEF CartInv

\* The cart is created.
LEMMA CreateCartStep ==
    ASSUME StoreInv, NEW s \in Shoppers, CreateCart(s)
    PROVE  StoreInv'
<1>1. TabTypeOK /\ CartTypeOK /\ RedisTypeOK /\ ListingInv /\ CartInv
  BY StoreInvParts
<1>2. /\ pc[s] = "cart" /\ Goto(s, "item") /\ carts' = carts \cup {UserOf[s]}
      /\ UNCHANGED <<listed, redis, qty, rowLock, want, read, soldOut, added, due,
                     cursor, held, mine, seen, known>>
  BY DEF CreateCart
<1>3. TabTypeOK' /\ RedisTypeOK' /\ ListingInv'
  BY <1>1, <1>2, BuyingKeepsListing DEF Buying
<1>4. CartTypeOK'
  BY <1>1, <1>2 DEF CartTypeOK, Users
<1>5. ASSUME NEW t \in Shoppers
      PROVE  IF t = s THEN pc'[t] = "item" ELSE pc'[t] = pc[t]
  BY <1>1, <1>2 DEF Goto, TabTypeOK
<1>6. WantedKnown'
  BY <1>1, <1>2, <1>5 DEF CartInv, WantedKnown
<1>7. UpdaterHolds'
  BY <1>1, <1>2, <1>5 DEF CartInv, UpdaterHolds, Key
<1>8. AdditionsCounted'
  BY <1>1, <1>2 DEF CartInv, AdditionsCounted, Cap
<1> QED BY <1>3, <1>4, <1>6, <1>7, <1>8, StoreInvParts DEF CartInv

\* The row is read, and locked when there is one.
LEMMA SelectItemStep ==
    ASSUME StoreInv, NEW s \in Shoppers, SelectItem(s)
    PROVE  StoreInv'
<1> DEFINE k == Key(s)
           l == IF qty[k] = 0 THEN "insert" ELSE "update"
<1>1. TabTypeOK /\ CartTypeOK /\ RedisTypeOK /\ ListingInv /\ CartInv
  BY StoreInvParts
<1>2. /\ pc[s] = "item" /\ rowLock[k] = NoOne /\ Goto(s, l)
      /\ read' = [read EXCEPT ![s] = qty[k]]
      /\ rowLock' = IF qty[k] = 0 THEN rowLock ELSE [rowLock EXCEPT ![k] = s]
      /\ soldOut' = IF qty[k] = 0 THEN [soldOut EXCEPT ![s] = FALSE] ELSE soldOut
      /\ UNCHANGED <<listed, redis, carts, qty, want, added, due, cursor, held, mine, seen, known>>
  BY DEF SelectItem
<1>3. want[s] \in Wanted
  BY <1>1, <1>2 DEF CartInv, WantedKnown
<1>4. k \in Users \X Wanted
  BY <1>3, KeyType
<1>5. l \in {"insert", "update"} /\ (l = "update" => qty[k] # 0)
  OBVIOUS
<1>6. \A t \in Shoppers : Key(t)' = Key(t)
  BY <1>2 DEF Key
<1> HIDE DEF k, l
<1>7. TabTypeOK' /\ RedisTypeOK' /\ ListingInv'
  BY <1>1, <1>2, <1>5, BuyingKeepsListing DEF Buying
<1>8. CartTypeOK'
  BY <1>1, <1>2, <1>4 DEF CartTypeOK
<1>9. ASSUME NEW t \in Shoppers
      PROVE  IF t = s THEN pc'[t] = l ELSE pc'[t] = pc[t]
  BY <1>1, <1>2 DEF Goto, TabTypeOK
<1>10. WantedKnown'
  BY <1>1, <1>2, <1>3, <1>9 DEF CartInv, WantedKnown
<1>11. UpdaterHolds'
  <2> SUFFICES ASSUME NEW t \in Shoppers, pc'[t] = "update"
               PROVE  rowLock'[Key(t)] = t /\ read'[t] = qty[Key(t)] /\ qty[Key(t)] # 0
    BY <1>2, <1>6 DEF UpdaterHolds
  <2>1. CASE t = s
    BY <1>1, <1>2, <1>4, <1>5, <1>9, <2>1 DEF CartTypeOK, k
  <2>2. CASE t # s
    <3>1. rowLock[Key(t)] = t /\ read[t] = qty[Key(t)] /\ qty[Key(t)] # 0
      BY <1>1, <1>9, <2>2 DEF CartInv, UpdaterHolds
    <3>2. Key(t) # k
      BY <1>2, <3>1, StorefrontAssumption
    <3> QED BY <1>1, <1>2, <2>2, <3>1, <3>2 DEF CartTypeOK
  <2> QED BY <2>1, <2>2
<1>12. AdditionsCounted'
  BY <1>1, <1>2 DEF CartInv, AdditionsCounted, Cap
<1> QED BY <1>7, <1>8, <1>10, <1>11, <1>12, StoreInvParts DEF CartInv

\* A transaction that commits or fails gives up the tab's own row lock only:
\* every other tab that is about to UPDATE still holds its row.
LEMMA OthersStillHold ==
    ASSUME CartTypeOK, TabTypeOK, CartInv, NEW s \in Shoppers, NEW l \in {"done", "gone"},
           want[s] \in Wanted, Goto(s, l),
           rowLock' = [rowLock EXCEPT ![Key(s)] = IF @ = s THEN NoOne ELSE @],
           want' = [want EXCEPT ![s] = 0], read' = [read EXCEPT ![s] = 0],
           \A t \in Shoppers : t # s /\ pc[t] = "update" => qty'[Key(t)] = qty[Key(t)]
    PROVE  WantedKnown' /\ UpdaterHolds'
<1>1. Key(s) \in Users \X Wanted
  BY KeyType
<1>2. ASSUME NEW t \in Shoppers
      PROVE  IF t = s THEN pc'[t] = l
             ELSE pc'[t] = pc[t] /\ want'[t] = want[t] /\ read'[t] = read[t]
  BY DEF Goto, TabTypeOK, CartTypeOK
<1>3. WantedKnown'
  BY <1>2 DEF CartInv, WantedKnown
<1>4. UpdaterHolds'
  <2> SUFFICES ASSUME NEW t \in Shoppers, pc'[t] = "update"
               PROVE  /\ rowLock'[Key(t)'] = t /\ read'[t] = qty'[Key(t)']
                      /\ qty'[Key(t)'] # 0
    BY DEF UpdaterHolds
  <2>1. t # s /\ pc[t] = "update"
    BY <1>2
  <2>2. Key(t)' = Key(t) /\ read'[t] = read[t]
    BY <1>2, <2>1 DEF Key
  <2>3. rowLock[Key(t)] = t /\ read[t] = qty[Key(t)] /\ qty[Key(t)] # 0
    BY <2>1 DEF CartInv, UpdaterHolds
  <2>4. rowLock'[Key(t)] = t
    <3>1. want[t] \in Wanted
      BY <2>1 DEF CartInv, WantedKnown
    <3>2. Key(t) \in Users \X Wanted
      BY <3>1, KeyType
    <3> HIDE DEF Key
    <3> QED BY <1>1, <2>1, <2>3, <3>2 DEF CartTypeOK
  <2> QED BY <2>1, <2>2, <2>3, <2>4
<1> QED BY <1>3, <1>4

\* The quantity is written and the addition answered.
LEMMA CommitItemStep ==
    ASSUME StoreInv, NEW s \in Shoppers, UpdateItem(s) \/ InsertItem(s)
    PROVE  StoreInv'
<1> DEFINE k == Key(s)
<1>1. TabTypeOK /\ CartTypeOK /\ RedisTypeOK /\ ListingInv /\ CartInv
  BY StoreInvParts
<1>2. pc[s] \in {"insert", "update"}
  BY DEF UpdateItem, InsertItem
<1>3. want[s] \in Wanted
  BY <1>1, <1>2 DEF CartInv, WantedKnown
<1>4. k \in Users \X Wanted
  BY <1>3, KeyType
<1>5. /\ qty[k] \in 0 .. MaxItemQty /\ MaxItemQty \in Nat \ {0}
      /\ added[k] \in Nat /\ due[k] \in Nat
  BY <1>1, <1>4, StorefrontAssumption DEF CartTypeOK
<1>6. Cap(due[k]) <= qty[k] /\ qty[k] <= Cap(added[k])
  BY <1>1, <1>4 DEF CartInv, AdditionsCounted, Cap
<1>7. PICK n : /\ CommitItem(s, n)
               /\ n = Cap(qty[k] + 1)
               /\ rowLock[k] = s \/ qty[k] = 0
  <2>1. CASE UpdateItem(s)
    <3>1. pc[s] = "update" /\ CommitItem(s, Cap(read[s] + 1))
      BY <2>1 DEF UpdateItem
    <3>2. rowLock[k] = s /\ read[s] = qty[k]
      BY <1>1, <3>1 DEF CartInv, UpdaterHolds
    <3> HIDE DEF k
    <3> QED BY <3>1, <3>2
  <2>2. CASE InsertItem(s)
    <3>1. CommitItem(s, 1) /\ qty[k] = 0
      BY <2>2 DEF InsertItem
    <3> HIDE DEF k
    <3> QED BY <1>5, <3>1 DEF Cap
  <2> QED BY <2>1, <2>2
<1>8. /\ qty' = [qty EXCEPT ![k] = n]
      /\ added' = [added EXCEPT ![k] = added[k] + 1]
      /\ rowLock' = [rowLock EXCEPT ![k] = IF rowLock[k] = s THEN NoOne ELSE rowLock[k]]
      /\ \E d \in {due[k], due[k] + 1} : due' = [due EXCEPT ![k] = d]
      /\ want' = [want EXCEPT ![s] = 0] /\ read' = [read EXCEPT ![s] = 0]
      /\ soldOut' = [soldOut EXCEPT ![s] = FALSE]
      /\ Goto(s, "done")
      /\ UNCHANGED <<listed, redis, carts, cursor, held, mine, seen, known>>
  BY <1>7 DEF CommitItem
<1>9. n \in 0 .. MaxItemQty
  BY <1>5, <1>7 DEF Cap
<1>10. TabTypeOK' /\ RedisTypeOK' /\ ListingInv'
  BY <1>1, <1>8, BuyingKeepsListing DEF Buying
<1>11. WantedKnown' /\ UpdaterHolds'
  <2>1. ASSUME NEW t \in Shoppers, t # s, pc[t] = "update"
        PROVE  qty'[Key(t)] = qty[Key(t)]
    <3>1. rowLock[Key(t)] = t /\ qty[Key(t)] # 0
      BY <1>1, <2>1 DEF CartInv, UpdaterHolds
    <3>2. Key(t) # k
      BY <1>7, <2>1, <3>1
    <3> HIDE DEF k
    <3> QED BY <1>1, <1>8, <3>2 DEF CartTypeOK
  <2> QED BY <1>1, <1>3, <1>8, <2>1, OthersStillHold
<1> HIDE DEF k
<1>12. CartTypeOK'
  BY <1>1, <1>4, <1>5, <1>8, <1>9 DEF CartTypeOK
<1>13. AdditionsCounted'
  <2> SUFFICES ASSUME NEW j \in Users \X Wanted
               PROVE  Cap(due'[j]) <= qty'[j] /\ qty'[j] <= Cap(added'[j])
    BY DEF AdditionsCounted, Cap
  <2>1. CASE j = k
    <3>1. qty'[k] = n /\ added'[k] = added[k] + 1 /\ due'[k] \in {due[k], due[k] + 1}
      BY <1>1, <1>4, <1>8 DEF CartTypeOK
    <3> QED BY <1>5, <1>6, <1>7, <2>1, <3>1 DEF Cap
  <2>2. CASE j # k
    <3>1. qty'[j] = qty[j] /\ added'[j] = added[j] /\ due'[j] = due[j]
      BY <1>1, <1>8, <2>2 DEF CartTypeOK
    <3> QED BY <1>1, <3>1 DEF CartInv, AdditionsCounted, Cap
  <2> QED BY <2>1, <2>2
<1> QED BY <1>10, <1>11, <1>12, <1>13, StoreInvParts DEF CartInv

\* The addition fails; the cart stays as it was.
LEMMA CartFailsStep ==
    ASSUME StoreInv, NEW s \in Shoppers, CartFails(s)
    PROVE  StoreInv'
<1>1. TabTypeOK /\ CartTypeOK /\ RedisTypeOK /\ ListingInv /\ CartInv
  BY StoreInvParts
<1>2. /\ pc[s] \in Buying /\ Goto(s, "gone")
      /\ rowLock' = [rowLock EXCEPT ![Key(s)] = IF @ = s THEN NoOne ELSE @]
      /\ want' = [want EXCEPT ![s] = 0] /\ read' = [read EXCEPT ![s] = 0]
      /\ soldOut' = [soldOut EXCEPT ![s] = FALSE]
      /\ UNCHANGED <<listed, redis, carts, qty, added, due, cursor, held, mine, seen, known>>
  BY DEF CartFails, Buying
<1>3. want[s] \in Wanted
  BY <1>1, <1>2 DEF CartInv, WantedKnown, Buying
<1>4. TabTypeOK' /\ RedisTypeOK' /\ ListingInv'
  BY <1>1, <1>2, BuyingKeepsListing
<1>5. CartTypeOK'
  <2>1. MaxItemQty \in Nat
    BY StorefrontAssumption
  <2>2. Key(s) \in Users \X Wanted
    BY <1>3, KeyType
  <2>3. rowLock' \in [Users \X Wanted -> Shoppers \cup {NoOne}]
    BY <1>1, <1>2, <2>2 DEF CartTypeOK
  <2>4. want' \in [Shoppers -> Wanted \cup {0}] /\ read' \in [Shoppers -> 0 .. MaxItemQty]
    BY <1>1, <1>2, <2>1 DEF CartTypeOK
  <2> QED BY <1>1, <1>2, <2>3, <2>4 DEF CartTypeOK
<1>6. WantedKnown' /\ UpdaterHolds'
  BY <1>1, <1>2, <1>3, OthersStillHold
<1>7. AdditionsCounted'
  BY <1>1, <1>2 DEF CartInv, AdditionsCounted, Cap
<1> QED BY <1>4, <1>5, <1>6, <1>7, StoreInvParts DEF CartInv

-----------------------------------------------------------------------------
(* The theorems.                                                           *)

\* The invariant holds in the states the shop opens with.
LEMMA StoreInit == Init => StoreInv
<1> SUFFICES ASSUME Init
             PROVE  StoreInv
  OBVIOUS
<1>1. TabTypeOK
  <2>1. mine \in [Shoppers -> BOOLEAN]
    BY DEF Init
  <2> QED BY <2>1 DEF Init, TabTypeOK, Browsing, Cursors
<1>2. CartTypeOK
  <2>1. MaxItemQty \in Nat
    BY StorefrontAssumption
  <2>2. qty \in [Users \X Wanted -> 0 .. MaxItemQty]
    <3>1. ASSUME NEW k \in Users \X Wanted
          PROVE  (IF carts = {} THEN 0 ELSE Kept[k[2]]) \in 0 .. MaxItemQty
      <4>1. k[2] \in Wanted
        OBVIOUS
      <4>2. Kept[k[2]] \in 0 .. MaxItemQty
        BY <4>1, StorefrontAssumption
      <4> QED BY <2>1, <4>2
    <3> QED BY <3>1 DEF Init
  <2>3. added \in [Users \X Wanted -> Nat] /\ due \in [Users \X Wanted -> Nat]
    BY <2>1, <2>2 DEF Init
  <2>4. soldOut \in [Shoppers -> BOOLEAN]
    BY DEF Init
  <2> QED BY <2>1, <2>2, <2>3, <2>4 DEF Init, CartTypeOK
<1>3. RedisTypeOK
  <2>1. Empty \in [hit : BOOLEAN, of : SUBSET Products]
    BY DEF Empty
  <2> QED BY <2>1, StorefrontAssumption DEF Init, RedisTypeOK
<1>4. ListingInv
  BY DEF Init, ListingInv, NothingSkipped, ListingComplete
<1>5. CartInv
  <2>1. WantedKnown /\ UpdaterHolds
    BY DEF Init, WantedKnown, UpdaterHolds
  <2>2. AdditionsCounted
    BY <1>2, StorefrontAssumption DEF Init, AdditionsCounted, Cap, CartTypeOK
  <2> QED BY <2>1, <2>2 DEF CartInv
<1> QED BY <1>1, <1>2, <1>3, <1>4, <1>5 DEF StoreInv, TypeOK, TabTypeOK, CartTypeOK,
           RedisTypeOK, ListingInv, CartInv

\* Every step keeps the invariant.
LEMMA StoreNext == StoreInv /\ [Next]_vars => StoreInv'
<1> SUFFICES ASSUME StoreInv, [Next]_vars
             PROVE  StoreInv'
  OBVIOUS
<1>1. CASE \/ \E p \in Products : CreateProduct(p)
           \/ \E c \in Cursors : ExpirePage(c) \/ ExpireLock(c)
  BY <1>1, BackgroundStep
<1>2. ASSUME NEW s \in Shoppers, Browse(s)
      PROVE  StoreInv'
  BY <1>2, AnswerStep, PageStep, StoreStep, ReleaseStep, GoneStep DEF Browse
<1>3. ASSUME NEW s \in Shoppers, Uncached(s) \/ CursorExpired(s) \/ Crash(s)
      PROVE  StoreInv'
  BY <1>3, AnswerStep, GoneStep
<1>4. ASSUME NEW s \in Shoppers, Buy(s)
      PROVE  StoreInv'
  BY <1>4, AddToCartStep, CreateCartStep, SelectItemStep, CommitItemStep, CartFailsStep DEF Buy
<1>5. CASE UNCHANGED vars
  <2>1. UNCHANGED <<listed, redis, cartVars, tab>>
    BY <1>5 DEF vars
  <2>2. TypeOK'
    BY <2>1 DEF redis, cartVars, tab, StoreInv, TypeOK
  <2>3. NothingSkipped' /\ ListingComplete'
    BY <2>1 DEF tab, StoreInv, NothingSkipped, Before, ListingComplete
  <2>4. WantedKnown' /\ UpdaterHolds' /\ AdditionsCounted'
    BY <2>1 DEF cartVars, tab, StoreInv, WantedKnown, UpdaterHolds, Key, AdditionsCounted, Cap
  <2> QED BY <2>2, <2>3, <2>4 DEF StoreInv
<1> QED BY <1>1, <1>2, <1>3, <1>4, <1>5 DEF Next

\* The invariant holds throughout.
THEOREM StoreInvariant == Spec => []StoreInv
BY StoreInit, StoreNext, PTL DEF Spec

\* Every variable keeps its type: a cursor is a product or the first page, and
\* no quantity exceeds max_item_qty.
THEOREM StorefrontTypeCorrect == Spec => []TypeOK
<1>1. StoreInv => TypeOK
  BY DEF StoreInv
<1> QED BY <1>1, StoreInvariant, PTL

\* Whoever follows next_cursor to the end has been shown every product that
\* each of the pages could show (fetch_prods, keyset_filter and the cache).
THEOREM ListingIsComplete == Spec => []ListingComplete
<1>1. StoreInv => ListingComplete
  BY DEF StoreInv
<1> QED BY <1>1, StoreInvariant, PTL

\* A cart holds the additions that were answered with success, each once, up
\* to max_item_qty; of those to a row that found no stock, no more than each
\* once (add_item_to_cart).
THEOREM AdditionsAreCounted == Spec => []AdditionsCounted
<1>1. StoreInv => AdditionsCounted
  BY DEF StoreInv
<1> QED BY <1>1, StoreInvariant, PTL
=============================================================================
