--------------------------- MODULE CheckoutProofs ---------------------------
(***************************************************************************)
(* Reservations never oversell, for every number of users, products,       *)
(* checkouts and concurrent order-summary requests.                        *)
(***************************************************************************)
EXTENDS Checkout, FiniteSetTheorems, TLAPS

-----------------------------------------------------------------------------
(* Counting units.                                                         *)

\* Adding the units of one row of quantity n to a set of units adds at most
\* n to its size.
LEMMA AddRow ==
    ASSUME NEW S, IsFiniteSet(S), NEW c, NEW n \in Nat,
           NEW T, T \subseteq S \cup ({c} \X (1..n))
    PROVE  IsFiniteSet(T) /\ Cardinality(T) <= Cardinality(S) + n
<1>1. IsFiniteSet({c}) /\ Cardinality({c}) = 1
  BY FS_Singleton
<1>2. IsFiniteSet(1..n) /\ Cardinality(1..n) = n
  BY FS_Interval
<1>3. IsFiniteSet({c} \X (1..n)) /\ Cardinality({c} \X (1..n)) = n
  <2>1. /\ IsFiniteSet({c} \X (1..n))
        /\ Cardinality({c} \X (1..n)) = Cardinality({c}) * Cardinality(1..n)
    BY <1>1, <1>2, FS_Product, Zenon
  <2>2. 1 * n = n
    OBVIOUS
  <2>. QED  BY <1>1, <1>2, <2>1, <2>2
<1>4. /\ IsFiniteSet(S \cup ({c} \X (1..n)))
      /\ Cardinality(S \cup ({c} \X (1..n))) <= Cardinality(S) + n
  <2>. DEFINE R == {c} \X (1..n)
  <2>1. /\ IsFiniteSet(S \cup R)
        /\ Cardinality(S \cup R)
             = Cardinality(S) + Cardinality(R) - Cardinality(S \cap R)
    BY <1>3, FS_Union, Zenon
  <2>2. Cardinality(S \cap R) \in Nat /\ Cardinality(S) \in Nat
    BY FS_Intersection, FS_CardinalityType, Zenon
  <2>3. Cardinality(R) = n
    BY <1>3
  <2>. HIDE DEF R
  <2>4. Cardinality(S \cup R) <= Cardinality(S) + n
    BY <2>1, <2>2, <2>3
  <2>. QED  BY <2>1, <2>4 DEF R
<1>5. /\ IsFiniteSet(T)
      /\ Cardinality(T) <= Cardinality(S \cup ({c} \X (1..n)))
  BY <1>4, FS_Subset
<1>6. /\ Cardinality(T) \in Nat
      /\ Cardinality(S) \in Nat
      /\ Cardinality(S \cup ({c} \X (1..n))) \in Nat
  BY <1>4, <1>5, FS_CardinalityType, Zenon
<1>. QED  BY <1>4, <1>5, <1>6

\* A bounded number of checkouts with a bounded quantity each is a bounded
\* number of units, the largest items_avblty can sum up.
LEMMA UnitSpaceFinite == IsFiniteSet(Checkouts \X (1..MaxItemQty))
<1>1. IsFiniteSet(1..MaxItemQty)
  BY FS_Interval, CheckoutAssumption
<1>. QED  BY <1>1, FS_Product, CheckoutAssumption

\* The units of a product are finitely many, so that Reserved is a number,
\* before and after a step.
LEMMA UnitsFinite ==
    ASSUME NEW p \in Products
    PROVE  /\ IsFiniteSet(Units(p)) /\ Reserved(p) \in Nat
           /\ IsFiniteSet(Units(p)') /\ Reserved(p)' \in Nat
<1>1. Units(p) \in SUBSET (Checkouts \X (1..MaxItemQty))
  BY DEF Units
<1>2. Units(p)' \in SUBSET (Checkouts \X (1..MaxItemQty))
  BY DEF Units
<1>3. IsFiniteSet(Units(p)) /\ Cardinality(Units(p)) \in Nat
  BY <1>1, UnitSpaceFinite, FS_Subset, FS_CardinalityType, Zenon
<1>4. IsFiniteSet(Units(p)') /\ Cardinality(Units(p)') \in Nat
  BY <1>2, UnitSpaceFinite, FS_Subset, FS_CardinalityType, Zenon
<1>. QED  BY <1>3, <1>4 DEF Reserved

-----------------------------------------------------------------------------
(* Types.                                                                  *)

\* The values a request starts and ends with, and an empty cart or snapshot,
\* have the types TypeOK gives them.
LEMMA DefaultTypes ==
    /\ NoItems \in Quantities
    /\ NothingRead \in [Products -> Nat \cup {NotRead}]
    /\ NoContext \in Context
<1>1. (CHOOSE c \in Checkouts : TRUE) \in Checkouts
  BY CheckoutAssumption
<1>. QED
  BY <1>1, CheckoutAssumption
     DEF NoItems, Quantities, NothingRead, NoContext, Context

\* The end of a request leaves the other requests and their locks alone.
LEMMA FinishType ==
    ASSUME TypeOK, NEW r \in Requests, Finish(r)
    PROVE  /\ lock' \in [Products -> Requests \cup {NoRequest}]
           /\ pc' \in [Requests -> {"idle", "capture", "locking", "reserve", "done"}]
           /\ ctx' \in [Requests -> Context]
           /\ want' \in [Requests -> Quantities]
           /\ seen' \in [Requests -> [Products -> Nat \cup {NotRead}]]
<1>. USE DefaultTypes DEF TypeOK, Finish
<1>1. lock' \in [Products -> Requests \cup {NoRequest}]
  OBVIOUS
<1>2. pc' \in [Requests -> {"idle", "capture", "locking", "reserve", "done"}]
  OBVIOUS
<1>3. ctx' \in [Requests -> Context]
  OBVIOUS
<1>4. want' \in [Requests -> Quantities]
  OBVIOUS
<1>5. seen' \in [Requests -> [Products -> Nat \cup {NotRead}]]
  OBVIOUS
<1>. QED  BY <1>1, <1>2, <1>3, <1>4, <1>5

\* Every handler step keeps the types of the rows and of the requests.
LEMMA TypeStep ==
    ASSUME TypeOK, ActsForCheckout, [Next]_vars
    PROVE  TypeOK'
<1>. USE CheckoutAssumption DEF csVars, reqVars
<1>1. CASE Tick
  BY <1>1 DEF Tick, TypeOK
<1>2. ASSUME NEW u \in Users, NEW p \in Products, AddToCart(u, p)
      PROVE  TypeOK'
  BY <1>2 DEF AddToCart, TypeOK, Quantities
<1>3. ASSUME NEW p \in Products, NEW n \in 0..MaxStock, WriteStock(p, n)
      PROVE  TypeOK'
  BY <1>3 DEF WriteStock, TypeOK
<1>4. ASSUME NEW c \in Checkouts, CloseCheckout(c)
      PROVE  TypeOK'
  BY <1>4 DEF CloseCheckout, TypeOK
<1>5. ASSUME NEW u \in Users, NEW c \in Checkouts, InitiateCheckout(u, c)
      PROVE  TypeOK'
  BY <1>5 DEF InitiateCheckout, TypeOK
<1>6. ASSUME NEW u \in Users, NEW c \in Checkouts, InitiateExpired(u, c)
      PROVE  TypeOK'
  BY <1>6 DEF InitiateExpired, TypeOK
<1>7. ASSUME NEW r \in Requests, NEW u \in Users, NEW c \in Checkouts,
             NEW m \in Methods, BeginSummary(r, u, c, m)
      PROVE  TypeOK'
  <2>1. CASE Finish(r)
    BY <1>7, <2>1, FinishType DEF BeginSummary, TypeOK
  <2>2. CASE ~Finish(r)
    <3>1. [user |-> u, checkout |-> c, method |-> m] \in Context
      BY DEF Context
    <3>2. /\ pc' = [pc EXCEPT ![r] = "capture"]
          /\ ctx' = [ctx EXCEPT ![r] = [user |-> u, checkout |-> c,
                                        method |-> m]]
          /\ UNCHANGED <<clock, stock, cart, csVars, resv, lock, want, seen>>
      BY <1>7, <2>2 DEF BeginSummary
    <3>. QED  BY <3>1, <3>2 DEF TypeOK
  <2>. QED  BY <2>1, <2>2
<1>8. ASSUME NEW r \in Requests, CaptureCart(r)
      PROVE  TypeOK'
  <2>1. CASE Finish(r)
    BY <1>8, <2>1, FinishType DEF CaptureCart, TypeOK
  <2>2. CASE ~Finish(r)
    <3>1. cart[ctx[r].user] \in Quantities
      BY <1>8 DEF CaptureCart, ActsForCheckout, InFlight, TypeOK
    <3>. QED  BY <1>8, <2>2, <3>1 DEF CaptureCart, TypeOK
  <2>. QED  BY <2>1, <2>2
<1>9. ASSUME NEW r \in Requests, NEW p \in Products, LockProduct(r, p)
      PROVE  TypeOK'
  BY <1>9 DEF LockProduct, TypeOK
<1>10. ASSUME NEW r \in Requests, ValidateItems(r)
       PROVE  TypeOK'
  <2>1. CASE Finish(r)
    BY <1>10, <2>1, FinishType DEF ValidateItems, TypeOK
  <2>2. CASE ~Finish(r)
    BY <1>10, <2>2 DEF ValidateItems, TypeOK
  <2>. QED  BY <2>1, <2>2
<1>11. ASSUME NEW r \in Requests, Reserve(r)
       PROVE  TypeOK'
  <2>1. /\ ctx[r].checkout \in Checkouts
        /\ ctx[r].method \in Methods \cup {"none"}
    BY DEF TypeOK, Context
  <2>2. resv' \in [Checkouts -> Quantities]
    BY <1>11, <2>1 DEF Reserve, TypeOK, Quantities
  <2>3. /\ snap' \in [Checkouts -> Quantities]
        /\ method' \in [Checkouts -> Methods \cup {"none"}]
    BY <1>11, <2>1 DEF Reserve, TypeOK
  <2>. QED  BY <1>11, <2>2, <2>3, FinishType DEF Reserve, TypeOK
<1>12. ASSUME NEW r \in Requests, DeadlockVictim(r) \/ Abort(r)
       PROVE  TypeOK'
  BY <1>12, FinishType DEF DeadlockVictim, Abort, TypeOK
<1>13. CASE UNCHANGED vars
  BY <1>13 DEF vars, TypeOK
<1>. QED
  BY <1>1, <1>2, <1>3, <1>4, <1>5, <1>6, <1>7, <1>8, <1>9, <1>10, <1>11,
     <1>12, <1>13 DEF Next, Step

-----------------------------------------------------------------------------
(* Locks and what was read under them.                                     *)

LockInv == LocksMatchReads /\ SeenIsCurrent /\ ReadBeforeReserve

\* The end of a transaction frees exactly the product rows its request had
\* locked, so what other requests have read stays locked.
LEMMA FinishLocks ==
    ASSUME TypeOK, LockInv, NEW r \in Requests, Finish(r), stock' = stock
    PROVE  LockInv'
<1>. USE CheckoutAssumption DEF TypeOK, Finish, InFlight, NothingRead
<1>1. LocksMatchReads'
  BY DEF LockInv, LocksMatchReads
<1>2. SeenIsCurrent'
  BY DEF LockInv, SeenIsCurrent
<1>3. ReadBeforeReserve'
  BY DEF LockInv, ReadBeforeReserve, Wanted, NoItems
<1>. QED  BY <1>1, <1>2, <1>3 DEF LockInv

\* A request that has not locked anything has no lock to lose when it waits
\* or goes on, and a stock write only reaches a row nobody has locked.
LEMMA LockStep ==
    ASSUME TypeOK, LockInv, [Next]_vars
    PROVE  LockInv'
<1>. USE CheckoutAssumption DEF csVars, reqVars
<1>. DEFINE Same == UNCHANGED <<lock, pc, want, seen, stock>>
<1>1. CASE Same
  BY <1>1 DEF LockInv, LocksMatchReads, SeenIsCurrent, ReadBeforeReserve,
              InFlight, Wanted
<1>2. ASSUME NEW p \in Products, NEW n \in 0..MaxStock, WriteStock(p, n)
      PROVE  LockInv'
  BY <1>2 DEF WriteStock, TypeOK, LockInv, LocksMatchReads, SeenIsCurrent,
              ReadBeforeReserve, InFlight, Wanted
<1>3. ASSUME NEW r \in Requests, NEW u \in Users, NEW c \in Checkouts,
             NEW m \in Methods, BeginSummary(r, u, c, m)
      PROVE  LockInv'
  <2>1. CASE Finish(r)
    BY <1>3, <2>1, FinishLocks DEF BeginSummary
  <2>2. CASE ~Finish(r)
    \* The request reads nothing before it begins.
    <3>1. pc[r] = "idle" /\ pc' = [pc EXCEPT ![r] = "capture"]
          /\ UNCHANGED <<lock, want, seen, stock>>
      BY <1>3, <2>2 DEF BeginSummary
    <3>. QED  BY <3>1 DEF TypeOK, LockInv, LocksMatchReads, SeenIsCurrent,
                          ReadBeforeReserve, InFlight, Wanted
  <2>. QED  BY <2>1, <2>2
<1>4. ASSUME NEW r \in Requests, CaptureCart(r)
      PROVE  LockInv'
  <2>1. CASE Finish(r)
    BY <1>4, <2>1, FinishLocks DEF CaptureCart
  <2>2. CASE ~Finish(r)
    <3>1. /\ pc[r] = "capture" /\ pc' = [pc EXCEPT ![r] = "locking"]
          /\ want' = [want EXCEPT ![r] = cart[ctx[r].user]]
          /\ UNCHANGED <<lock, seen, stock>>
      BY <1>4, <2>2 DEF CaptureCart
    <3>. QED  BY <3>1 DEF TypeOK, LockInv, LocksMatchReads, SeenIsCurrent,
                          ReadBeforeReserve, Wanted
  <2>. QED  BY <2>1, <2>2
<1>5. ASSUME NEW r \in Requests, NEW p \in Products, LockProduct(r, p)
      PROVE  LockInv'
  <2>. USE <1>5 DEF LockProduct, TypeOK, LockInv, InFlight, NotRead
  <2>1. LocksMatchReads'
    BY DEF LocksMatchReads
  <2>2. SeenIsCurrent'
    BY DEF SeenIsCurrent
  <2>3. ReadBeforeReserve'
    BY DEF ReadBeforeReserve, Wanted
  <2>. QED  BY <2>1, <2>2, <2>3
<1>6. ASSUME NEW r \in Requests, ValidateItems(r)
      PROVE  LockInv'
  <2>1. CASE Finish(r)
    BY <1>6, <2>1, FinishLocks DEF ValidateItems
  <2>2. CASE ~Finish(r)
    <3>. /\ pc[r] = "locking" /\ pc' = [pc EXCEPT ![r] = "reserve"]
         /\ \A p \in Wanted(r) : seen[r][p] # NotRead
         /\ UNCHANGED <<lock, want, seen, stock>>
      BY <1>6, <2>2 DEF ValidateItems
    <3>. USE DEF TypeOK, LockInv
    <3>1. LocksMatchReads'
      BY DEF LocksMatchReads
    <3>2. SeenIsCurrent'
      BY DEF SeenIsCurrent
    <3>3. ReadBeforeReserve'
      BY DEF ReadBeforeReserve, Wanted
    <3>. QED  BY <3>1, <3>2, <3>3
  <2>. QED  BY <2>1, <2>2
<1>7. ASSUME NEW r \in Requests, Reserve(r) \/ DeadlockVictim(r) \/ Abort(r)
      PROVE  LockInv'
  BY <1>7, FinishLocks DEF Reserve, DeadlockVictim, Abort
<1>. QED
  BY <1>1, <1>2, <1>3, <1>4, <1>5, <1>6, <1>7
     DEF Next, Step, vars, Tick, AddToCart, CloseCheckout, InitiateCheckout,
         InitiateExpired

-----------------------------------------------------------------------------
(* Checkout and reservation rows.                                          *)

RowInv == ActsForCheckout /\ RowsHaveOwner /\ SnapshotBacked

\* A request that ends leaves the rows as they are.
LEMMA FinishRows ==
    ASSUME TypeOK, RowInv, NEW r \in Requests, Finish(r),
           UNCHANGED <<owner, snap, method, resv>>
    PROVE  RowInv'
<1>1. ActsForCheckout'
  BY DEF RowInv, ActsForCheckout, InFlight, TypeOK, Finish
<1>. QED  BY <1>1 DEF RowInv, RowsHaveOwner, SnapshotBacked

\* Checkout and reservation rows stay consistent: a snapshot is only written
\* together with its reservation rows, for a checkout that exists.
LEMMA RowStep ==
    ASSUME TypeOK, RowInv, [Next]_vars
    PROVE  RowInv'
<1>. USE CheckoutAssumption DEF csVars, reqVars
<1>1. CASE UNCHANGED <<pc, ctx, owner, snap, method, resv>>
  BY <1>1 DEF RowInv, ActsForCheckout, RowsHaveOwner, SnapshotBacked, InFlight
<1>2. ASSUME NEW u \in Users, NEW c \in Checkouts, InitiateCheckout(u, c)
      PROVE  RowInv'
  BY <1>2 DEF InitiateCheckout, TypeOK, Context, RowInv, ActsForCheckout,
              RowsHaveOwner, SnapshotBacked, InFlight
<1>3. ASSUME NEW r \in Requests, NEW u \in Users, NEW c \in Checkouts,
             NEW m \in Methods, BeginSummary(r, u, c, m)
      PROVE  RowInv'
  <2>1. CASE Finish(r)
    BY <1>3, <2>1, FinishRows DEF BeginSummary
  <2>2. CASE ~Finish(r)
    <3>1. /\ pc' = [pc EXCEPT ![r] = "capture"]
          /\ ctx' = [ctx EXCEPT ![r] = [user |-> u, checkout |-> c,
                                        method |-> m]]
          /\ owner[c] = u
          /\ UNCHANGED <<owner, snap, method, resv>>
      BY <1>3, <2>2 DEF BeginSummary, ActiveCheckouts
    <3>2. ActsForCheckout'
      BY <3>1 DEF TypeOK, RowInv, ActsForCheckout, InFlight
    <3>. QED  BY <3>1, <3>2 DEF RowInv, RowsHaveOwner, SnapshotBacked
  <2>. QED  BY <2>1, <2>2
<1>4. ASSUME NEW r \in Requests, CaptureCart(r) \/ ValidateItems(r)
      PROVE  RowInv'
  <2>1. CASE Finish(r)
    BY <1>4, <2>1, FinishRows DEF CaptureCart, ValidateItems
  <2>2. CASE ~Finish(r)
    <3>1. /\ InFlight(r)
          /\ \A s \in Requests : s # r => pc'[s] = pc[s]
          /\ UNCHANGED <<ctx, owner, snap, method, resv>>
      BY <1>4, <2>2 DEF CaptureCart, ValidateItems, InFlight, TypeOK
    <3>2. ActsForCheckout'
      BY <3>1 DEF RowInv, ActsForCheckout, InFlight
    <3>. QED  BY <3>1, <3>2 DEF RowInv, RowsHaveOwner, SnapshotBacked
  <2>. QED  BY <2>1, <2>2
<1>5. ASSUME NEW r \in Requests, Reserve(r)
      PROVE  RowInv'
  <2>. DEFINE c == ctx[r].checkout
  <2>1. /\ c \in Checkouts
        /\ owner[c] # NoUser
        /\ ctx[r].method \in Methods
    BY <1>5 DEF Reserve, TypeOK, Context, RowInv, ActsForCheckout, InFlight
  <2>2. ActsForCheckout'
    BY <1>5 DEF Reserve, Finish, TypeOK, RowInv, ActsForCheckout, InFlight
  <2>3. RowsHaveOwner'
    BY <1>5, <2>1 DEF Reserve, TypeOK, RowInv, RowsHaveOwner
  <2>4. SnapshotBacked'
    <3>. SUFFICES ASSUME NEW d \in Checkouts, snap'[d] # NoItems
                  PROVE  /\ method'[d] # "none"
                         /\ \A p \in Products : snap'[d][p] > 0
                                                   => resv'[d][p] > 0
      BY DEF SnapshotBacked
    <3>1. CASE d = c
      BY <1>5, <2>1, <3>1 DEF Reserve, TypeOK, Quantities
    <3>2. CASE d # c
      BY <1>5, <2>1, <3>2 DEF Reserve, TypeOK, RowInv, SnapshotBacked
    <3>. QED  BY <3>1, <3>2
  <2>. QED  BY <2>2, <2>3, <2>4 DEF RowInv
<1>6. ASSUME NEW r \in Requests, DeadlockVictim(r) \/ Abort(r)
      PROVE  RowInv'
  BY <1>6, FinishRows DEF DeadlockVictim, Abort
<1>. QED
  BY <1>1, <1>2, <1>3, <1>4, <1>5, <1>6
     DEF Next, Step, vars, Tick, AddToCart, WriteStock, CloseCheckout,
         InitiateExpired, LockProduct

-----------------------------------------------------------------------------
(* Availability.                                                           *)

\* Only the commit of a request adds units, at most as many as it wanted.
LEMMA UnitsStep ==
    ASSUME TypeOK, RowInv, [Next]_vars, NEW p \in Products
    PROVE  \/ Reserved(p)' <= Reserved(p)
           \/ \E r \in Requests :
                /\ Reserve(r)
                /\ p \in Wanted(r)
                /\ Reserved(p)' <= Reserved(p) + want[r][p]
<1>. USE CheckoutAssumption DEF csVars, reqVars
<1>1. IsFiniteSet(Units(p)) /\ Reserved(p) \in Nat
  BY UnitsFinite
<1>2. ASSUME Units(p)' \subseteq Units(p)
      PROVE  Reserved(p)' <= Reserved(p)
  BY <1>1, <1>2, FS_Subset DEF Reserved
<1>3. CASE UNCHANGED <<clock, expires, resv>>
  BY <1>2, <1>3 DEF Units, Live
<1>4. CASE Tick
  BY <1>2, <1>4 DEF Tick, Units, Live, TypeOK
<1>5. ASSUME NEW u \in Users, NEW c \in Checkouts, InitiateCheckout(u, c)
      PROVE  Reserved(p)' <= Reserved(p)
  <2>1. resv[c][p] = 0 /\ resv' = resv /\ clock' = clock
        /\ \A d \in Checkouts : d # c => expires'[d] = expires[d]
    BY <1>5 DEF InitiateCheckout, RowInv, RowsHaveOwner, NoItems, TypeOK
  <2>2. Units(p)' \subseteq Units(p)
    BY <2>1 DEF Units, Live
  <2>. QED  BY <1>2, <2>2
<1>6. ASSUME NEW r \in Requests, Reserve(r)
      PROVE  \/ Reserved(p)' <= Reserved(p)
             \/ /\ p \in Wanted(r)
                /\ Reserved(p)' <= Reserved(p) + want[r][p]
  <2>. DEFINE c == ctx[r].checkout
  <2>1. c \in Checkouts /\ want[r][p] \in Nat /\ want[r] \in Quantities
    BY DEF TypeOK, Context, Quantities
  <2>2. /\ UNCHANGED <<clock, expires>>
        /\ \A d \in Checkouts : d # c => resv'[d] = resv[d]
        /\ resv'[c][p] = IF resv[c][p] = 0 THEN want[r][p] ELSE resv[c][p]
    BY <1>6, <2>1 DEF Reserve, TypeOK
  <2>. HIDE DEF c
  <2>3. CASE want[r][p] = 0
    <3>1. Units(p)' \subseteq Units(p)
      BY <2>1, <2>2, <2>3 DEF Units, Live
    <3>. QED  BY <1>2, <3>1
  <2>4. CASE want[r][p] > 0
    <3>1. Units(p)' \subseteq Units(p) \cup ({c} \X (1..want[r][p]))
      BY <2>1, <2>2 DEF Units, Live
    <3>2. Cardinality(Units(p)') <= Cardinality(Units(p)) + want[r][p]
      BY <1>1, <2>1, <3>1, AddRow
    <3>. QED  BY <2>4, <3>2 DEF Wanted, Reserved
  <2>. QED  BY <2>1, <2>3, <2>4
<1>. QED
  BY <1>3, <1>4, <1>5, <1>6
     DEF Next, Step, vars, AddToCart, WriteStock, CloseCheckout,
         InitiateExpired, BeginSummary, CaptureCart, LockProduct,
         ValidateItems, DeadlockVictim, Abort

\* A request gets to reserve only through a successful validation.
LEMMA ReachReserve ==
    ASSUME TypeOK, [Next]_vars, NEW s \in Requests, pc'[s] = "reserve"
    PROVE  \/ pc[s] = "reserve" /\ want'[s] = want[s]
           \/ ValidateItems(s) /\ ~Finish(s)
<1>. USE DEF csVars, reqVars
<1>. DEFINE Goal == \/ pc[s] = "reserve" /\ want'[s] = want[s]
                    \/ ValidateItems(s) /\ ~Finish(s)
<1>1. CASE UNCHANGED <<pc, want>>
  BY <1>1
<1>2. ASSUME NEW r \in Requests, Finish(r)
      PROVE  Goal
  BY <1>2 DEF Finish, TypeOK
<1>3. ASSUME NEW r \in Requests, NEW u \in Users, NEW c \in Checkouts,
             NEW m \in Methods, BeginSummary(r, u, c, m)
      PROVE  Goal
  BY <1>2, <1>3 DEF BeginSummary, TypeOK
<1>4. ASSUME NEW r \in Requests, CaptureCart(r)
      PROVE  Goal
  BY <1>2, <1>4 DEF CaptureCart, TypeOK
<1>5. ASSUME NEW r \in Requests, ValidateItems(r)
      PROVE  Goal
  <2>1. CASE Finish(r)
    BY <1>2, <2>1
  <2>2. CASE ~Finish(r)
    <3>1. pc' = [pc EXCEPT ![r] = "reserve"] /\ want' = want
      BY <1>5, <2>2 DEF ValidateItems
    <3>. QED  BY <1>5, <2>2, <3>1 DEF TypeOK
  <2>. QED  BY <2>1, <2>2
<1>. QED
  BY <1>1, <1>2, <1>3, <1>4, <1>5
     DEF Next, Step, vars, Tick, AddToCart, WriteStock, CloseCheckout,
         InitiateCheckout, InitiateExpired, LockProduct, Reserve,
         DeadlockVictim, Abort

\* A stock write does not reach a row that a request about to reserve holds,
\* and neither does the commit of another request.
LEMMA CheckStep ==
    ASSUME CheckoutInv, [Next]_vars
    PROVE  CheckStillHolds'
<1>. USE CheckoutAssumption DEF csVars, reqVars
<1>. SUFFICES ASSUME NEW s \in Requests, pc'[s] = "reserve",
                     NEW p \in Products, want'[s][p] > 0
              PROVE  want'[s][p] + Reserved(p)' <= stock'[p]
  BY DEF CheckStillHolds, Wanted
<1>1. TypeOK /\ RowInv /\ LockInv /\ CheckStillHolds
  BY DEF CheckoutInv, RowInv, LockInv
<1>2. Reserved(p) \in Nat /\ Reserved(p)' \in Nat
  BY UnitsFinite
<1>3. want[s][p] \in Nat /\ stock[p] \in Nat
  BY <1>1 DEF TypeOK, Quantities
<1>4. CASE pc[s] = "reserve"
  <2>1. want'[s] = want[s]
    BY <1>1, <1>4, ReachReserve DEF ValidateItems
  <2>2. p \in Wanted(s) /\ lock[p] = s
    BY <1>1, <1>4, <2>1 DEF Wanted, LockInv, LocksMatchReads, ReadBeforeReserve
  <2>3. want[s][p] + Reserved(p) <= stock[p]
    BY <1>1, <1>4, <2>2 DEF CheckStillHolds
  <2>4. stock'[p] = stock[p]
    BY <1>1, <2>2 DEF TypeOK, Next, Step, vars, Tick, AddToCart, WriteStock,
          CloseCheckout, InitiateCheckout, InitiateExpired, BeginSummary,
          CaptureCart, LockProduct, ValidateItems, Reserve, DeadlockVictim,
          Abort
  <2>5. Reserved(p)' <= Reserved(p)
    <3>1. ASSUME NEW r \in Requests, Reserve(r), p \in Wanted(r)
          PROVE  FALSE
      <4>1. lock[p] = r
        BY <1>1, <3>1 DEF Reserve, LockInv, LocksMatchReads, ReadBeforeReserve
      <4>2. pc'[r] = "done"
        BY <1>1, <3>1 DEF Reserve, Finish, TypeOK
      <4>. QED  BY <2>2, <4>1, <4>2
    <3>. QED  BY <1>1, <3>1, UnitsStep
  <2>. QED  BY <1>2, <1>3, <2>1, <2>3, <2>4, <2>5
<1>5. CASE pc[s] # "reserve"
  <2>1. ValidateItems(s) /\ ~Finish(s)
    BY <1>1, <1>5, ReachReserve
  <2>2. /\ UNCHANGED <<clock, expires, resv, stock, want>>
        /\ \A q \in Wanted(s) : seen[s][q] # NotRead
        /\ \A q \in Wanted(s) : want[s][q] <= Available(s, q)
    BY <2>1 DEF ValidateItems, csVars
  <2>3. p \in Wanted(s)
    BY <2>2 DEF Wanted
  <2>4. seen[s][p] = stock[p]
    BY <1>1, <2>2, <2>3 DEF LockInv, SeenIsCurrent
  <2>5. want[s][p] + Reserved(p) <= stock[p]
    BY <1>2, <1>3, <2>2, <2>3, <2>4 DEF Available, Wanted
  <2>6. Reserved(p)' = Reserved(p)
    BY <2>2 DEF Reserved, Units, Live
  <2>. QED  BY <2>2, <2>5, <2>6
<1>. QED  BY <1>4, <1>5

-----------------------------------------------------------------------------
(* The theorems.                                                           *)

\* With empty carts and no checkout the inductive invariant holds.
LEMMA InvInit == Init => CheckoutInv
<1>. SUFFICES ASSUME Init PROVE CheckoutInv
  OBVIOUS
<1>1. TypeOK
  BY DefaultTypes, CheckoutAssumption DEF Init, TypeOK
<1>2. LocksMatchReads /\ SeenIsCurrent
  BY CheckoutAssumption DEF Init, LocksMatchReads, SeenIsCurrent, NothingRead
<1>3. ReadBeforeReserve /\ ActsForCheckout /\ CheckStillHolds
  BY DEF Init, ReadBeforeReserve, ActsForCheckout, CheckStillHolds, InFlight
<1>4. RowsHaveOwner /\ SnapshotBacked
  BY DEF Init, RowsHaveOwner, SnapshotBacked
<1>. QED  BY <1>1, <1>2, <1>3, <1>4 DEF CheckoutInv

\* Every step of the handlers, of time and of stock writes preserves the
\* inductive invariant.
LEMMA InvStep == CheckoutInv /\ [Next]_vars => CheckoutInv'
<1>. SUFFICES ASSUME CheckoutInv, [Next]_vars PROVE CheckoutInv'
  OBVIOUS
<1>1. TypeOK /\ ActsForCheckout /\ RowInv /\ LockInv
  BY DEF CheckoutInv, RowInv, LockInv
<1>2. TypeOK'
  BY <1>1, TypeStep
<1>3. LockInv'
  BY <1>1, LockStep
<1>4. RowInv'
  BY <1>1, RowStep
<1>5. CheckStillHolds'
  BY CheckStep
<1>. QED  BY <1>2, <1>3, <1>4, <1>5 DEF CheckoutInv, RowInv, LockInv

\* The inductive invariant of the order-summary handler: locks, rows and the
\* availability that was checked stay consistent in every behaviour.
THEOREM CheckoutInvariant == Spec => []CheckoutInv
BY InvInit, InvStep, PTL DEF Spec

\* Every variable keeps its type.
THEOREM TypeCorrect == Spec => []TypeOK
<1>1. CheckoutInv => TypeOK
  BY DEF CheckoutInv
<1>. QED  BY <1>1, CheckoutInvariant, PTL

\* The availability that validate_items_avblty found is still there when the
\* reservation is committed.
THEOREM CheckedIsStillAvailable == Spec => []CheckStillHolds
<1>1. CheckoutInv => CheckStillHolds
  BY DEF CheckoutInv
<1>. QED  BY <1>1, CheckoutInvariant, PTL

\* A product row is locked exactly by the request that has read it: no
\* request ends, fails or is aborted with a lock left behind.
THEOREM LocksAreOfReaders == Spec => []LocksMatchReads
<1>1. CheckoutInv => LocksMatchReads
  BY DEF CheckoutInv
<1>. QED  BY <1>1, CheckoutInvariant, PTL

\* Every product of a stored cart snapshot has a reservation row.
THEOREM SnapshotIsBacked == Spec => []SnapshotBacked
<1>1. CheckoutInv => SnapshotBacked
  BY DEF CheckoutInv
<1>. QED  BY <1>1, CheckoutInvariant, PTL

\* Concurrent order summaries never reserve more of a product than is in
\* stock.
THEOREM NeverOversold == Spec => NoOversell
<1>1. ASSUME CheckoutInv, [Next]_vars, NEW p \in Products,
             Reserved(p)' > Reserved(p)
      PROVE  Reserved(p)' <= stock'[p]
  <2>1. TypeOK /\ RowInv /\ CheckStillHolds
    BY <1>1 DEF CheckoutInv, RowInv
  <2>2. Reserved(p) \in Nat /\ Reserved(p)' \in Nat
    BY UnitsFinite
  <2>3. PICK r \in Requests : /\ Reserve(r)
                              /\ p \in Wanted(r)
                              /\ Reserved(p)' <= Reserved(p) + want[r][p]
    BY <1>1, <2>1, <2>2, UnitsStep
  <2>4. want[r][p] + Reserved(p) <= stock[p]
    BY <2>1, <2>3 DEF CheckStillHolds, Reserve
  <2>5. stock' = stock /\ stock[p] \in Nat /\ want[r][p] \in Nat
    BY <2>1, <2>3 DEF Reserve, TypeOK, Quantities
  <2>. QED  BY <2>2, <2>3, <2>4, <2>5
<1>2. CheckoutInv /\ [Next]_vars
        => [\A p \in Products : Reserved(p)' > Reserved(p)
                                   => Reserved(p)' <= stock'[p]]_vars
  BY <1>1
<1>. QED  BY <1>2, CheckoutInvariant, PTL DEF Spec, NoOversell
=============================================================================
