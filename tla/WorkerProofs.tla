---------------------------- MODULE WorkerProofs ----------------------------
(***************************************************************************)
(* The stock of a paid order is taken at most once, completely and never   *)
(* below zero, for every number of orders, products and workers and every  *)
(* queue size, through failures, crashes and commits of unknown outcome.   *)
(*                                                                         *)
(* The second half puts the workers together with the webhook handler      *)
(* (OrderPipeline), whose own theorems are in WebhookProofs: each side is  *)
(* shown to do to the shared rows and the queue only what the              *)
(* specification of the other allows, so both inductive invariants hold of *)
(* the pipeline, and stock leaves only for captured payments.              *)
(***************************************************************************)
EXTENDS OrderPipeline, FiniteSetTheorems, SequenceTheorems, TLAPS

-----------------------------------------------------------------------------
(* Units taken.                                                            *)

\* The quantities of an order's payload are numbers up to the bound.
LEMMA Quantity ==
    ASSUME NEW o \in Orders, NEW p \in Products
    PROVE  Items[o][p] \in Nat /\ Items[o][p] <= MaxQty
BY WorkerAssumption

\* The units taken of a product are finitely many.
LEMMA TakenFinite ==
    ASSUME TypeOK, NEW p \in Products
    PROVE  IsFiniteSet(Taken(p)) /\ Cardinality(Taken(p)) \in Nat
<1>1. IsFiniteSet(1..MaxQty)
  BY FS_Interval, WorkerAssumption
<1>2. IsFiniteSet(Orders \X (1..MaxQty))
  BY <1>1, FS_Product, WorkerAssumption
<1>3. Taken(p) \in SUBSET (Orders \X (1..MaxQty))
  BY DEF Taken, TypeOK
<1>4. IsFiniteSet(Taken(p))
  BY <1>2, <1>3, FS_Subset
<1>. QED  BY <1>4, FS_CardinalityType

\* An order that had taken nothing adds the quantities of its payload.
LEMMA TakenByOrder ==
    ASSUME TypeOK, NEW o \in Orders, o \notin applied,
           applied' = applied \cup {o}, NEW p \in Products
    PROVE  Cardinality(Taken(p)') = Cardinality(Taken(p)) + Items[o][p]
<1>. DEFINE q == Items[o][p]
            New == {o} \X (1..q)
<1>1. q \in Nat /\ q <= MaxQty /\ MaxQty \in Nat
  BY Quantity, WorkerAssumption
<1>2. Taken(p)' = Taken(p) \cup New
  <2>1. \A u : u \in Taken(p)' <=> u \in Taken(p) \cup New
    BY <1>1 DEF Taken
  <2>. QED  BY <2>1
<1>3. Taken(p) \cap New = {}
  BY DEF Taken
<1>4. IsFiniteSet(New) /\ Cardinality(New) = q
  <2>1. IsFiniteSet(1..q) /\ Cardinality(1..q) = q
    <3>. HIDE DEF q
    <3>. QED  BY <1>1, FS_Interval
  <2>2. IsFiniteSet({o}) /\ Cardinality({o}) = 1
    BY FS_Singleton
  <2>3. IsFiniteSet(New) /\ Cardinality(New) = Cardinality({o}) * Cardinality(1..q)
    BY <2>1, <2>2, FS_Product
  <2>. QED  BY <1>1, <2>1, <2>2, <2>3
<1>5. IsFiniteSet(Taken(p)) /\ Cardinality(Taken(p)) \in Nat
  BY TakenFinite
<1>6. Cardinality(Taken(p) \cup New)
        = Cardinality(Taken(p)) + Cardinality(New) - Cardinality(Taken(p) \cap New)
  <2>. HIDE DEF New, q
  <2>. QED  BY <1>4, <1>5, FS_Union
<1>7. Cardinality(Taken(p) \cap New) = 0
  BY <1>3, FS_EmptySet
<1>. HIDE DEF New, q
<1>8. Cardinality(Taken(p)') = Cardinality(Taken(p)) + q
  BY <1>1, <1>2, <1>4, <1>5, <1>6, <1>7
<1>. QED  BY <1>8 DEF q

-----------------------------------------------------------------------------
(* Steps.                                                                  *)

\* Every step is one of the actions below, or changes nothing; a deadlock
\* and insufficient stock are roll-backs.
LEMMA NextCases ==
    ASSUME [Next]_vars
    PROVE  \/ \E o \in Orders : CreateIntent(o)
           \/ \E o \in Orders : Announce(o)
           \/ \E o \in Orders, topic \in Topics : Notify(o, topic)
           \/ \E p \in Products, n \in 0..MaxStock : Restock(p, n)
           \/ \E w \in Workers : Take(w)
           \/ \E w \in Workers : CompleteOutbox(w)
           \/ \E w \in Workers : Claim(w)
           \/ \E w \in Workers, p \in Products : LockItem(w, p)
           \/ \E w \in Workers : CommitWork(w) \/ CommitUnknown(w)
           \/ \E w \in Workers : RollBack(w)
           \/ \E w \in Workers : Recover(w)
           \/ Crash
           \/ UNCHANGED vars
BY DEF Next, Produce, Work, Progress, Insufficient, DeadlockVictim

\* The messages a producer adds, and what is left when a worker takes one.
LEMMA QueueTypes ==
    ASSUME TypeOK, NEW o \in Orders, NEW topic \in Topics
    PROVE  /\ queue \o <<<<"order.paid", o>>, <<IntentTopic, o>>>>
                 \in Seq(Topics \X Orders)
           /\ Append(queue, <<topic, o>>) \in Seq(Topics \X Orders)
           /\ queue # <<>> => /\ Tail(queue) \in Seq(Topics \X Orders)
                              /\ Head(queue) \in Topics \X Orders
<1>. DEFINE T == Topics \X Orders
<1>1. /\ <<"order.paid", o>> \in T /\ <<IntentTopic, o>> \in T
      /\ <<topic, o>> \in T
  BY DEF Topics
<1>2. queue \in Seq(T)
  BY DEF TypeOK
<1>. HIDE DEF T
<1>3. <<<<"order.paid", o>>, <<IntentTopic, o>>>> \in Seq(T)
  BY <1>1
<1>4. queue \o <<<<"order.paid", o>>, <<IntentTopic, o>>>> \in Seq(T)
  BY <1>2, <1>3, ConcatProperties
<1>5. Append(queue, <<topic, o>>) \in Seq(T)
  BY <1>1, <1>2, AppendProperties
<1>6. queue # <<>> => Tail(queue) \in Seq(T) /\ Head(queue) \in T
  BY <1>2, HeadTailProperties
<1>. QED  BY <1>4, <1>5, <1>6 DEF T

\* Release keeps the type of the locks.
LEMMA ReleaseType ==
    ASSUME TypeOK, NEW w \in Workers, Release(w)
    PROVE  held' \in [Products -> Workers \cup {NoWorker}]
BY DEF TypeOK, Release

\* Where a worker goes has a type.
LEMMA GotoType ==
    ASSUME TypeOK, NEW w \in Workers, NEW o \in Orders \cup {NoOrder},
           NEW phase \in {"idle", "outbox", "claim", "work", "recover"},
           Goto(w, phase, o)
    PROVE  /\ wpc' \in [Workers -> {"idle", "outbox", "claim", "work", "recover"}]
           /\ job' \in [Workers -> Orders \cup {NoOrder}]
           /\ short' \in [Workers -> BOOLEAN]
BY DEF TypeOK, Goto

\* No step leaves the types.
LEMMA TypeStep ==
    ASSUME TypeOK, BusyHasJob, [Next]_vars
    PROVE  TypeOK'
<1>. USE WorkerAssumption DEF wVars
<1>1. ASSUME NEW o \in Orders, CreateIntent(o) PROVE TypeOK'
  BY <1>1 DEF CreateIntent, TypeOK, CommitIntentStatus
<1>2. ASSUME NEW o \in Orders, Announce(o) PROVE TypeOK'
  <2>1. queue' \in Seq(Topics \X Orders)
    BY <1>2, QueueTypes DEF Announce, Topics
  <2>2. announced' \in [Orders -> Nat]
    BY <1>2 DEF Announce, TypeOK
  <2>. QED  BY <1>2, <2>1, <2>2 DEF Announce, TypeOK
<1>3. ASSUME NEW o \in Orders, NEW topic \in Topics, Notify(o, topic)
      PROVE  TypeOK'
  <2>1. queue' \in Seq(Topics \X Orders)
    BY <1>3, QueueTypes DEF Notify
  <2>. QED  BY <1>3, <2>1 DEF Notify, TypeOK
<1>4. ASSUME NEW p \in Products, NEW n \in 0..MaxStock, Restock(p, n)
      PROVE  TypeOK'
  BY <1>4 DEF Restock, TypeOK
<1>5. ASSUME NEW w \in Workers, Take(w) PROVE TypeOK'
  <2>1. /\ queue' \in Seq(Topics \X Orders)
        /\ Head(queue)[2] \in Orders
    <3>1. queue \in Seq(Topics \X Orders) /\ queue # <<>> /\ queue' = Tail(queue)
      BY <1>5 DEF Take, TypeOK
    <3>2. Head(queue) \in Topics \X Orders /\ Tail(queue) \in Seq(Topics \X Orders)
      BY <3>1, HeadTailProperties
    <3>. QED  BY <3>1, <3>2
  <2>2. /\ wpc' \in [Workers -> {"idle", "outbox", "claim", "work", "recover"}]
        /\ job' \in [Workers -> Orders \cup {NoOrder}]
        /\ short' \in [Workers -> BOOLEAN]
    BY <1>5, <2>1 DEF Take, Goto, TypeOK
  <2>. QED  BY <1>5, <2>1, <2>2 DEF Take, TypeOK
<1>6. ASSUME NEW w \in Workers, CompleteOutbox(w) PROVE TypeOK'
  BY <1>6 DEF CompleteOutbox, Rest, Goto, TypeOK
<1>7. ASSUME NEW w \in Workers, Claim(w) PROVE TypeOK'
  <2>1. job[w] \in Orders
    BY <1>7 DEF Claim, BusyHasJob
  <2>2. /\ wpc' \in [Workers -> {"idle", "outbox", "claim", "work", "recover"}]
        /\ job' \in [Workers -> Orders \cup {NoOrder}]
        /\ short' \in [Workers -> BOOLEAN]
    BY <1>7, <2>1, GotoType DEF Claim, Rest
  <2>3. /\ intent' \in [Orders -> CommitIntentStatus]
        /\ attempts' \in [Orders -> Nat]
    <3>1. \/ /\ intent' = [intent EXCEPT ![job[w]] = "PROCESSING"]
             /\ attempts' = [attempts EXCEPT ![job[w]] = @ + 1]
          \/ UNCHANGED <<intent, attempts>>
      BY <1>7 DEF Claim
    <3>2. /\ intent \in [Orders -> CommitIntentStatus]
          /\ attempts \in [Orders -> Nat]
      BY DEF TypeOK
    <3>. QED  BY <2>1, <3>1, <3>2 DEF CommitIntentStatus
  <2>. QED  BY <1>7, <2>2, <2>3 DEF Claim, TypeOK
<1>8. ASSUME NEW w \in Workers, NEW p \in Products, LockItem(w, p)
      PROVE  TypeOK'
  BY <1>8 DEF LockItem, TypeOK
<1>9. ASSUME NEW w \in Workers, CommitWork(w) \/ CommitUnknown(w) PROVE TypeOK'
  <2>1. job[w] \in Orders /\ TakeStock(w)
    BY <1>9 DEF CommitWork, CommitUnknown, TakeStock, BusyHasJob
  <2>2. /\ wpc' \in [Workers -> {"idle", "outbox", "claim", "work", "recover"}]
        /\ job' \in [Workers -> Orders \cup {NoOrder}]
        /\ short' \in [Workers -> BOOLEAN]
    BY <1>9, <2>1, GotoType DEF CommitWork, CommitUnknown, Rest
  <2>3. held' \in [Products -> Workers \cup {NoWorker}]
    BY <2>1, ReleaseType DEF TakeStock
  <2>4. stock' \in [Products -> Int]
    BY <2>1, Quantity DEF TakeStock, TypeOK
  <2>5. intent' \in [Orders -> CommitIntentStatus] /\ applied' \subseteq Orders
    BY <2>1 DEF TakeStock, TypeOK, CommitIntentStatus
  <2>6. UNCHANGED <<announced, attempts, paid, supplied, queue>>
    BY <2>1 DEF TakeStock
  <2>. QED  BY <2>2, <2>3, <2>4, <2>5, <2>6 DEF TypeOK
<1>10. ASSUME NEW w \in Workers, RollBack(w) PROVE TypeOK'
  <2>1. job[w] \in Orders
    BY <1>10 DEF RollBack, BusyHasJob
  <2>2. /\ wpc' \in [Workers -> {"idle", "outbox", "claim", "work", "recover"}]
        /\ job' \in [Workers -> Orders \cup {NoOrder}]
        /\ short' \in [Workers -> BOOLEAN]
    BY <1>10, <2>1, GotoType DEF RollBack
  <2>. QED  BY <1>10, <2>2, ReleaseType DEF RollBack, TypeOK
<1>11. ASSUME NEW w \in Workers, Recover(w) PROVE TypeOK'
  <2>1. job[w] \in Orders
    BY <1>11 DEF Recover, BusyHasJob
  <2>2. /\ wpc' \in [Workers -> {"idle", "outbox", "claim", "work", "recover"}]
        /\ job' \in [Workers -> Orders \cup {NoOrder}]
        /\ short' \in [Workers -> BOOLEAN]
    BY <1>11, GotoType DEF Recover, Rest
  <2>3. /\ intent' \in [Orders -> CommitIntentStatus]
        /\ attempts' \in [Orders -> Nat]
    <3>1. \/ /\ intent' = [intent EXCEPT ![job[w]] = StatusAfterFailure(job[w])]
             /\ attempts' = [attempts EXCEPT ![job[w]] =
                               IF @ + 1 >= MaxAttempts THEN @ ELSE @ + 1]
          \/ UNCHANGED <<intent, attempts>>
      BY <1>11 DEF Recover
    <3>2. /\ intent \in [Orders -> CommitIntentStatus]
          /\ attempts \in [Orders -> Nat]
      BY DEF TypeOK
    <3>3. StatusAfterFailure(job[w]) \in {"PENDING", "FAILED"}
      BY DEF StatusAfterFailure
    <3>. QED  BY <2>1, <3>1, <3>2, <3>3 DEF CommitIntentStatus
  <2>. QED  BY <1>11, <2>2, <2>3 DEF Recover, TypeOK
<1>12. CASE Crash
  BY <1>12 DEF Crash, TypeOK
<1>13. CASE UNCHANGED vars
  BY <1>13 DEF vars, TypeOK
<1>. QED  BY <1>1, <1>2, <1>3, <1>4, <1>5, <1>6, <1>7, <1>8, <1>9, <1>10,
             <1>11, <1>12, <1>13, NextCases

-----------------------------------------------------------------------------
(* One carrier per intent.                                                 *)

CarrierInv ==
    /\ BusyHasJob
    /\ OneMessage
    /\ OneCarrier
    /\ CarriedIsAnnounced
    /\ TakenIsOver

\* Adding messages other than the intent's leaves carriers alone, and taking
\* the oldest message leaves the others.
LEMMA QueueGrows ==
    ASSUME TypeOK, OneMessage, NEW o \in Orders, NEW topic \in Topics,
           queue' = Append(queue, <<topic, o>>), topic # IntentTopic
    PROVE  /\ OneMessage'
           /\ \A c \in Orders : InQueue(c)' <=> InQueue(c)
<1>1. /\ queue \in Seq(Topics \X Orders) /\ Len(queue) \in Nat
      /\ Len(queue') = Len(queue) + 1
      /\ \A i \in 1..Len(queue) : queue'[i] = queue[i]
      /\ queue'[Len(queue) + 1] = <<topic, o>>
  BY DEF TypeOK
<1>2. OneMessage'
  BY <1>1 DEF OneMessage
<1>3. ASSUME NEW c \in Orders PROVE InQueue(c)' <=> InQueue(c)
  <2>1. ASSUME NEW i \in 1..Len(queue), queue[i] = <<IntentTopic, c>>
        PROVE  InQueue(c)'
    <3>1. i \in 1..Len(queue')
      BY <1>1
    <3>. QED  BY <1>1, <2>1, <3>1 DEF InQueue
  <2>2. ASSUME NEW i \in 1..Len(queue'), queue'[i] = <<IntentTopic, c>>
        PROVE  InQueue(c)
    <3>1. i # Len(queue) + 1
      BY <1>1, <2>2
    <3>2. i \in 1..Len(queue)
      BY <1>1, <2>2, <3>1
    <3>. QED  BY <1>1, <2>2, <3>2 DEF InQueue
  <2>. QED  BY <2>1, <2>2 DEF InQueue
<1>. QED  BY <1>2, <1>3

\* Announce adds the intent's message at the end.
LEMMA QueueAnnounces ==
    ASSUME TypeOK, OneMessage, NEW o \in Orders, ~InQueue(o),
           queue' = queue \o <<<<"order.paid", o>>, <<IntentTopic, o>>>>
    PROVE  /\ OneMessage'
           /\ \A c \in Orders : InQueue(c)' <=> InQueue(c) \/ c = o
<1>. DEFINE n == Len(queue)
<1>1. /\ queue \in Seq(Topics \X Orders) /\ n \in Nat
      /\ Len(queue') = n + 2
      /\ \A i \in 1..n : queue'[i] = queue[i]
      /\ queue'[n + 1] = <<"order.paid", o>>
      /\ queue'[n + 2] = <<IntentTopic, o>>
  BY DEF TypeOK
<1>2. \A i \in 1..Len(queue') : i \in 1..n \/ i = n + 1 \/ i = n + 2
  <2>. HIDE DEF n
  <2>. QED  BY <1>1
<1>3. /\ IntentTopic # "order.paid"
      /\ n + 1 \in 1..Len(queue') /\ n + 2 \in 1..Len(queue')
      /\ \A i \in 1..n : i \in 1..Len(queue')
      /\ \A i \in 1..n : queue[i] # <<IntentTopic, o>>
  <2>1. IntentTopic # "order.paid"
    BY DEF IntentTopic
  <2>2. \A i \in 1..n : queue[i] # <<IntentTopic, o>>
    BY DEF InQueue
  <2>3. /\ n + 1 \in 1..Len(queue') /\ n + 2 \in 1..Len(queue')
        /\ \A i \in 1..n : i \in 1..Len(queue')
    <3>. HIDE DEF n
    <3>. QED  BY <1>1
  <2>. QED  BY <2>1, <2>2, <2>3
<1>4. OneMessage'
  <2>. SUFFICES ASSUME NEW i \in 1..Len(queue'), NEW j \in 1..Len(queue'),
                       queue'[i][1] = IntentTopic, queue'[i] = queue'[j]
                PROVE  i = j
    BY DEF OneMessage
  <2>1. CASE i \in 1..n /\ j \in 1..n
    BY <1>1, <2>1 DEF OneMessage
  <2>2. i # n + 1 /\ j # n + 1
    BY <1>1, <1>3
  <2>3. CASE i = n + 2 /\ j \in 1..n
    BY <1>1, <1>3, <2>3
  <2>4. CASE j = n + 2 /\ i \in 1..n
    BY <1>1, <1>3, <2>4
  <2>. QED  BY <1>2, <2>1, <2>2, <2>3, <2>4
<1>5. ASSUME NEW c \in Orders PROVE InQueue(c)' <=> InQueue(c) \/ c = o
  <2>1. ASSUME InQueue(c) PROVE InQueue(c)'
    BY <1>1, <1>3, <2>1 DEF InQueue
  <2>2. ASSUME c = o PROVE InQueue(c)'
    BY <1>1, <1>3, <2>2 DEF InQueue
  <2>3. ASSUME NEW i \in 1..Len(queue'), queue'[i] = <<IntentTopic, c>>
        PROVE  InQueue(c) \/ c = o
    <3>1. CASE i \in 1..n
      BY <1>1, <2>3, <3>1 DEF InQueue
    <3>2. CASE i = n + 1
      BY <1>1, <1>3, <2>3, <3>2
    <3>3. CASE i = n + 2
      BY <1>1, <2>3, <3>3
    <3>. QED  BY <1>2, <3>1, <3>2, <3>3
  <2>. QED  BY <2>1, <2>2, <2>3 DEF InQueue
<1>. QED  BY <1>4, <1>5

\* Take removes the oldest message, and it was the only one of its intent.
LEMMA QueueShrinks ==
    ASSUME TypeOK, OneMessage, queue # <<>>, queue' = Tail(queue)
    PROVE  /\ OneMessage'
           /\ Head(queue) \in Topics \X Orders
           /\ \A c \in Orders : InQueue(c)' => InQueue(c)
           /\ \A c \in Orders : Head(queue) = <<IntentTopic, c>>
                                  => InQueue(c) /\ ~InQueue(c)'
<1>. DEFINE n == Len(queue)
<1>1. /\ queue \in Seq(Topics \X Orders) /\ n \in Nat \ {0}
      /\ Len(queue') = n - 1
      /\ \A i \in 1..(n - 1) : queue'[i] = queue[i + 1]
      /\ Head(queue) = queue[1]
  BY DEF TypeOK
<1>2. queue[1] \in Topics \X Orders /\ 1 \in 1..n
  BY <1>1
<1>3. \A i \in 1..(n - 1) : i + 1 \in 1..n /\ i + 1 # 1
  BY <1>1
<1>. HIDE DEF n
<1>4. OneMessage'
  BY <1>1, <1>3 DEF OneMessage, n
<1>5. \A c \in Orders : InQueue(c)' => InQueue(c)
  BY <1>1, <1>3 DEF InQueue, n
<1>6. ASSUME NEW c \in Orders, Head(queue) = <<IntentTopic, c>>
      PROVE  InQueue(c) /\ ~InQueue(c)'
  <2>1. queue[1] = <<IntentTopic, c>> /\ queue[1][1] = IntentTopic
    BY <1>1, <1>6
  <2>2. InQueue(c)
    BY <1>2, <2>1 DEF InQueue, n
  <2>3. \A i \in 1..(n - 1) : queue'[i] # <<IntentTopic, c>>
    BY <1>1, <1>2, <1>3, <2>1 DEF OneMessage, n
  <2>. QED  BY <1>1, <2>2, <2>3 DEF InQueue
<1>. QED  BY <1>1, <1>2, <1>4, <1>5, <1>6

\* A step that changes neither the queue, nor announcements, nor the stock
\* taken, and lets a worker go on with its order, towards the end, or rest.
LEMMA CarriersKept ==
    ASSUME TypeOK, CarrierInv, UNCHANGED <<queue, announced, applied>>,
           NEW w \in Workers,
           \A v \in Workers \ {w} : wpc'[v] = wpc[v] /\ job'[v] = job[v],
           \/ wpc'[w] = "idle"
           \/ /\ job'[w] = job[w]
              /\ \/ wpc'[w] = wpc[w]
                 \/ wpc[w] = "claim" /\ wpc'[w] \in {"work", "recover"}
                 \/ wpc[w] = "work" /\ wpc'[w] = "recover"
    PROVE  CarrierInv'
<1>1. /\ OneMessage' /\ \A o \in Orders : InQueue(o)' <=> InQueue(o)
  BY DEF CarrierInv, OneMessage, InQueue
<1>2. BusyHasJob'
  BY DEF CarrierInv, BusyHasJob
<1>3. \A v \in Workers, o \in Orders : Carries(v, o)' => Carries(v, o)
  BY DEF Carries
<1>4. OneCarrier'
  BY <1>1, <1>3 DEF CarrierInv, OneCarrier
<1>5. CarriedIsAnnounced'
  BY <1>1, <1>3 DEF CarrierInv, CarriedIsAnnounced
<1>6. TakenIsOver'
  BY <1>1, <1>3 DEF CarrierInv, TakenIsOver, TypeOK, Carries
<1>. QED  BY <1>1, <1>2, <1>4, <1>5, <1>6 DEF CarrierInv

\* Every step keeps at most one carrier of an intent: the message is
\* published once, passes to the worker that takes it, and ends there.
LEMMA CarrierStep ==
    ASSUME TypeOK, CarrierInv, [Next]_vars
    PROVE  CarrierInv'
<1>. USE DEF wVars
<1>. DEFINE Same == UNCHANGED <<queue, announced, applied, wpc, job>>
<1>1. CASE Same
  BY <1>1 DEF CarrierInv, BusyHasJob, OneMessage, OneCarrier,
              CarriedIsAnnounced, TakenIsOver, InQueue, Carries
<1>2. ASSUME NEW o \in Orders, CreateIntent(o) PROVE Same
  BY <1>2 DEF CreateIntent
<1>3. ASSUME NEW o \in Orders, Announce(o) PROVE CarrierInv'
  <2>1. /\ announced[o] = 0 /\ announced'[o] = 1
        /\ \A c \in Orders \ {o} : announced'[c] = announced[c]
        /\ UNCHANGED <<applied, wpc, job>>
        /\ queue' = queue \o <<<<"order.paid", o>>, <<IntentTopic, o>>>>
    BY <1>3 DEF Announce, TypeOK
  <2>2. ~InQueue(o) /\ o \notin applied /\ \A w \in Workers : ~Carries(w, o)
    BY <2>1 DEF CarrierInv, CarriedIsAnnounced
  <2>3. OneMessage' /\ \A c \in Orders : InQueue(c)' <=> InQueue(c) \/ c = o
    BY <2>1, <2>2, QueueAnnounces DEF CarrierInv
  <2>4. \A w \in Workers, c \in Orders : Carries(w, c)' <=> Carries(w, c)
    BY <2>1 DEF Carries
  <2>5. BusyHasJob'
    BY <2>1 DEF CarrierInv, BusyHasJob
  <2>6. OneCarrier'
    BY <2>2, <2>3, <2>4 DEF CarrierInv, OneCarrier
  <2>7. CarriedIsAnnounced'
    BY <2>1, <2>3, <2>4 DEF CarrierInv, CarriedIsAnnounced
  <2>8. TakenIsOver'
    BY <2>1, <2>2, <2>3, <2>4 DEF CarrierInv, TakenIsOver, TypeOK
  <2>. QED  BY <2>3, <2>5, <2>6, <2>7, <2>8 DEF CarrierInv
<1>4. ASSUME NEW o \in Orders, NEW topic \in Topics, Notify(o, topic)
      PROVE  CarrierInv'
  <2>1. OneMessage' /\ \A c \in Orders : InQueue(c)' <=> InQueue(c)
    BY <1>4, QueueGrows DEF Notify, CarrierInv
  <2>2. UNCHANGED <<announced, applied, wpc, job>>
    BY <1>4 DEF Notify
  <2>3. BusyHasJob' /\ \A w \in Workers, c \in Orders : Carries(w, c)' <=> Carries(w, c)
    BY <2>2 DEF Carries, BusyHasJob, CarrierInv
  <2>4. OneCarrier'
    BY <2>1, <2>3 DEF CarrierInv, OneCarrier
  <2>5. CarriedIsAnnounced'
    BY <2>1, <2>2, <2>3 DEF CarrierInv, CarriedIsAnnounced
  <2>6. TakenIsOver'
    BY <2>1, <2>2, <2>3 DEF CarrierInv, TakenIsOver, TypeOK
  <2>. QED  BY <2>1, <2>3, <2>4, <2>5, <2>6 DEF CarrierInv
<1>5. ASSUME NEW p \in Products, NEW n \in 0..MaxStock, Restock(p, n) PROVE Same
  BY <1>5 DEF Restock
<1>6. ASSUME NEW w \in Workers, Take(w) PROVE CarrierInv'
  <2>. DEFINE o == Head(queue)[2]
  <2>1. /\ UNCHANGED <<announced, applied>> /\ wpc[w] = "idle"
        /\ queue # <<>> /\ queue' = Tail(queue)
        /\ \A v \in Workers \ {w} : wpc'[v] = wpc[v] /\ job'[v] = job[v]
    BY <1>6 DEF Take, Goto, TypeOK
  <2>2. /\ OneMessage' /\ Head(queue) \in Topics \X Orders
        /\ \A c \in Orders : InQueue(c)' => InQueue(c)
        /\ \A c \in Orders : Head(queue) = <<IntentTopic, c>>
                              => InQueue(c) /\ ~InQueue(c)'
    BY <2>1, QueueShrinks DEF CarrierInv
  <2>3. o \in Orders
    BY <2>2
  <2>4. \/ wpc'[w] = "claim" /\ job'[w] = o /\ Head(queue) = <<IntentTopic, o>>
        \/ wpc'[w] = "outbox" /\ job'[w] = o
        \/ wpc'[w] = "idle"
    <3>1. CASE Head(queue)[1] = IntentTopic
      <4>1. Head(queue) = <<IntentTopic, o>>
        BY <2>2, <3>1
      <4>. QED  BY <1>6, <3>1, <4>1 DEF Take, Goto, TypeOK, IntentTopic
    <3>2. CASE Head(queue)[1] # IntentTopic
      BY <1>6, <3>2 DEF Take, Goto, TypeOK
    <3>. QED  BY <3>1, <3>2
  <2>. HIDE DEF o
  <2>5. \A v \in Workers, c \in Orders : Carries(v, c)' =>
           \/ Carries(v, c)
           \/ v = w /\ c = o /\ InQueue(c) /\ ~InQueue(c)' /\ wpc'[v] = "claim"
    BY <2>1, <2>2, <2>3, <2>4 DEF Carries
  <2>6. BusyHasJob'
    BY <2>1, <2>3, <2>4 DEF CarrierInv, BusyHasJob
  <2>7. OneCarrier'
    BY <2>2, <2>3, <2>5 DEF CarrierInv, OneCarrier
  <2>8. CarriedIsAnnounced'
    BY <2>1, <2>2, <2>5 DEF CarrierInv, CarriedIsAnnounced
  <2>9. TakenIsOver'
    <3>1. \A c \in applied : c \in Orders /\ ~InQueue(c)
      BY DEF CarrierInv, TakenIsOver, TypeOK
    <3>2. \A v \in Workers, c \in Orders : Carries(v, c) =>
             wpc'[v] = wpc[v]
      BY <2>1 DEF Carries
    <3>. QED  BY <2>1, <2>2, <2>5, <3>1, <3>2 DEF CarrierInv, TakenIsOver
  <2>. QED  BY <2>2, <2>6, <2>7, <2>8, <2>9 DEF CarrierInv
<1>7. ASSUME NEW w \in Workers,
             CompleteOutbox(w) \/ Claim(w) \/ RollBack(w) \/ Recover(w)
      PROVE  CarrierInv'
  <2>1. UNCHANGED <<queue, announced, applied>>
    BY <1>7 DEF CompleteOutbox, Claim, RollBack, Recover
  <2>2. \A v \in Workers \ {w} : wpc'[v] = wpc[v] /\ job'[v] = job[v]
    BY <1>7 DEF CompleteOutbox, Claim, RollBack, Recover, Rest, Goto, TypeOK
  <2>3. \/ wpc'[w] = "idle"
        \/ /\ job'[w] = job[w]
           /\ \/ wpc'[w] = wpc[w]
              \/ wpc[w] = "claim" /\ wpc'[w] \in {"work", "recover"}
              \/ wpc[w] = "work" /\ wpc'[w] = "recover"
    BY <1>7 DEF CompleteOutbox, Claim, RollBack, Recover, Rest, Goto, TypeOK
  <2>. QED  BY <2>1, <2>2, <2>3, CarriersKept
<1>8. ASSUME NEW w \in Workers, NEW p \in Products, LockItem(w, p) PROVE Same
  BY <1>8 DEF LockItem
<1>9. ASSUME NEW w \in Workers, CommitWork(w) \/ CommitUnknown(w)
      PROVE  CarrierInv'
  <2>0. PICK o \in Orders : o = job[w]
    BY <1>9 DEF CommitWork, CommitUnknown, TakeStock, CarrierInv, BusyHasJob
  <2>1. /\ UNCHANGED <<queue, announced>> /\ applied' = applied \cup {o}
        /\ wpc[w] = "work"
    BY <1>9, <2>0 DEF CommitWork, CommitUnknown, TakeStock
  <2>2. \A v \in Workers \ {w} : wpc'[v] = wpc[v] /\ job'[v] = job[v]
    BY <1>9 DEF CommitWork, CommitUnknown, Rest, Goto, TypeOK
  <2>3. wpc'[w] = "idle" \/ (wpc'[w] = "recover" /\ job'[w] = o)
    <3>1. Goto(w, "idle", NoOrder) \/ Goto(w, "recover", o)
      BY <1>9, <2>0 DEF CommitWork, CommitUnknown, Rest
    <3>. QED  BY <3>1 DEF Goto, TypeOK
  <2>4. Carries(w, o)
    BY <2>0, <2>1 DEF Carries
  <2>5. OneMessage' /\ \A c \in Orders : InQueue(c)' <=> InQueue(c)
    BY <2>1 DEF CarrierInv, OneMessage, InQueue
  <2>6. \A v \in Workers, c \in Orders :
           Carries(v, c)' => Carries(v, c) /\ (v = w => c = o)
    BY <2>1, <2>2, <2>3, <2>4 DEF Carries
  <2>7. BusyHasJob'
    BY <2>1, <2>2, <2>3 DEF CarrierInv, BusyHasJob
  <2>8. OneCarrier'
    BY <2>5, <2>6 DEF CarrierInv, OneCarrier
  <2>9. CarriedIsAnnounced'
    BY <2>1, <2>4, <2>5, <2>6 DEF CarrierInv, CarriedIsAnnounced
  <2>10. TakenIsOver'
    <3>1. ~InQueue(o) /\ \A v \in Workers : Carries(v, o) => v = w
      BY <2>1, <2>4 DEF CarrierInv, OneCarrier
    <3>2. ASSUME NEW c \in applied', c # o
          PROVE  ~InQueue(c)' /\ \A v \in Workers : Carries(v, c)' => wpc'[v] = "recover"
      <4>1. c \in applied /\ c \in Orders
        BY <2>1, <3>2 DEF TypeOK
      <4>2. \A v \in Workers : Carries(v, c)' => v # w /\ wpc[v] = "recover"
        BY <2>6, <3>2, <4>1 DEF CarrierInv, TakenIsOver
      <4>. QED  BY <2>2, <2>5, <4>1, <4>2 DEF CarrierInv, TakenIsOver
    <3>3. ASSUME NEW v \in Workers, Carries(v, o)' PROVE wpc'[v] = "recover"
      <4>1. v = w
        BY <2>1, <2>6, <3>1, <3>3
      <4>2. wpc'[v] # "idle"
        BY <3>3 DEF Carries
      <4>. QED  BY <2>3, <4>1, <4>2
    <3>. QED  BY <2>1, <2>5, <3>1, <3>2, <3>3 DEF TakenIsOver
  <2>. QED  BY <2>5, <2>7, <2>8, <2>9, <2>10 DEF CarrierInv
<1>10. CASE Crash
  <2>1. /\ queue' = <<>> /\ UNCHANGED <<announced, applied>>
        /\ \A w \in Workers : wpc'[w] = "idle"
    BY <1>10 DEF Crash
  <2>2. /\ \A c \in Orders : ~InQueue(c)'
        /\ \A w \in Workers, c \in Orders : ~Carries(w, c)'
        /\ OneMessage'
    BY <2>1 DEF InQueue, Carries, OneMessage
  <2>3. BusyHasJob' /\ OneCarrier'
    BY <2>1, <2>2 DEF BusyHasJob, OneCarrier
  <2>4. CarriedIsAnnounced'
    BY <2>1, <2>2 DEF CarrierInv, CarriedIsAnnounced
  <2>5. TakenIsOver'
    BY <2>1, <2>2 DEF TakenIsOver, TypeOK
  <2>. QED  BY <2>2, <2>3, <2>4, <2>5 DEF CarrierInv
<1>11. CASE UNCHANGED vars
  BY <1>1, <1>11 DEF vars
<1>. QED  BY <1>1, <1>2, <1>3, <1>4, <1>5, <1>6, <1>7, <1>8, <1>9, <1>10,
             <1>11, NextCases

-----------------------------------------------------------------------------
(* The stock.                                                              *)

StockInv ==
    /\ LocksAreEnough
    /\ StockConserved
    /\ StockNeverNegative
    /\ DoneMeansTaken

\* A step that leaves the stock and the locks of other workers alone, and
\* completes no intent.
LEMMA StockKept ==
    ASSUME TypeOK, StockInv, UNCHANGED <<stock, supplied, applied>>,
           \A o \in Orders : intent'[o] = "DONE" => intent[o] = "DONE",
           \A p \in Products, v \in Workers : held'[p] = v =>
              /\ held[p] = v
              /\ wpc'[v] = wpc[v] /\ job'[v] = job[v] /\ short'[v] = short[v]
    PROVE  StockInv'
<1>1. LocksAreEnough'
  BY DEF StockInv, LocksAreEnough
<1>2. StockConserved'
  BY DEF StockInv, StockConserved, Taken
<1>3. StockNeverNegative' /\ DoneMeansTaken'
  BY DEF StockInv, StockNeverNegative, DoneMeansTaken
<1>. QED  BY <1>1, <1>2, <1>3 DEF StockInv

\* The step that takes the stock of an order takes what its locks promised.
LEMMA StockTaken ==
    ASSUME TypeOK, CarrierInv, StockInv, NEW w \in Workers, TakeStock(w),
           \A v \in Workers \ {w} : /\ wpc'[v] = wpc[v] /\ job'[v] = job[v]
                                    /\ short'[v] = short[v]
    PROVE  StockInv'
<1>0. PICK o \in Orders : o = job[w]
  BY DEF TakeStock, CarrierInv, BusyHasJob
<1>1. /\ wpc[w] = "work" /\ ~short[w] /\ UNCHANGED supplied
      /\ \A p \in Products : stock'[p] = stock[p] - Items[o][p]
      /\ applied' = applied \cup {o}
      /\ intent' = [intent EXCEPT ![o] = "DONE"]
  BY <1>0 DEF TakeStock
<1>2. o \notin applied
  <2>1. Carries(w, o)
    BY <1>0, <1>1 DEF Carries
  <2>. QED  BY <1>1, <2>1 DEF CarrierInv, TakenIsOver
<1>3. ASSUME NEW p \in Products PROVE Items[o][p] \in Nat /\ Items[o][p] <= stock[p]
  <2>1. Items[o][p] \in Nat /\ stock[p] \in Int /\ stock[p] >= 0
    BY Quantity DEF TypeOK, StockInv, StockNeverNegative
  <2>2. CASE Items[o][p] > 0
    <3>1. held[p] = w
      BY <1>0, <2>2 DEF TakeStock, Todo, Ordered
    <3>. QED  BY <1>0, <1>1, <2>1, <3>1 DEF StockInv, LocksAreEnough
  <2>. QED  BY <2>1, <2>2
<1>4. LocksAreEnough'
  <2>. SUFFICES ASSUME NEW p \in Products, NEW v \in Workers, held'[p] = v
                PROVE  wpc'[v] = "work" /\ (short'[v] \/ Items[job'[v]][p] <= stock'[p])
    BY DEF LocksAreEnough
  <2>1. held[p] = v /\ v # w
    BY WorkerAssumption DEF TakeStock, Release, TypeOK
  <2>2. Items[o][p] = 0
    <3>1. ~(Items[o][p] > 0)
      BY <1>0, <2>1 DEF TakeStock, Todo, Ordered
    <3>. QED  BY <3>1, <1>3
  <2>3. stock'[p] = stock[p]
    BY <1>1, <2>2 DEF TypeOK
  <2>. QED  BY <2>1, <2>3 DEF StockInv, LocksAreEnough
<1>5. StockConserved'
  <2>. SUFFICES ASSUME NEW p \in Products
                PROVE  stock'[p] + Cardinality(Taken(p)') = supplied'[p]
    BY DEF StockConserved
  <2>1. Cardinality(Taken(p)') = Cardinality(Taken(p)) + Items[o][p]
    BY <1>1, <1>2, TakenByOrder
  <2>2. stock[p] + Cardinality(Taken(p)) = supplied[p]
    BY DEF StockInv, StockConserved
  <2>3. Cardinality(Taken(p)) \in Nat /\ stock[p] \in Int
    BY TakenFinite DEF TypeOK
  <2>. QED  BY <1>1, <1>3, <2>1, <2>2, <2>3
<1>6. StockNeverNegative'
  <2>. SUFFICES ASSUME NEW p \in Products PROVE stock'[p] >= 0
    BY DEF StockNeverNegative
  <2>1. stock[p] \in Int
    BY DEF TypeOK
  <2>. QED  BY <1>1, <1>3, <2>1
<1>7. DoneMeansTaken'
  BY <1>1 DEF StockInv, DoneMeansTaken, TypeOK
<1>. QED  BY <1>4, <1>5, <1>6, <1>7 DEF StockInv

\* Every step keeps the stock accounted for.
LEMMA StockStep ==
    ASSUME TypeOK, CarrierInv, StockInv, [Next]_vars
    PROVE  StockInv'
<1>. USE WorkerAssumption DEF wVars
<1>1. CASE UNCHANGED <<stock, supplied, applied, intent, held, wVars>>
  BY <1>1, StockKept
<1>2. ASSUME NEW o \in Orders, CreateIntent(o) PROVE StockInv'
  <2>1. \A c \in Orders : intent'[c] = "DONE" => intent[c] = "DONE"
    BY <1>2 DEF CreateIntent, TypeOK
  <2>. QED  BY <1>2, <2>1, StockKept DEF CreateIntent
<1>3. ASSUME NEW o \in Orders, Announce(o) \/ \E topic \in Topics : Notify(o, topic)
      PROVE  StockInv'
  BY <1>1, <1>3 DEF Announce, Notify
<1>4. ASSUME NEW p \in Products, NEW n \in 0..MaxStock, Restock(p, n)
      PROVE  StockInv'
  <2>1. /\ stock'[p] = n /\ supplied'[p] = supplied[p] + n - stock[p]
        /\ \A q \in Products \ {p} : stock'[q] = stock[q] /\ supplied'[q] = supplied[q]
        /\ held[p] = NoWorker /\ UNCHANGED <<applied, intent, held, wVars>>
    BY <1>4 DEF Restock, TypeOK
  <2>2. LocksAreEnough'
    BY <2>1 DEF StockInv, LocksAreEnough
  <2>3. StockConserved'
    <3>. SUFFICES ASSUME NEW q \in Products
                  PROVE  stock'[q] + Cardinality(Taken(q)') = supplied'[q]
      BY DEF StockConserved
    <3>1. Taken(q)' = Taken(q)
      BY <2>1 DEF Taken
    <3>2. /\ stock[q] + Cardinality(Taken(q)) = supplied[q]
          /\ Cardinality(Taken(q)) \in Nat
          /\ stock[q] \in Int /\ supplied[q] \in Int
      BY TakenFinite DEF StockInv, StockConserved, TypeOK
    <3>3. CASE q = p
      BY <2>1, <3>1, <3>2, <3>3
    <3>4. CASE q # p
      BY <2>1, <3>1, <3>2, <3>4
    <3>. QED  BY <3>3, <3>4
  <2>4. StockNeverNegative' /\ DoneMeansTaken'
    BY <2>1 DEF StockInv, StockNeverNegative, DoneMeansTaken
  <2>. QED  BY <2>2, <2>3, <2>4 DEF StockInv
<1>5. ASSUME NEW w \in Workers,
             Take(w) \/ CompleteOutbox(w) \/ Claim(w) \/ Recover(w)
      PROVE  StockInv'
  <2>1. UNCHANGED <<stock, supplied, applied, held>>
    BY <1>5 DEF Take, CompleteOutbox, Claim, Recover
  <2>2. wpc[w] # "work"
    BY <1>5 DEF Take, CompleteOutbox, Claim, Recover
  <2>3. \A v \in Workers \ {w} : /\ wpc'[v] = wpc[v] /\ job'[v] = job[v]
                                  /\ short'[v] = short[v]
    BY <1>5 DEF Take, CompleteOutbox, Claim, Recover, Rest, Goto, TypeOK
  <2>4. \A p \in Products : held[p] # w
    BY <2>2 DEF StockInv, LocksAreEnough
  <2>5. \A c \in Orders : intent'[c] = "DONE" => intent[c] = "DONE"
    <3>1. \/ intent' = intent
          \/ \E t \in {"PROCESSING", "PENDING", "FAILED"} :
                intent' = [intent EXCEPT ![job[w]] = t]
      BY <1>5 DEF Take, CompleteOutbox, Claim, Recover, StatusAfterFailure
    <3>. QED  BY <3>1 DEF TypeOK
  <2>. QED  BY <2>1, <2>3, <2>4, <2>5, StockKept
<1>6. ASSUME NEW w \in Workers, NEW p \in Products, LockItem(w, p)
      PROVE  StockInv'
  <2>1. /\ UNCHANGED <<stock, supplied, applied, intent, wpc, job>>
        /\ wpc[w] = "work" /\ job[w] \in Orders
        /\ held'[p] = w
        /\ \A q \in Products \ {p} : held'[q] = held[q]
        /\ \A v \in Workers \ {w} : short'[v] = short[v]
    BY <1>6 DEF LockItem, TypeOK, CarrierInv, BusyHasJob
  <2>2. short'[w] <=> short[w] \/ stock[p] < Items[job[w]][p]
    BY <1>6 DEF LockItem, TypeOK
  <2>3. Items[job[w]][p] \in Nat /\ stock[p] \in Int
    BY <2>1, Quantity DEF TypeOK
  <2>4. short'[w] \/ Items[job[w]][p] <= stock[p]
    BY <2>2, <2>3
  <2>5. LocksAreEnough'
    BY <2>1, <2>2, <2>4 DEF StockInv, LocksAreEnough
  <2>6. StockConserved'
    BY <2>1 DEF StockInv, StockConserved, Taken
  <2>7. StockNeverNegative' /\ DoneMeansTaken'
    BY <2>1 DEF StockInv, StockNeverNegative, DoneMeansTaken
  <2>. QED  BY <2>5, <2>6, <2>7 DEF StockInv
<1>7. ASSUME NEW w \in Workers, CommitWork(w) \/ CommitUnknown(w)
      PROVE  StockInv'
  <2>1. TakeStock(w)
    BY <1>7 DEF CommitWork, CommitUnknown
  <2>2. \A v \in Workers \ {w} : /\ wpc'[v] = wpc[v] /\ job'[v] = job[v]
                                  /\ short'[v] = short[v]
    BY <1>7 DEF CommitWork, CommitUnknown, Rest, Goto, TypeOK
  <2>. QED  BY <2>1, <2>2, StockTaken
<1>8. ASSUME NEW w \in Workers, RollBack(w) PROVE StockInv'
  <2>1. /\ UNCHANGED <<stock, supplied, applied, intent>>
        /\ \A v \in Workers \ {w} : /\ wpc'[v] = wpc[v] /\ job'[v] = job[v]
                                     /\ short'[v] = short[v]
    BY <1>8 DEF RollBack, Goto, TypeOK
  <2>2. \A p \in Products, v \in Workers : held'[p] = v => held[p] = v /\ v # w
    BY <1>8 DEF RollBack, Release, TypeOK
  <2>. QED  BY <2>1, <2>2, StockKept
<1>9. CASE Crash
  <2>1. /\ UNCHANGED <<stock, supplied, applied, intent>>
        /\ \A p \in Products : held'[p] = NoWorker
    BY <1>9 DEF Crash
  <2>. QED  BY <2>1, StockKept
<1>10. CASE UNCHANGED vars
  BY <1>1, <1>10 DEF vars
<1>. QED  BY <1>2, <1>3, <1>4, <1>5, <1>6, <1>7, <1>8, <1>9, <1>10, NextCases

-----------------------------------------------------------------------------
(* The theorems.                                                           *)

\* The invariant holds when the server starts with no orders paid.
LEMMA InvInit == Init => WorkerInv
<1>. SUFFICES ASSUME Init PROVE WorkerInv
  OBVIOUS
<1>. USE WorkerAssumption
<1>1. TypeOK
  <2>1. queue \in Seq(Topics \X Orders)
    BY DEF Init
  <2>2. stock \in [Products -> Int] /\ supplied \in [Products -> Int]
    BY DEF Init
  <2>. QED  BY <2>1, <2>2 DEF Init, TypeOK, CommitIntentStatus
<1>2. BusyHasJob /\ OneMessage /\ OneCarrier /\ CarriedIsAnnounced /\ TakenIsOver
  BY DEF Init, BusyHasJob, OneMessage, OneCarrier, CarriedIsAnnounced,
         TakenIsOver, InQueue, Carries
<1>3. LocksAreEnough /\ DoneMeansTaken
  BY DEF Init, LocksAreEnough, DoneMeansTaken
<1>4. StockNeverNegative
  BY DEF Init, StockNeverNegative
<1>5. StockConserved
  <2>. SUFFICES ASSUME NEW p \in Products
                PROVE  stock[p] + Cardinality(Taken(p)) = supplied[p]
    BY DEF StockConserved
  <2>1. Taken(p) = {}
    BY DEF Init, Taken
  <2>2. Cardinality(Taken(p)) = 0
    BY <2>1, FS_EmptySet
  <2>3. stock[p] \in Int /\ supplied[p] = stock[p]
    BY <1>1 DEF Init, TypeOK
  <2>. QED  BY <2>2, <2>3
<1>. QED  BY <1>1, <1>2, <1>3, <1>4, <1>5 DEF WorkerInv

\* Every step of a worker, a producer or the environment keeps it.
LEMMA InvStep == WorkerInv /\ [Next]_vars => WorkerInv'
<1>. SUFFICES ASSUME WorkerInv, [Next]_vars PROVE WorkerInv'
  OBVIOUS
<1>1. TypeOK /\ BusyHasJob /\ CarrierInv /\ StockInv
  BY DEF WorkerInv, CarrierInv, StockInv
<1>2. TypeOK' /\ CarrierInv' /\ StockInv'
  BY <1>1, TypeStep, CarrierStep, StockStep
<1>. QED  BY <1>2 DEF WorkerInv, CarrierInv, StockInv

\* The inductive invariant of the workers, for any number of orders,
\* products and workers.
THEOREM WorkerInvariant == Spec => []WorkerInv
BY InvInit, InvStep, PTL DEF Spec

\* Every variable keeps its type.
THEOREM WorkerTypeCorrect == Spec => []TypeOK
<1>1. WorkerInv => TypeOK
  BY DEF WorkerInv
<1>. QED  BY <1>1, WorkerInvariant, PTL

\* The commit-intent handler takes the stock of each order at most once, and
\* the whole of it.
THEOREM StockIsConserved == Spec => []StockConserved
<1>1. WorkerInv => StockConserved
  BY DEF WorkerInv
<1>. QED  BY <1>1, WorkerInvariant, PTL

\* It never takes more than there is.
THEOREM StockStaysNonNegative == Spec => []StockNeverNegative
<1>1. WorkerInv => StockNeverNegative
  BY DEF WorkerInv
<1>. QED  BY <1>1, WorkerInvariant, PTL

\* An intent that is DONE has its stock taken.
THEOREM DoneIsTaken == Spec => []DoneMeansTaken
<1>1. WorkerInv => DoneMeansTaken
  BY DEF WorkerInv
<1>. QED  BY <1>1, WorkerInvariant, PTL
-----------------------------------------------------------------------------
(* The pipeline: each side keeps to what the other allows.                 *)

Proved == INSTANCE WebhookProofs

\* Whoever carries a message about a paid order, or has taken its stock, has
\* its commit intent in the database.
IntentsExist ==
    /\ \A i \in 1..Len(queue) :
          queue[i][1] # "order.pending_payment" => intent[queue[i][2]] # "none"
    /\ \A w \in Workers : wpc[w] # "idle" => intent[job[w]] # "none"
    /\ \A o \in applied : intent[o] # "none"

\* The inductive invariant of the pipeline.
PipelineInv == Webhook!WebhookInv /\ WorkerInv /\ IntentsExist

\* The assumptions of PaymentWebhook are those of the pipeline.
LEMMA WebhookAssumed == Proved!WebhookAssumption
BY PipelineAssumption, WorkerAssumption DEF Proved!WebhookAssumption
\* The webhook handler that WebhookProofs is about is the pipeline's.
LEMMA SameWebhook ==
    /\ Webhook!Init => Proved!Init
    /\ Webhook!WebhookInv <=> Proved!WebhookInv
    /\ Webhook!WebhookInv' <=> Proved!WebhookInv'
    /\ [Webhook!Next]_(Webhook!vars) => [Proved!Next]_(Proved!vars)
<1> USE DEF Proved!PENDING, Webhook!PENDING, Proved!ACCEPTED, Webhook!ACCEPTED,
    Proved!AUTHORIZED, Webhook!AUTHORIZED, Proved!FAILED, Webhook!FAILED,
    Proved!CAPTURED, Webhook!CAPTURED, Proved!IntentTopic, Webhook!IntentTopic,
    Proved!CommitIntentStatus, Webhook!CommitIntentStatus,
    Proved!OrderOf, Webhook!OrderOf, Proved!NewPay, Webhook!NewPay,
    Proved!NewPayStatus, Webhook!NewPayStatus, Proved!Settled, Webhook!Settled
<1>1. Webhook!Init => Proved!Init
  BY DEF Webhook!Init, Proved!Init
<1>2. (Webhook!TypeOK <=> Proved!TypeOK) /\ (Webhook!TypeOK' <=> Proved!TypeOK')
  BY DEF Webhook!TypeOK, Proved!TypeOK, Webhook!PaymentStatus, Proved!PaymentStatus,
     Webhook!OrderStatus, Proved!OrderStatus, Webhook!OutboxStatus, Proved!OutboxStatus,
     Webhook!Topics, Proved!Topics, Webhook!Outcomes, Proved!Outcomes
<1>3. /\ (Webhook!HoldsItsRows <=> Proved!HoldsItsRows)
      /\ (Webhook!HoldsItsRows' <=> Proved!HoldsItsRows')
      /\ (Webhook!PaymentFound <=> Proved!PaymentFound)
      /\ (Webhook!PaymentFound' <=> Proved!PaymentFound')
  BY DEF Webhook!HoldsItsRows, Proved!HoldsItsRows, Webhook!PaymentFound, Proved!PaymentFound
<1>4. /\ (Webhook!ComparisonStillHolds <=> Proved!ComparisonStillHolds)
      /\ (Webhook!ComparisonStillHolds' <=> Proved!ComparisonStillHolds')
  BY DEF Webhook!ComparisonStillHolds, Proved!ComparisonStillHolds
<1>5. /\ (Webhook!ConfirmedIffCaptured <=> Proved!ConfirmedIffCaptured)
      /\ (Webhook!ConfirmedIffCaptured' <=> Proved!ConfirmedIffCaptured')
      /\ (Webhook!AnnouncedOnce <=> Proved!AnnouncedOnce)
      /\ (Webhook!AnnouncedOnce' <=> Proved!AnnouncedOnce')
  BY DEF Webhook!ConfirmedIffCaptured, Proved!ConfirmedIffCaptured,
     Webhook!AnnouncedOnce, Proved!AnnouncedOnce
<1>6. /\ (Webhook!OneAnnouncer <=> Proved!OneAnnouncer)
      /\ (Webhook!OneAnnouncer' <=> Proved!OneAnnouncer')
  BY DEF Webhook!OneAnnouncer, Proved!OneAnnouncer, Webhook!Announcing, Proved!Announcing
<1>7. /\ Webhook!WebhookInv <=> Proved!WebhookInv
      /\ Webhook!WebhookInv' <=> Proved!WebhookInv'
  BY <1>2, <1>3, <1>4, <1>5, <1>6 DEF Webhook!WebhookInv, Proved!WebhookInv
<1>8. [Webhook!Next]_(Webhook!vars) => [Proved!Next]_(Proved!vars)
  BY DEF Webhook!Next, Proved!Next, Webhook!Handle, Proved!Handle, Webhook!Step, Proved!Step,
     Webhook!Consume, Proved!Consume, Webhook!Crash, Proved!Crash,
     Webhook!vars, Proved!vars, Webhook!rowVars, Proved!rowVars, Webhook!pubVars, Proved!pubVars,
     Webhook!Accept, Proved!Accept, Webhook!Refuse, Proved!Refuse, Webhook!Arrive, Proved!Arrive,
     Webhook!FindPayment, Proved!FindPayment, Webhook!Receive, Proved!Receive,
     Webhook!UpdatePayment, Proved!UpdatePayment, Webhook!Commit, Proved!Commit,
     Webhook!Publish, Proved!Publish, Webhook!Fail, Proved!Fail, Webhook!Take, Proved!Take,
     Webhook!SettleIntent, Proved!SettleIntent, Webhook!SettlePaid, Proved!SettlePaid,
     Webhook!Goto, Proved!Goto, Webhook!Finish, Proved!Finish, Webhook!EndTxn, Proved!EndTxn,
     Webhook!Valid, Proved!Valid, Webhook!ValidEvent, Proved!ValidEvent,
     Webhook!Behind, Proved!Behind, Webhook!HoldPayment, Proved!HoldPayment,
     Webhook!UpdateOrderStatus, Proved!UpdateOrderStatus, Webhook!NewOrder, Proved!NewOrder,
     Webhook!NewOrderStatus, Proved!NewOrderStatus, Webhook!InsertOnce, Proved!InsertOnce,
     Webhook!MarkWebhookProcessed, Proved!MarkWebhookProcessed,
     Webhook!Messages, Proved!Messages
<1> QED BY <1>1, <1>7, <1>8

\* So what is proved there holds here.
LEMMA WebhookKept ==
    /\ Webhook!Init => Webhook!WebhookInv
    /\ Webhook!WebhookInv /\ [Webhook!Next]_(Webhook!vars) => Webhook!WebhookInv'
BY SameWebhook, WebhookAssumed, Proved!InvInit, Proved!InvStep

\* A worker does to the rows and the queue what PaymentWebhook expects of it.
LEMMA WorkIsConsume ==
    ASSUME PipelineInv, NEW w \in Workers, RunWorker(w)
    PROVE  [Webhook!Next]_(Webhook!vars)
<1> DEFINE o == job[w]
<1>1. wpc[w] # "idle" => o \in Orders /\ intent[o] # "none" /\ paid[o] # "none"
  BY DEF PipelineInv, IntentsExist, WorkerInv, BusyHasJob,
     Webhook!WebhookInv, Webhook!ConfirmedIffCaptured
<1>2. UNCHANGED webhookOnly
  BY DEF RunWorker
<1> USE DEF webhookOnly, Webhook!pubVars
<1>3. CASE Take(w)
  <2>1. Webhook!Take
    BY <1>2, <1>3 DEF Take, Webhook!Take, Webhook!rowVars
  <2> QED BY <2>1 DEF Webhook!Next, Webhook!Consume
<1>4. CASE CompleteOutbox(w) /\ paid' # paid
  <2>1. o \in Orders /\ Webhook!SettlePaid(o)
    BY <1>1, <1>2, <1>4 DEF CompleteOutbox, Webhook!SettlePaid
  <2> QED BY <2>1 DEF Webhook!Next, Webhook!Consume
<1>5. ASSUME NEW s \in {"PENDING", "PROCESSING", "FAILED", "DONE"}, wpc[w] # "idle",
             intent' = [intent EXCEPT ![o] = s], UNCHANGED <<paid, announced, queue>>
      PROVE  [Webhook!Next]_(Webhook!vars)
  <2>1. /\ o \in Orders /\ s \in Webhook!CommitIntentStatus
        /\ Webhook!SettleIntent(o, s)
    BY <1>1, <1>2, <1>5 DEF Webhook!CommitIntentStatus, Webhook!SettleIntent
  <2> QED BY <2>1 DEF Webhook!Next, Webhook!Consume
<1>6. CASE UNCHANGED <<intent, paid, announced, queue>>
  BY <1>2, <1>6 DEF Webhook!vars, Webhook!rowVars
<1>7. CASE Claim(w)
  BY <1>5, <1>6, <1>7 DEF Claim
<1>8. CASE CommitWork(w) \/ CommitUnknown(w)
  BY <1>5, <1>8 DEF CommitWork, CommitUnknown, TakeStock
<1>9. CASE Recover(w)
  <2>1. StatusAfterFailure(o) \in {"PENDING", "FAILED"}
    BY DEF StatusAfterFailure
  <2> QED BY <1>5, <1>6, <1>9, <2>1 DEF Recover
<1>10. CASE (\E p \in Products : LockItem(w, p)) \/ RollBack(w)
  BY <1>6, <1>10 DEF LockItem, RollBack
<1>11. CASE CompleteOutbox(w) /\ paid' = paid
  BY <1>6, <1>11 DEF CompleteOutbox
<1> QED BY <1>3, <1>4, <1>7, <1>8, <1>9, <1>10, <1>11
    DEF RunWorker, Work, Progress, Insufficient, DeadlockVictim
\* What a delivery is about.
LEMMA DeliveryOrder ==
    ASSUME Webhook!TypeOK, NEW d \in Deliveries
    PROVE  Webhook!OrderOf(d) \in Orders
BY DEF Webhook!TypeOK, Webhook!OrderOf

\* The commit of a delivery creates the commit intent of an order at most once,
\* and otherwise leaves intents and order.paid events alone.
LEMMA CommitIsCreate ==
    ASSUME PipelineInv, NEW d \in Deliveries, Webhook!Commit(d), UNCHANGED workerOnly
    PROVE  [Next]_vars
<1> DEFINE o == Webhook!OrderOf(d)
<1>1. /\ Webhook!TypeOK /\ TypeOK /\ Webhook!ComparisonStillHolds
      /\ Webhook!ConfirmedIffCaptured
  BY DEF PipelineInv, Webhook!WebhookInv, WorkerInv
<1>2. o \in Orders
  BY <1>1, DeliveryOrder
<1>3. /\ intent' = [intent EXCEPT ![o] = IF Webhook!NewPay(d) = Webhook!CAPTURED
                                         THEN Webhook!InsertOnce(intent[o]) ELSE intent[o]]
      /\ paid' = [paid EXCEPT ![o] = IF Webhook!NewPay(d) = Webhook!CAPTURED
                                     THEN Webhook!InsertOnce(paid[o]) ELSE paid[o]]
      /\ UNCHANGED <<queue, announced>>
      /\ pc[d] = "commit"
  BY DEF Webhook!Commit, Webhook!pubVars
<1> HIDE DEF o
<1>4. CASE Webhook!NewPay(d) # Webhook!CAPTURED
  <2>1. intent' = intent /\ paid' = paid
    BY <1>1, <1>3, <1>4 DEF TypeOK
  <2> QED BY <1>3, <2>1 DEF vars, workerOnly
<1>5. CASE Webhook!NewPay(d) = Webhook!CAPTURED
  <2>1. pay[o] # Webhook!CAPTURED
    BY <1>1, <1>3, <1>5 DEF Webhook!ComparisonStillHolds, Webhook!CAPTURED, o
  <2>2. intent[o] = "none" /\ paid[o] = "none"
    BY <1>1, <1>2, <2>1 DEF Webhook!ConfirmedIffCaptured
  <2>3. CreateIntent(o)
    BY <1>3, <1>5, <2>2 DEF CreateIntent, Webhook!InsertOnce, workerOnly
  <2> QED BY <1>2, <2>3 DEF Next, Produce
<1> QED BY <1>4, <1>5
\* A queue with nothing or with one message added, and the first of two.
LEMMA QueuePlus ==
    ASSUME NEW T, NEW q \in Seq(T), NEW a \in T, NEW b \in T, NEW n \in Int
    PROVE  /\ q \o <<a>> = Append(q, a)
           /\ q \o SubSeq(<<a, b>>, 1, 1) = Append(q, a)
           /\ n < 1 => q \o SubSeq(<<a, b>>, 1, n) = q /\ q \o SubSeq(<<a>>, 1, n) = q
<1>1. q \o <<a>> = Append(q, a)
  BY AppendIsConcat
<1>2. SubSeq(<<a, b>>, 1, 1) = <<a>>
  <2> DEFINE s == SubSeq(<<a, b>>, 1, 1)
  <2>1. \A i \in 1..1 : <<a, b>>[i] \in T
    OBVIOUS
  <2>2. /\ s \in Seq(T)
        /\ Len(s) = IF 1 <= 1 THEN 1 - 1 + 1 ELSE 0
        /\ \A i \in 1 .. 1 - 1 + 1 : s[i] = <<a, b>>[1 + i - 1]
    BY <2>1, SubSeqProperties
  <2>3. Len(s) = 1 /\ s[1] = a
    BY <2>2
  <2>4. <<a>> \in Seq(T) /\ Len(<<a>>) = 1 /\ <<a>>[1] = a
    OBVIOUS
  <2> HIDE DEF s
  <2>5. s = <<a>>
    BY <2>2, <2>3, <2>4, SeqEqual
  <2> QED BY <2>5 DEF s
<1>3. n < 1 => SubSeq(<<a, b>>, 1, n) = <<>> /\ SubSeq(<<a>>, 1, n) = <<>>
  OBVIOUS
<1>4. q \o <<>> = q
  BY ConcatEmptySeq
<1> QED BY <1>1, <1>2, <1>3, <1>4

\* The publications of a delivery are an announcement that was not made
\* before, a message that is not about an intent, or nothing.
LEMMA PublishIsAnnounce ==
    ASSUME PipelineInv, NEW d \in Deliveries, Webhook!Publish(d), UNCHANGED workerOnly
    PROVE  [Next]_vars
<1> DEFINE o == Webhook!OrderOf(d)
           m == Webhook!Messages(d)
           room == MaxQueue - Len(queue)
<1>1. /\ Webhook!TypeOK /\ TypeOK /\ Webhook!OneAnnouncer
      /\ Webhook!ConfirmedIffCaptured
  BY DEF PipelineInv, Webhook!WebhookInv, WorkerInv
<1>2. o \in Orders
  BY <1>1, DeliveryOrder
<1>3. Len(queue) \in Nat /\ MaxQueue \in Nat /\ room \in Int
  BY <1>1, WorkerAssumption DEF TypeOK
<1>4. UNCHANGED <<intent, paid>> /\ pc[d] = "publish"
  BY DEF Webhook!Publish, Webhook!rowVars
<1>5. \/ /\ Len(m) <= room
         /\ queue' = queue \o m
         /\ announced' = [announced EXCEPT ![o] = IF Webhook!NewPay(d) = Webhook!CAPTURED
                                                  THEN announced[o] + 1 ELSE announced[o]]
      \/ /\ Len(m) > room
         /\ queue' = queue \o SubSeq(m, 1, room)
         /\ announced' = announced
  BY DEF Webhook!Publish
<1>6. "order.paid" \in Topics /\ "order.pending_payment" \in Topics
      /\ IntentTopic \notin {"order.paid", "order.pending_payment"}
  BY DEF Topics, IntentTopic
<1>7. /\ queue \in Seq(Topics \X Orders)
      /\ <<"order.paid", o>> \in Topics \X Orders
      /\ <<"order.pending_payment", o>> \in Topics \X Orders
      /\ <<IntentTopic, o>> \in Topics \X Orders
  BY <1>1, <1>2, <1>6 DEF TypeOK, Topics
<1>8. CASE Webhook!NewPay(d) = Webhook!CAPTURED
  <2>1. m = <<<<"order.paid", o>>, <<IntentTopic, o>>>>
    BY <1>8 DEF Webhook!Messages, IntentTopic, Webhook!IntentTopic
  <2>2. intent[o] # "none" /\ announced[o] = 0
    BY <1>1, <1>2, <1>4, <1>8
       DEF Webhook!OneAnnouncer, Webhook!Announcing, Webhook!ConfirmedIffCaptured
  <2>3. Len(m) = 2
    BY <2>1
  <2> HIDE DEF o, m, room
  <2>4. CASE 2 <= room
    <3>1. /\ queue' = queue \o m
          /\ announced' = [announced EXCEPT ![o] = announced[o] + 1]
      BY <1>3, <1>5, <1>8, <2>3, <2>4
    <3>2. Len(queue) + 2 <= MaxQueue
      BY <1>3, <2>4 DEF room
    <3>3. Announce(o)
      BY <1>4, <2>1, <2>2, <3>1, <3>2 DEF Announce, workerOnly
    <3> QED BY <1>2, <3>3 DEF Next, Produce
  <2>5. CASE room = 1
    <3>1. queue' = Append(queue, <<"order.paid", o>>) /\ announced' = announced
      BY <1>5, <1>7, <2>1, <2>3, <2>5, QueuePlus
    <3>2. Len(queue) < MaxQueue
      BY <1>3, <2>5 DEF room
    <3>3. Notify(o, "order.paid")
      BY <1>4, <1>6, <2>2, <3>1, <3>2 DEF Notify, workerOnly
    <3> QED BY <1>2, <1>6, <3>3 DEF Next, Produce
  <2>6. CASE room < 1
    <3>1. queue \o SubSeq(m, 1, room) = queue
      BY <1>3, <1>7, <2>1, <2>6, QueuePlus
    <3>2. queue' = queue /\ announced' = announced
      BY <1>3, <1>5, <2>3, <2>6, <3>1
    <3> QED BY <1>4, <3>2 DEF vars, workerOnly
  <2> QED BY <1>3, <2>4, <2>5, <2>6
<1>9. CASE Webhook!NewPay(d) # Webhook!CAPTURED
  <2>1. m = <<<<"order.pending_payment", o>>>>
    BY <1>9 DEF Webhook!Messages
  <2>2. Len(m) = 1
    BY <2>1
  <2> HIDE DEF o, m, room
  <2>3. CASE 1 <= room
    <3>1. queue' = Append(queue, <<"order.pending_payment", o>>)
      BY <1>3, <1>5, <1>7, <2>1, <2>2, <2>3, QueuePlus
    <3>2. announced' = announced
      BY <1>1, <1>3, <1>5, <1>9, <2>2, <2>3 DEF TypeOK
    <3>3. Len(queue) < MaxQueue
      BY <1>3, <2>3 DEF room
    <3>4. Notify(o, "order.pending_payment")
      BY <1>4, <1>6, <3>1, <3>2, <3>3 DEF Notify, workerOnly
    <3> QED BY <1>2, <1>6, <3>4 DEF Next, Produce
  <2>4. CASE room < 1
    <3>1. queue \o SubSeq(m, 1, room) = queue
      BY <1>3, <1>7, <2>1, <2>4, QueuePlus
    <3>2. queue' = queue /\ announced' = announced
      BY <1>3, <1>5, <2>2, <2>4, <3>1
    <3> QED BY <1>4, <3>2 DEF vars, workerOnly
  <2> QED BY <1>3, <2>3, <2>4
<1> QED BY <1>8, <1>9

\* The webhook handler does to the rows and the queue what CommitWorker
\* expects of its producer.
LEMMA HandleIsProduce ==
    ASSUME PipelineInv, Handle
    PROVE  [Next]_vars
<1>1. Webhook!Handle /\ UNCHANGED workerOnly
  BY DEF Handle
<1>2. ASSUME UNCHANGED <<intent, paid, queue, announced>>
      PROVE  [Next]_vars
  BY <1>1, <1>2 DEF vars, workerOnly
<1>3. ASSUME NEW o \in Orders, Webhook!Accept(o)
      PROVE  [Next]_vars
  BY <1>2, <1>3 DEF Webhook!Accept, Webhook!pubVars
<1>4. ASSUME NEW d \in Deliveries,
             \/ Webhook!Refuse(d) \/ Webhook!Arrive(d) \/ Webhook!FindPayment(d)
             \/ Webhook!Receive(d) \/ Webhook!UpdatePayment(d) \/ Webhook!Fail(d)
      PROVE  [Next]_vars
  BY <1>2, <1>4 DEF Webhook!Refuse, Webhook!Arrive, Webhook!FindPayment, Webhook!Receive,
     Webhook!UpdatePayment, Webhook!Fail, Webhook!pubVars, Webhook!rowVars
<1>5. ASSUME NEW d \in Deliveries, Webhook!Commit(d) \/ Webhook!Publish(d)
      PROVE  [Next]_vars
  BY <1>1, <1>5, CommitIsCreate, PublishIsAnnounce
<1> QED BY <1>1, <1>3, <1>4, <1>5 DEF Webhook!Handle, Webhook!Step
\* A step that moves no message, frees no order, and removes no intent.
LEMMA IntentsKept ==
    ASSUME IntentsExist, UNCHANGED <<queue, applied>>,
           \A o \in DOMAIN intent : intent[o] # "none" => intent'[o] # "none",
           \A w \in Workers : wpc'[w] # "idle" => wpc[w] # "idle" /\ job'[w] = job[w],
           TypeOK, BusyHasJob
    PROVE  IntentsExist'
<1>1. ASSUME NEW i \in 1..Len(queue)
      PROVE  queue[i][2] \in DOMAIN intent
  BY DEF TypeOK
<1>2. \A i \in 1..Len(queue') :
         queue'[i][1] # "order.pending_payment" => intent'[queue'[i][2]] # "none"
  BY <1>1 DEF IntentsExist
<1>3. \A w \in Workers : wpc'[w] # "idle" => intent'[job'[w]] # "none"
  BY DEF IntentsExist, BusyHasJob, TypeOK
<1>4. \A o \in applied' : intent'[o] # "none"
  BY DEF IntentsExist, TypeOK
<1> QED BY <1>2, <1>3, <1>4 DEF IntentsExist

\* Messages about a paid order follow its commit intent, and no worker removes
\* an intent.
LEMMA IntentsStep ==
    ASSUME WorkerInv, IntentsExist, [Next]_vars
    PROVE  IntentsExist'
<1>1. TypeOK /\ BusyHasJob
  BY DEF WorkerInv
<1>2. ASSUME NEW o \in Orders, CreateIntent(o)
      PROVE  IntentsExist'
  <2>1. \A c \in DOMAIN intent : intent[c] # "none" => intent'[c] # "none"
    BY <1>1, <1>2 DEF CreateIntent, TypeOK
  <2> QED BY <1>1, <1>2, <2>1, IntentsKept DEF CreateIntent, wVars
<1>3. ASSUME NEW o \in Orders, NEW topic \in Topics, Announce(o) \/ Notify(o, topic)
      PROVE  IntentsExist'
  <2>1. UNCHANGED <<intent, applied, wpc, job>>
    BY <1>3 DEF Announce, Notify, wVars
  <2>2. queue \in Seq(Topics \X Orders) /\ Len(queue) \in Nat
    BY <1>1 DEF TypeOK
  <2>3. ASSUME NEW i \in 1..Len(queue')
        PROVE  queue'[i][1] # "order.pending_payment" => intent[queue'[i][2]] # "none"
    <3>1. CASE Announce(o)
      <4>1. /\ Len(queue') = Len(queue) + 2
            /\ \A j \in 1..Len(queue) : queue'[j] = queue[j]
            /\ queue'[Len(queue) + 1] = <<"order.paid", o>>
            /\ queue'[Len(queue) + 2] = <<IntentTopic, o>>
        BY <2>2, <3>1 DEF Announce
      <4>2. i \in 1..Len(queue) \/ i = Len(queue) + 1 \/ i = Len(queue) + 2
        BY <2>2, <4>1
      <4>3. intent[o] # "none"
        BY <3>1 DEF Announce
      <4> QED BY <4>1, <4>2, <4>3 DEF IntentsExist
    <3>2. CASE Notify(o, topic)
      <4>1. /\ Len(queue') = Len(queue) + 1
            /\ \A j \in 1..Len(queue) : queue'[j] = queue[j]
            /\ queue'[Len(queue) + 1] = <<topic, o>>
        BY <2>2, <3>2 DEF Notify
      <4>2. i \in 1..Len(queue) \/ i = Len(queue) + 1
        BY <2>2, <4>1
      <4>3. topic = "order.pending_payment" \/ intent[o] # "none"
        BY <3>2 DEF Notify, Topics
      <4> QED BY <4>1, <4>2, <4>3 DEF IntentsExist
    <3> QED BY <1>3, <3>1, <3>2
  <2> QED BY <2>1, <2>3 DEF IntentsExist
<1>4. ASSUME NEW w \in Workers, Take(w)
      PROVE  IntentsExist'
  <2>1. /\ queue \in Seq(Topics \X Orders) /\ Len(queue) \in Nat \ {0}
        /\ Len(queue') = Len(queue) - 1
        /\ \A i \in 1..(Len(queue) - 1) : queue'[i] = queue[i + 1]
        /\ Head(queue) = queue[1]
    BY <1>1, <1>4 DEF Take, TypeOK
  <2>2. UNCHANGED <<intent, applied>>
    BY <1>4 DEF Take
  <2>3. \A i \in 1..Len(queue') : i + 1 \in 1..Len(queue)
    BY <2>1
  <2>4. \A i \in 1..Len(queue') :
           queue'[i][1] # "order.pending_payment" => intent[queue'[i][2]] # "none"
    BY <2>1, <2>3 DEF IntentsExist
  <2>5. queue[1][1] # "order.pending_payment" => intent[queue[1][2]] # "none"
    <3>1. 1 \in 1..Len(queue)
      BY <2>1
    <3> QED BY <3>1 DEF IntentsExist
  <2>6. \/ UNCHANGED <<wpc, job>>
        \/ /\ queue[1][1] # "order.pending_payment"
           /\ job' = [job EXCEPT ![w] = queue[1][2]]
           /\ \E l : wpc' = [wpc EXCEPT ![w] = l]
    BY <1>4, <2>1 DEF Take, Goto, wVars, IntentTopic
  <2>7. \A v \in Workers : wpc'[v] # "idle" => intent[job'[v]] # "none"
    BY <1>1, <2>5, <2>6 DEF IntentsExist, TypeOK
  <2> QED BY <2>2, <2>4, <2>7 DEF IntentsExist
<1>5. ASSUME NEW w \in Workers,
             CompleteOutbox(w) \/ Claim(w) \/ RollBack(w) \/ Recover(w)
      PROVE  IntentsExist'
  <2>1. UNCHANGED <<queue, applied>>
    BY <1>5 DEF CompleteOutbox, Claim, RollBack, Recover
  <2>2. \A o \in DOMAIN intent : intent[o] # "none" => intent'[o] # "none"
    BY <1>1, <1>5 DEF CompleteOutbox, Claim, RollBack, Recover, StatusAfterFailure, TypeOK
  <2>3. \A v \in Workers : wpc'[v] # "idle" => wpc[v] # "idle" /\ job'[v] = job[v]
    BY <1>1, <1>5 DEF CompleteOutbox, Claim, RollBack, Recover, Goto, Rest, TypeOK
  <2> QED BY <1>1, <2>1, <2>2, <2>3, IntentsKept
<1>6. ASSUME NEW w \in Workers, CommitWork(w) \/ CommitUnknown(w)
      PROVE  IntentsExist'
  <2> DEFINE o == job[w]
  <2>1. /\ UNCHANGED queue /\ wpc[w] = "work"
        /\ applied' = applied \cup {o} /\ intent' = [intent EXCEPT ![o] = "DONE"]
        /\ \E l \in {"idle", "recover"}, c \in {NoOrder, o} :
              /\ l = "recover" => c = o
              /\ wpc' = [wpc EXCEPT ![w] = l] /\ job' = [job EXCEPT ![w] = c]
    BY <1>6 DEF CommitWork, CommitUnknown, TakeStock, Goto, Rest
  <2>2. o \in Orders
    BY <1>1, <2>1 DEF BusyHasJob
  <2> HIDE DEF o
  <2>3. \A c \in Orders : intent[c] # "none" => intent'[c] # "none"
    BY <1>1, <2>1 DEF TypeOK
  <2>4. \A i \in 1..Len(queue) : queue[i][2] \in Orders
    BY <1>1 DEF TypeOK
  <2>5. \A i \in 1..Len(queue') :
           queue'[i][1] # "order.pending_payment" => intent'[queue'[i][2]] # "none"
    BY <2>1, <2>3, <2>4 DEF IntentsExist
  <2>6. \A v \in Workers : wpc'[v] # "idle" => wpc[v] # "idle" /\ job'[v] = job[v]
    BY <1>1, <2>1 DEF TypeOK, o
  <2>7. \A v \in Workers : wpc'[v] # "idle" => intent'[job'[v]] # "none"
    BY <1>1, <2>3, <2>6 DEF IntentsExist, BusyHasJob
  <2>8. \A c \in applied' : intent'[c] # "none"
    BY <1>1, <2>1, <2>2, <2>3 DEF IntentsExist, TypeOK
  <2> QED BY <2>5, <2>7, <2>8 DEF IntentsExist
<1>7. ASSUME \/ \E p \in Products, n \in 0..MaxStock : Restock(p, n)
             \/ \E w \in Workers, p \in Products : LockItem(w, p)
             \/ UNCHANGED vars
      PROVE  IntentsExist'
  BY <1>7 DEF Restock, LockItem, vars, wVars, IntentsExist
<1>8. CASE Crash
  BY <1>1, <1>8 DEF Crash, IntentsExist, TypeOK
<1>9. IntentTopic \in Topics
  BY DEF Topics
<1>10. ASSUME NEW o \in Orders, Announce(o)
       PROVE  IntentsExist'
  BY <1>3, <1>9, <1>10
<1> QED BY <1>2, <1>3, <1>4, <1>5, <1>6, <1>7, <1>8, <1>10, NextCases

-----------------------------------------------------------------------------
(* The theorems about the pipeline.                                        *)

\* Every step of the pipeline is a step of the workers' specification and of
\* the webhook handler's, or changes nothing of theirs.
LEMMA PipelineSteps ==
    ASSUME PipelineInv, [PipelineNext]_pipelineVars
    PROVE  [Next]_vars /\ [Webhook!Next]_(Webhook!vars)
<1>1. CASE Handle
  <2>1. [Webhook!Next]_(Webhook!vars)
    BY <1>1 DEF Handle, Webhook!Next
  <2> QED BY <1>1, <2>1, HandleIsProduce
<1>2. ASSUME NEW w \in Workers, RunWorker(w)
      PROVE  [Next]_vars /\ [Webhook!Next]_(Webhook!vars)
  <2>1. [Next]_vars
    BY <1>2 DEF RunWorker, Next
  <2> QED BY <1>2, <2>1, WorkIsConsume
<1>3. ASSUME NEW p \in Products, NEW n \in 0..MaxStock, UpdateProduct(p, n)
      PROVE  [Next]_vars /\ [Webhook!Next]_(Webhook!vars)
  <2>1. [Next]_vars
    BY <1>3 DEF UpdateProduct, Next
  <2>2. UNCHANGED Webhook!vars
    BY <1>3 DEF UpdateProduct, Restock, webhookOnly,
       Webhook!vars, Webhook!rowVars, Webhook!pubVars
  <2> QED BY <2>1, <2>2
<1>4. CASE Stop
  BY <1>4 DEF Stop, Next, Webhook!Next
<1>5. CASE UNCHANGED pipelineVars
  <2>1. UNCHANGED vars /\ UNCHANGED Webhook!vars
    BY <1>5 DEF pipelineVars, webhookOnly, vars,
       Webhook!vars, Webhook!rowVars, Webhook!pubVars
  <2> QED BY <2>1
<1> QED BY <1>1, <1>2, <1>3, <1>4, <1>5 DEF PipelineNext

\* Webhook handler and workers keep their invariants together.
THEOREM PipelineInvariant == PipelineSpec => []PipelineInv
<1>1. PipelineInit => PipelineInv
  <2> SUFFICES ASSUME PipelineInit
               PROVE  PipelineInv
    OBVIOUS
  <2>1. IntentsExist
    BY DEF PipelineInit, Init, IntentsExist
  <2> QED BY <2>1, InvInit, WebhookKept DEF PipelineInit, PipelineInv
<1>2. PipelineInv /\ [PipelineNext]_pipelineVars => PipelineInv'
  <2> SUFFICES ASSUME PipelineInv, [PipelineNext]_pipelineVars
               PROVE  PipelineInv'
    OBVIOUS
  <2>1. WorkerInv /\ IntentsExist /\ Webhook!WebhookInv
    BY DEF PipelineInv
  <2>2. WorkerInv' /\ IntentsExist'
    BY <2>1, PipelineSteps, InvStep, IntentsStep
  <2>3. Webhook!WebhookInv'
    BY <2>1, PipelineSteps, WebhookKept
  <2> QED BY <2>2, <2>3 DEF PipelineInv
<1> QED BY <1>1, <1>2, PTL DEF PipelineSpec

\* razorpay_webhook is a producer as CommitWorker assumes one: it creates an
\* intent once and announces it at most once, after the commit.  So what is
\* proved of the workers alone holds of them behind the webhook.
THEOREM PipelineImplementsWorker == PipelineSpec => ImplementsWorker
<1>1. PipelineInit => Init
  BY DEF PipelineInit
<1>2. PipelineInv /\ [PipelineNext]_pipelineVars => [Next]_vars
  BY PipelineSteps
<1> QED BY <1>1, <1>2, PipelineInvariant, PTL DEF PipelineSpec, ImplementsWorker, Spec

\* The workers are consumers as PaymentWebhook assumes them: they take messages
\* and never remove a commit intent or an order.paid event.
THEOREM PipelineImplementsWebhook == PipelineSpec => ImplementsWebhook
<1>1. PipelineInit => Webhook!Init
  BY DEF PipelineInit
<1>2. PipelineInv /\ [PipelineNext]_pipelineVars => [Webhook!Next]_(Webhook!vars)
  BY PipelineSteps
<1> QED BY <1>1, <1>2, PipelineInvariant, PTL
    DEF PipelineSpec, ImplementsWebhook, Webhook!Spec

\* The commit-intent handler takes stock only for orders whose payment the
\* webhook has captured, and for each at most once.
THEOREM StockLeavesForPaidOrders == PipelineSpec => []StockOnlyForPaid
<1>1. PipelineInv => StockOnlyForPaid
  <2> SUFFICES ASSUME PipelineInv
               PROVE  StockOnlyForPaid
    OBVIOUS
  <2>1. applied \subseteq Orders /\ StockConserved /\ Webhook!ConfirmedIffCaptured
    BY DEF PipelineInv, WorkerInv, TypeOK, Webhook!WebhookInv
  <2>2. \A o \in applied : intent[o] # "none"
    BY DEF PipelineInv, IntentsExist
  <2> QED BY <2>1, <2>2 DEF StockOnlyForPaid, Webhook!ConfirmedIffCaptured
<1> QED BY <1>1, PipelineInvariant, PTL
=============================================================================
