--------------------------- MODULE WebhookProofs ---------------------------
(***************************************************************************)
(* The webhook handler keeps payment, order, outbox event and commit       *)
(* intent together and announces an intent at most once, for every number  *)
(* of orders, events and concurrent deliveries and every queue size.       *)
(***************************************************************************)
EXTENDS PaymentWebhook, SequenceTheorems, TLAPS

-----------------------------------------------------------------------------
(* Facts about the operators.                                              *)

\* pay_order_status_util returns statuses of the two enumerations, and
\* confirms an order exactly when it captures the payment.
LEMMA StatusTypes ==
    ASSUME NEW d
    PROVE  /\ NewPay(d) \in {PENDING, AUTHORIZED, FAILED, CAPTURED}
           /\ NewOrder(d) \in OrderStatus
           /\ NewPay(d) = CAPTURED <=> NewOrder(d) = "CONFIRMED"
<1>. DEFINE s == event[ev[d]].says[1]
            n == event[ev[d]].says[2]
<1>1. /\ NewPayStatus(s, n) \in {PENDING, AUTHORIZED, FAILED, CAPTURED}
      /\ NewOrderStatus(s, n) \in OrderStatus
      /\ NewPayStatus(s, n) = CAPTURED <=> NewOrderStatus(s, n) = "CONFIRMED"
  <2>. HIDE DEF s, n
  <2>1. CASE ~Settled(s)
    BY <2>1 DEF NewPayStatus, NewOrderStatus, OrderStatus, PENDING, AUTHORIZED,
         FAILED, CAPTURED
  <2>2. CASE Settled(s) /\ n = "payment.authorized"
    BY <2>2 DEF NewPayStatus, NewOrderStatus, OrderStatus, PENDING, AUTHORIZED,
         FAILED, CAPTURED
  <2>3. CASE Settled(s) /\ n \in {"payment.captured", "order.paid"}
    BY <2>3 DEF NewPayStatus, NewOrderStatus, OrderStatus, PENDING, AUTHORIZED,
         FAILED, CAPTURED
  <2>4. CASE Settled(s) /\ n \notin {"payment.authorized", "payment.captured",
                                     "order.paid"}
    BY <2>4 DEF NewPayStatus, NewOrderStatus, OrderStatus, PENDING, AUTHORIZED,
         FAILED, CAPTURED
  <2>. QED  BY <2>1, <2>2, <2>3, <2>4
<1>. QED  BY <1>1 DEF NewPay, NewOrder

\* The PSP's events do not change, so neither does what a delivery is about.
LEMMA EventsFixed ==
    ASSUME [Next]_vars
    PROVE  /\ event' = event /\ ev' = ev
           /\ \A d : OrderOf(d)' = OrderOf(d) /\ NewPay(d)' = NewPay(d)
<1>1. event' = event /\ ev' = ev
  BY DEF Next, Handle, Consume, Step, Accept, Refuse, Arrive, FindPayment,
         Receive, UpdatePayment, Commit, UpdateOrderStatus, MarkWebhookProcessed,
         Publish, Fail, Crash, Take,
         SettleIntent, SettlePaid, vars
<1>. QED  BY <1>1 DEF OrderOf, NewPay

\* A delivery is about an order and an event that exist.
LEMMA AboutOrder ==
    ASSUME TypeOK, NEW d \in Deliveries
    PROVE  OrderOf(d) \in Orders /\ ev[d] \in Events
BY DEF TypeOK, OrderOf

\* Every step is one of the actions below, or changes nothing.
LEMMA NextCases ==
    ASSUME [Next]_vars
    PROVE  \/ \E o \in Orders : Accept(o)
           \/ \E d \in Deliveries : Refuse(d) \/ Arrive(d) \/ FindPayment(d)
           \/ \E d \in Deliveries : Receive(d)
           \/ \E d \in Deliveries : UpdatePayment(d) \/ Fail(d)
           \/ \E d \in Deliveries : Commit(d)
           \/ \E d \in Deliveries : Publish(d)
           \/ Crash
           \/ Take
           \/ \E o \in Orders : SettlePaid(o)
           \/ \E o \in Orders, s \in CommitIntentStatus : SettleIntent(o, s)
           \/ UNCHANGED vars
BY DEF Next, Handle, Step, Consume

-----------------------------------------------------------------------------
(* Type correctness.                                                       *)

\* The messages of a delivery, all of them or the ones there was room for.
LEMMA MessagesType ==
    ASSUME TypeOK, NEW d \in Deliveries, NEW n \in Int
    PROVE  /\ Messages(d) \in Seq(Topics \X Orders)
           /\ n < Len(Messages(d)) =>
                 SubSeq(Messages(d), 1, n) \in Seq(Topics \X Orders)
<1>1. OrderOf(d) \in Orders
  BY AboutOrder
<1>2. Messages(d) \in Seq(Topics \X Orders)
  <2>. DEFINE o == OrderOf(d)
              T == Topics \X Orders
  <2>1. /\ <<"order.paid", o>> \in T
        /\ <<IntentTopic, o>> \in T
        /\ <<"order.pending_payment", o>> \in T
    BY <1>1 DEF Topics
  <2>2. /\ <<<<"order.paid", o>>, <<IntentTopic, o>>>> \in Seq(T)
        /\ <<<<"order.pending_payment", o>>>> \in Seq(T)
    <3>. HIDE DEF T
    <3>. QED  BY <2>1
  <2>. QED  BY <2>2 DEF Messages
<1>3. ASSUME n < Len(Messages(d))
      PROVE  SubSeq(Messages(d), 1, n) \in Seq(Topics \X Orders)
  <2>1. \A i \in 1..n : Messages(d)[i] \in Topics \X Orders
    BY <1>2, <1>3
  <2>. QED  BY <2>1, SubSeqProperties
<1>. QED  BY <1>2, <1>3

\* The end of a transaction keeps the types of the locks.
LEMMA EndTxnType ==
    ASSUME TypeOK, NEW d \in Deliveries, EndTxn(d)
    PROVE  /\ inserting' \in [Events -> Deliveries \cup {NoDelivery}]
           /\ payLock' \in [Orders -> Deliveries \cup {NoDelivery}]
BY DEF TypeOK, EndTxn

\* No step leaves the types.
LEMMA TypeStep ==
    ASSUME TypeOK, [Next]_vars
    PROVE  TypeOK'
<1>. USE WebhookAssumption DEF rowVars, pubVars
<1>1. ASSUME NEW o \in Orders, Accept(o) PROVE TypeOK'
  BY <1>1 DEF Accept, TypeOK, PaymentStatus
<1>2. ASSUME NEW d \in Deliveries, Refuse(d) \/ Arrive(d) \/ FindPayment(d)
      PROVE  TypeOK'
  BY <1>2 DEF Refuse, Arrive, FindPayment, Finish, Goto, TypeOK, Outcomes
<1>3. ASSUME NEW d \in Deliveries, Receive(d) PROVE TypeOK'
  <2>1. /\ pc' \in [Deliveries -> {"idle", "find", "receive", "update",
                                   "commit", "publish", "done"}]
        /\ outcome' \in [Deliveries -> Outcomes]
    BY <1>3 DEF Receive, Finish, Goto, TypeOK, Outcomes
  <2>2. inserting' \in [Events -> Deliveries \cup {NoDelivery}]
    BY <1>3 DEF Receive, TypeOK
  <2>3. UNCHANGED <<rowVars, payLock, pubVars, event, ev>>
    BY <1>3 DEF Receive
  <2>. QED  BY <2>1, <2>2, <2>3 DEF TypeOK
<1>4. ASSUME NEW d \in Deliveries, UpdatePayment(d) \/ Fail(d) PROVE TypeOK'
  <2>1. /\ pc' \in [Deliveries -> {"idle", "find", "receive", "update",
                                   "commit", "publish", "done"}]
        /\ outcome' \in [Deliveries -> Outcomes]
    BY <1>4 DEF UpdatePayment, Fail, Finish, Goto, TypeOK, Outcomes
  <2>2. /\ inserting' \in [Events -> Deliveries \cup {NoDelivery}]
        /\ payLock' \in [Orders -> Deliveries \cup {NoDelivery}]
    <3>1. CASE EndTxn(d)
      BY <3>1, EndTxnType
    <3>2. CASE HoldPayment(d) /\ UNCHANGED inserting
      BY <3>2 DEF HoldPayment, TypeOK
    <3>. QED  BY <1>4, <3>1, <3>2 DEF UpdatePayment, Fail
  <2>3. UNCHANGED <<rowVars, pubVars, event, ev>>
    BY <1>4 DEF UpdatePayment, Fail
  <2>. QED  BY <2>1, <2>2, <2>3 DEF TypeOK
<1>5. ASSUME NEW d \in Deliveries, Commit(d) PROVE TypeOK'
  <2>1. /\ pay' \in [Orders -> PaymentStatus]
        /\ status' \in [Orders -> OrderStatus]
    BY <1>5, StatusTypes
       DEF Commit, UpdateOrderStatus, MarkWebhookProcessed, TypeOK, PaymentStatus
  <2>2. /\ paid' \in [Orders -> OutboxStatus]
        /\ unpaid' \in [Orders -> OutboxStatus]
        /\ intent' \in [Orders -> CommitIntentStatus]
    BY <1>5
       DEF Commit, UpdateOrderStatus, MarkWebhookProcessed, TypeOK, OutboxStatus, CommitIntentStatus, InsertOnce
  <2>3. /\ inserting' \in [Events -> Deliveries \cup {NoDelivery}]
        /\ payLock' \in [Orders -> Deliveries \cup {NoDelivery}]
    BY <1>5, EndTxnType DEF Commit, UpdateOrderStatus, MarkWebhookProcessed
  <2>4. /\ row' \in [Events -> {"none", "processed"}]
        /\ pc' \in [Deliveries -> {"idle", "find", "receive", "update",
                                   "commit", "publish", "done"}]
        /\ outcome' \in [Deliveries -> Outcomes]
    BY <1>5 DEF Commit, UpdateOrderStatus, MarkWebhookProcessed, TypeOK, Goto, Finish, Outcomes
  <2>5. UNCHANGED <<queue, announced, event, ev>>
    BY <1>5 DEF Commit, UpdateOrderStatus, MarkWebhookProcessed
  <2>. QED  BY <2>1, <2>2, <2>3, <2>4, <2>5 DEF TypeOK
<1>6. ASSUME NEW d \in Deliveries, Publish(d) PROVE TypeOK'
  <2>. DEFINE room == MaxQueue - Len(queue)
  <2>1. room \in Int
    BY DEF TypeOK
  <2>2. queue' \in Seq(Topics \X Orders)
    <3>1. queue \in Seq(Topics \X Orders)
      BY DEF TypeOK
    <3>2. CASE queue' = queue \o Messages(d)
      BY <3>1, <3>2, <2>1, MessagesType, ConcatProperties
    <3>3. CASE /\ queue' = queue \o SubSeq(Messages(d), 1, room)
               /\ Len(Messages(d)) > room
      <4>1. SubSeq(Messages(d), 1, room) \in Seq(Topics \X Orders)
        <5>1. Len(Messages(d)) \in Nat
          BY MessagesType, LenProperties, <2>1
        <5>. QED  BY <3>3, <5>1, <2>1, MessagesType
      <4>. QED  BY <3>1, <3>3, <4>1, ConcatProperties
    <3>. QED  BY <1>6, <3>2, <3>3 DEF Publish
  <2>3. announced' \in [Orders -> Nat]
    <3>1. announced \in [Orders -> Nat]
      BY DEF TypeOK
    <3>2. \/ announced' = announced
          \/ announced' = [announced EXCEPT ![OrderOf(d)] =
                             IF NewPay(d) = CAPTURED THEN @ + 1 ELSE @]
      BY <1>6 DEF Publish
    <3>. QED  BY <3>1, <3>2
  <2>4. /\ pc' \in [Deliveries -> {"idle", "find", "receive", "update",
                                   "commit", "publish", "done"}]
        /\ outcome' \in [Deliveries -> Outcomes]
    BY <1>6 DEF Publish, TypeOK, Finish, Outcomes
  <2>5. UNCHANGED <<rowVars, inserting, payLock, event, ev>>
    BY <1>6 DEF Publish
  <2>. QED  BY <2>2, <2>3, <2>4, <2>5 DEF TypeOK
<1>7. CASE Crash
  BY <1>7 DEF Crash, TypeOK, Outcomes
<1>8. CASE Take
  <2>1. queue' \in Seq(Topics \X Orders)
    BY <1>8, HeadTailProperties DEF Take, TypeOK
  <2>. QED  BY <1>8, <2>1 DEF Take, TypeOK
<1>9. ASSUME NEW o \in Orders, SettlePaid(o) PROVE TypeOK'
  BY <1>9 DEF SettlePaid, TypeOK, OutboxStatus
<1>10. ASSUME NEW o \in Orders, NEW s \in CommitIntentStatus, SettleIntent(o, s)
       PROVE  TypeOK'
  BY <1>10 DEF SettleIntent, TypeOK
<1>11. CASE UNCHANGED vars
  BY <1>11 DEF vars, TypeOK
<1>. QED  BY <1>1, <1>2, <1>3, <1>4, <1>5, <1>6, <1>7, <1>8, <1>9, <1>10,
             <1>11, NextCases

-----------------------------------------------------------------------------
(* What a delivery has read stays true while it holds its rows.            *)

RowInv == HoldsItsRows /\ PaymentFound /\ ComparisonStillHolds

\* A delivery that stays where it is keeps its rows and what it found,
\* unless the tables change.
LEMMA RowsKept ==
    ASSUME TypeOK, RowInv, [Next]_vars, UNCHANGED <<pay, row>>,
           NEW d \in Deliveries,
           \A c \in Deliveries \ {d} : pc'[c] = pc[c],
           \A c \in Deliveries \ {d} :
              /\ \A e \in Events : inserting[e] = c => inserting'[e] = c
              /\ \A o \in Orders : payLock[o] = c => payLock'[o] = c,
           pc'[d] \notin {"receive", "update", "commit", "publish"}
    PROVE  RowInv'
<1>. USE EventsFixed, AboutOrder DEF RowInv
<1>1. HoldsItsRows'
  BY DEF HoldsItsRows
<1>2. PaymentFound'
  BY DEF PaymentFound
<1>3. ComparisonStillHolds'
  BY DEF ComparisonStillHolds
<1>. QED  BY <1>1, <1>2, <1>3

\* Every step keeps the locks of the other deliveries and what they compared:
\* the rows they read are held, and only their holder commits them.
LEMMA RowsStep ==
    ASSUME TypeOK, RowInv, [Next]_vars
    PROVE  RowInv'
<1>. USE WebhookAssumption, EventsFixed, AboutOrder
<1>1. CASE UNCHANGED <<pay, row, inserting, payLock, pc>>
  BY <1>1 DEF RowInv, HoldsItsRows, PaymentFound, ComparisonStillHolds
<1>2. ASSUME NEW o \in Orders, Accept(o) PROVE RowInv'
  <2>1. \A d \in Deliveries : pc[d] \in {"receive", "update", "commit", "publish"}
                                 => OrderOf(d) # o
    BY <1>2 DEF Accept, RowInv, PaymentFound
  <2>2. UNCHANGED <<row, inserting, payLock, pc>>
    BY <1>2 DEF Accept
  <2>3. \A c \in Orders : c # o => pay'[c] = pay[c]
    BY <1>2 DEF Accept, TypeOK
  <2>. QED  BY <2>1, <2>2, <2>3
            DEF RowInv, HoldsItsRows, PaymentFound, ComparisonStillHolds
<1>3. ASSUME NEW d \in Deliveries, Refuse(d) \/ Arrive(d) \/ FindPayment(d)
      PROVE  RowInv'
  <2>1. UNCHANGED <<pay, row, inserting, payLock>>
    BY <1>3 DEF Refuse, Arrive, FindPayment, rowVars
  <2>2. \A c \in Deliveries \ {d} : pc'[c] = pc[c]
    BY <1>3 DEF Refuse, Arrive, FindPayment, Finish, Goto, TypeOK
  <2>3. \/ pc'[d] \notin {"receive", "update", "commit", "publish"}
        \/ pc'[d] = "receive" /\ pay[OrderOf(d)] # PENDING
    BY <1>3 DEF Refuse, Arrive, FindPayment, Finish, Goto, TypeOK
  <2>. QED  BY <2>1, <2>2, <2>3
            DEF RowInv, HoldsItsRows, PaymentFound, ComparisonStillHolds
<1>4. ASSUME NEW d \in Deliveries, Receive(d) PROVE RowInv'
  <2>1. UNCHANGED <<pay, row, payLock>>
    BY <1>4 DEF Receive, rowVars
  <2>2. \A c \in Deliveries \ {d} : pc'[c] = pc[c]
    BY <1>4 DEF Receive, Finish, Goto, TypeOK
  <2>3. \A e \in Events : inserting[e] # NoDelivery => inserting'[e] = inserting[e]
    BY <1>4 DEF Receive, TypeOK
  <2>4. \/ pc'[d] = "done"
        \/ /\ pc'[d] = "update" /\ pc[d] = "receive"
           /\ inserting'[ev[d]] = d /\ row[ev[d]] = "none"
    BY <1>4 DEF Receive, Finish, Goto, TypeOK
  <2>. QED  BY <2>1, <2>2, <2>3, <2>4
            DEF RowInv, HoldsItsRows, PaymentFound, ComparisonStillHolds
<1>5. ASSUME NEW d \in Deliveries, UpdatePayment(d) \/ Fail(d) PROVE RowInv'
  <2>1. UNCHANGED <<pay, row>>
    BY <1>5 DEF UpdatePayment, Fail, rowVars
  <2>2. \A c \in Deliveries \ {d} : pc'[c] = pc[c]
    BY <1>5 DEF UpdatePayment, Fail, Finish, Goto, TypeOK
  <2>3. CASE EndTxn(d) /\ pc'[d] = "done"
    <3>1. \A c \in Deliveries \ {d} :
              /\ \A e \in Events : inserting[e] = c => inserting'[e] = c
              /\ \A o \in Orders : payLock[o] = c => payLock'[o] = c
      BY <2>3 DEF EndTxn
    <3>. QED  BY <2>1, <2>2, <2>3, <3>1, RowsKept
  <2>4. CASE UpdatePayment(d) /\ Behind(d)
    <3>1. inserting' = inserting /\ pc[d] = "update" /\ pc'[d] = "commit"
      BY <2>4 DEF UpdatePayment, Goto, TypeOK
    <3>2. /\ payLock'[OrderOf(d)] = d
          /\ \A o \in Orders : payLock[o] # NoDelivery => payLock'[o] = payLock[o]
      BY <2>4 DEF UpdatePayment, HoldPayment, TypeOK
    <3>3. pay[OrderOf(d)] < NewPay(d)
      BY <2>4 DEF Behind
    <3>. QED  BY <2>1, <2>2, <3>1, <3>2, <3>3
              DEF RowInv, HoldsItsRows, PaymentFound, ComparisonStillHolds
  <2>. QED  BY <1>5, <2>3, <2>4 DEF UpdatePayment, Fail, Finish, TypeOK
<1>6. ASSUME NEW d \in Deliveries, Commit(d) PROVE RowInv'
  <2>1. /\ pc[d] = "commit"
        /\ payLock[OrderOf(d)] = d /\ inserting[ev[d]] = d
        /\ pay[OrderOf(d)] < NewPay(d)
    BY <1>6
       DEF Commit, UpdateOrderStatus, MarkWebhookProcessed, RowInv, HoldsItsRows, ComparisonStillHolds
  <2>2. \A c \in Deliveries \ {d} :
           /\ pc'[c] = pc[c]
           /\ pc[c] \in {"update", "commit"} => ev[c] # ev[d]
           /\ pc[c] = "commit" => OrderOf(c) # OrderOf(d)
    BY <1>6, <2>1
       DEF Commit, UpdateOrderStatus, MarkWebhookProcessed, Goto, Finish, TypeOK, RowInv, HoldsItsRows
  <2>3. /\ \A o \in Orders \ {OrderOf(d)} : pay'[o] = pay[o]
        /\ \A e \in Events \ {ev[d]} : row'[e] = row[e]
        /\ pay'[OrderOf(d)] = NewPay(d)
    BY <1>6 DEF Commit, UpdateOrderStatus, MarkWebhookProcessed, TypeOK
  <2>4. pay'[OrderOf(d)] # PENDING
    <3>1. pay[OrderOf(d)] \in PaymentStatus
      BY DEF TypeOK
    <3>. QED  BY <2>1, <2>3, <3>1
              DEF PaymentStatus, PENDING, ACCEPTED, AUTHORIZED, FAILED, CAPTURED
  <2>5. \A c \in Deliveries \ {d} :
              /\ \A e \in Events : inserting[e] = c => inserting'[e] = c
              /\ \A o \in Orders : payLock[o] = c => payLock'[o] = c
    BY <1>6 DEF Commit, UpdateOrderStatus, MarkWebhookProcessed, EndTxn
  <2>6. pc'[d] \in {"publish", "done"}
    BY <1>6 DEF Commit, UpdateOrderStatus, MarkWebhookProcessed, Goto, Finish, TypeOK
  <2>7. HoldsItsRows'
    BY <2>2, <2>3, <2>5, <2>6 DEF RowInv, HoldsItsRows
  <2>8. PaymentFound'
    BY <2>2, <2>3, <2>4, <2>6 DEF RowInv, PaymentFound
  <2>9. ComparisonStillHolds'
    BY <2>2, <2>3, <2>6 DEF RowInv, ComparisonStillHolds
  <2>. QED  BY <2>7, <2>8, <2>9 DEF RowInv
<1>7. ASSUME NEW d \in Deliveries, Publish(d) PROVE RowInv'
  <2>1. UNCHANGED <<pay, row, inserting, payLock>>
    BY <1>7 DEF Publish, rowVars
  <2>2. pc'[d] = "done" /\ \A c \in Deliveries \ {d} : pc'[c] = pc[c]
    BY <1>7 DEF Publish, Finish, TypeOK
  <2>. QED  BY <2>1, <2>2, RowsKept
<1>8. CASE Crash
  <2>1. \A d \in Deliveries : pc'[d] \in {"idle", "done"}
    BY <1>8 DEF Crash
  <2>. QED  BY <2>1
            DEF RowInv, HoldsItsRows, PaymentFound, ComparisonStillHolds
<1>9. CASE Take \/ UNCHANGED vars
  BY <1>1, <1>9 DEF Take, vars, rowVars
<1>10. ASSUME NEW o \in Orders,
              SettlePaid(o) \/ \E s \in CommitIntentStatus : SettleIntent(o, s)
       PROVE  RowInv'
  BY <1>1, <1>10 DEF SettlePaid, SettleIntent
<1>. QED  BY <1>2, <1>3, <1>4, <1>5, <1>6, <1>7, <1>8, <1>9, <1>10, NextCases

-----------------------------------------------------------------------------
(* Payment, order, event and intent stay together; announcements.          *)

AnnounceInv == ConfirmedIffCaptured /\ AnnouncedOnce /\ OneAnnouncer

\* A step that commits nothing and announces nothing.
LEMMA NothingAnnounced ==
    ASSUME TypeOK, AnnounceInv, [Next]_vars,
           UNCHANGED <<pay, status, paid, intent, announced>>,
           \A d \in Deliveries : pc'[d] = "publish" => pc[d] = "publish"
    PROVE  AnnounceInv'
<1>1. ConfirmedIffCaptured'
  BY DEF AnnounceInv, ConfirmedIffCaptured
<1>2. AnnouncedOnce'
  BY DEF AnnounceInv, AnnouncedOnce
<1>3. OneAnnouncer'
  BY EventsFixed DEF AnnounceInv, OneAnnouncer, Announcing
<1>. QED  BY <1>1, <1>2, <1>3 DEF AnnounceInv

\* Only a commit of a captured payment creates an announcement to make, at
\* most one per order since the comparison is strict; only Publish makes it.
LEMMA AnnounceStep ==
    ASSUME TypeOK, RowInv, AnnounceInv, [Next]_vars
    PROVE  AnnounceInv'
<1>. USE EventsFixed, AboutOrder
<1>. DEFINE Same == /\ UNCHANGED <<pay, status, paid, intent, announced>>
                    /\ \A d \in Deliveries :
                          pc'[d] = "publish" => pc[d] = "publish"
<1>1. CASE Same
  BY <1>1, NothingAnnounced
<1>2. ASSUME NEW o \in Orders, Accept(o) PROVE AnnounceInv'
  <2>1. /\ UNCHANGED <<status, paid, intent, announced, pc>>
        /\ pay[o] # CAPTURED /\ pay'[o] # CAPTURED
        /\ \A c \in Orders \ {o} : pay'[c] = pay[c]
    BY <1>2 DEF Accept, pubVars, TypeOK, PENDING, ACCEPTED, CAPTURED
  <2>2. ConfirmedIffCaptured'
    BY <2>1 DEF AnnounceInv, ConfirmedIffCaptured
  <2>3. AnnouncedOnce'
    BY <2>1 DEF AnnounceInv, AnnouncedOnce
  <2>4. OneAnnouncer'
    BY <2>1 DEF AnnounceInv, OneAnnouncer, Announcing
  <2>. QED  BY <2>2, <2>3, <2>4 DEF AnnounceInv
<1>3. ASSUME NEW d \in Deliveries, Refuse(d) \/ Arrive(d) \/ FindPayment(d)
      PROVE  Same
  BY <1>3 DEF Refuse, Arrive, FindPayment, Finish, Goto, TypeOK, rowVars, pubVars
<1>4. ASSUME NEW d \in Deliveries, Receive(d) PROVE Same
  BY <1>4 DEF Receive, Finish, Goto, TypeOK, rowVars, pubVars
<1>5. ASSUME NEW d \in Deliveries, UpdatePayment(d) \/ Fail(d) PROVE Same
  BY <1>5 DEF UpdatePayment, Fail, Finish, Goto, TypeOK, rowVars, pubVars
<1>6. ASSUME NEW d \in Deliveries, Commit(d) PROVE AnnounceInv'
  <2>. DEFINE o == OrderOf(d)
  <2>1. o \in Orders /\ pay[o] < NewPay(d)
    BY <1>6 DEF Commit, UpdateOrderStatus, MarkWebhookProcessed, RowInv, ComparisonStillHolds
  <2>2. pay[o] # CAPTURED
    <3>1. pay[o] \in PaymentStatus
      BY <2>1 DEF TypeOK
    <3>. QED  BY <2>1, <3>1, StatusTypes
              DEF PaymentStatus, PENDING, ACCEPTED, AUTHORIZED, FAILED, CAPTURED
  <2>3. /\ announced' = announced /\ announced[o] = 0
        /\ \A c \in Deliveries : Announcing(c) => OrderOf(c) # o
    <3>1. announced[o] \in Nat /\ announced[o] <= 1 /\ announced[o] # 1
      BY <2>1, <2>2 DEF TypeOK, AnnounceInv, AnnouncedOnce, ConfirmedIffCaptured
    <3>2. \A c \in Deliveries : Announcing(c) => OrderOf(c) # o
      BY <2>2 DEF AnnounceInv, OneAnnouncer
    <3>3. announced' = announced
      BY <1>6 DEF Commit, UpdateOrderStatus, MarkWebhookProcessed, pubVars
    <3>. QED  BY <3>1, <3>2, <3>3
  <2>4. /\ pay'[o] = NewPay(d) /\ status'[o] = NewOrder(d)
        /\ intent'[o] # "none" <=> NewPay(d) = CAPTURED
        /\ paid'[o] # "none" <=> NewPay(d) = CAPTURED
    <3>1. intent[o] = "none" /\ paid[o] = "none"
      BY <2>1, <2>2 DEF AnnounceInv, ConfirmedIffCaptured
    <3>. QED  BY <1>6, <2>1, <3>1
       DEF Commit, UpdateOrderStatus, MarkWebhookProcessed, TypeOK, InsertOnce
  <2>5. \A c \in Orders \ {o} : /\ pay'[c] = pay[c] /\ status'[c] = status[c]
                                 /\ intent'[c] = intent[c] /\ paid'[c] = paid[c]
    BY <1>6 DEF Commit, UpdateOrderStatus, MarkWebhookProcessed, TypeOK
  <2>6. \A c \in Deliveries \ {d} : pc'[c] = pc[c]
    BY <1>6 DEF Commit, UpdateOrderStatus, MarkWebhookProcessed, Goto, Finish, TypeOK
  <2>. HIDE DEF o
  <2>7. ConfirmedIffCaptured'
    BY <2>1, <2>4, <2>5, StatusTypes DEF AnnounceInv, ConfirmedIffCaptured
  <2>8. AnnouncedOnce'
    BY <2>1, <2>3, <2>5 DEF AnnounceInv, AnnouncedOnce
  <2>9. OneAnnouncer'
    <3>1. OrderOf(d) = o
      BY DEF o
    <3>. SUFFICES ASSUME NEW a \in Deliveries, Announcing(a)'
                  PROVE  /\ pay'[OrderOf(a)] = CAPTURED
                         /\ announced'[OrderOf(a)] = 0
                         /\ \A c \in Deliveries :
                               Announcing(c)' /\ OrderOf(c) = OrderOf(a) => c = a
      BY DEF OneAnnouncer
    <3>2. \A c \in Deliveries \ {d} : Announcing(c)' <=> Announcing(c)
      BY <2>6 DEF Announcing
    <3>3. CASE a = d
      BY <2>3, <2>4, <3>1, <3>2, <3>3 DEF Announcing
    <3>4. CASE a # d
      BY <2>3, <2>5, <3>1, <3>2, <3>4 DEF AnnounceInv, OneAnnouncer
    <3>. QED  BY <3>3, <3>4
  <2>. QED  BY <2>7, <2>8, <2>9 DEF AnnounceInv
<1>7. ASSUME NEW d \in Deliveries, Publish(d) PROVE AnnounceInv'
  <2>. DEFINE o == OrderOf(d)
  <2>1. UNCHANGED <<pay, status, paid, intent>>
    BY <1>7 DEF Publish, rowVars
  <2>2. /\ pc[d] = "publish" /\ pc'[d] = "done"
        /\ \A c \in Deliveries \ {d} : pc'[c] = pc[c]
    BY <1>7 DEF Publish, Finish, TypeOK
  <2>3. \/ announced' = announced
        \/ /\ Announcing(d) /\ o \in Orders
           /\ announced'[o] = announced[o] + 1
           /\ \A c \in Orders \ {o} : announced'[c] = announced[c]
    <3>1. announced \in [Orders -> Nat] /\ o \in Orders
      BY DEF TypeOK
    <3>2. \/ announced' = announced
          \/ announced' = [announced EXCEPT ![o] =
                             IF NewPay(d) = CAPTURED THEN @ + 1 ELSE @]
      BY <1>7 DEF Publish
    <3>. HIDE DEF o
    <3>. QED  BY <2>2, <3>1, <3>2 DEF Announcing
  <2>4. CASE announced' = announced
    BY <2>1, <2>2, <2>4, NothingAnnounced
  <2>5. CASE /\ Announcing(d) /\ o \in Orders
             /\ announced'[o] = announced[o] + 1
             /\ \A c \in Orders \ {o} : announced'[c] = announced[c]
    <3>1. pay[o] = CAPTURED /\ announced'[o] = 1
      BY <2>5 DEF AnnounceInv, OneAnnouncer
    <3>2. ConfirmedIffCaptured'
      BY <2>1 DEF AnnounceInv, ConfirmedIffCaptured
    <3>3. AnnouncedOnce'
      BY <2>1, <2>5, <3>1 DEF AnnounceInv, AnnouncedOnce, ConfirmedIffCaptured
    <3>4. OneAnnouncer'
      BY <2>1, <2>2, <2>5 DEF AnnounceInv, OneAnnouncer, Announcing
    <3>. QED  BY <3>2, <3>3, <3>4 DEF AnnounceInv
  <2>. QED  BY <2>3, <2>4, <2>5
<1>8. CASE Crash
  <2>1. Same
    BY <1>8 DEF Crash, rowVars, TypeOK
  <2>. QED  BY <2>1, <1>1
<1>9. CASE Take \/ UNCHANGED vars
  BY <1>1, <1>9 DEF Take, vars, rowVars, pubVars
<1>10. ASSUME NEW o \in Orders,
              SettlePaid(o) \/ \E s \in CommitIntentStatus : SettleIntent(o, s)
       PROVE  AnnounceInv'
  <2>1. /\ UNCHANGED <<pay, status, announced, pc>>
        /\ \A c \in Orders : /\ intent'[c] # "none" <=> intent[c] # "none"
                             /\ paid'[c] # "none" <=> paid[c] # "none"
    BY <1>10 DEF SettlePaid, SettleIntent, pubVars, TypeOK
  <2>2. ConfirmedIffCaptured'
    BY <2>1 DEF AnnounceInv, ConfirmedIffCaptured
  <2>3. AnnouncedOnce'
    BY <2>1 DEF AnnounceInv, AnnouncedOnce
  <2>4. OneAnnouncer'
    BY <2>1 DEF AnnounceInv, OneAnnouncer, Announcing
  <2>. QED  BY <2>2, <2>3, <2>4 DEF AnnounceInv
<1>. QED  BY <1>1, <1>2, <1>3, <1>4, <1>5, <1>6, <1>7, <1>8, <1>9, <1>10,
             NextCases

-----------------------------------------------------------------------------
(* The theorems.                                                           *)

\* The invariant holds when the server starts with no events received.
LEMMA InvInit == Init => WebhookInv
<1>. SUFFICES ASSUME Init PROVE WebhookInv
  OBVIOUS
<1>1. TypeOK
  <2>1. queue \in Seq(Topics \X Orders)
    BY DEF Init
  <2>. QED  BY <2>1 DEF Init, TypeOK, PaymentStatus, OrderStatus, OutboxStatus,
                     CommitIntentStatus, Outcomes
<1>2. \A d \in Deliveries : pc[d] = "idle"
  BY DEF Init
<1>3. HoldsItsRows /\ PaymentFound /\ ComparisonStillHolds /\ OneAnnouncer
  BY <1>2 DEF HoldsItsRows, PaymentFound, ComparisonStillHolds, OneAnnouncer,
              Announcing
<1>4. ConfirmedIffCaptured /\ AnnouncedOnce
  BY DEF Init, ConfirmedIffCaptured, AnnouncedOnce, PENDING, CAPTURED
<1>. QED  BY <1>1, <1>3, <1>4 DEF WebhookInv

\* Every step of the handler, the workers or the environment keeps it.
LEMMA InvStep == WebhookInv /\ [Next]_vars => WebhookInv'
<1>. SUFFICES ASSUME WebhookInv, [Next]_vars PROVE WebhookInv'
  OBVIOUS
<1>1. TypeOK /\ RowInv /\ AnnounceInv
  BY DEF WebhookInv, RowInv, AnnounceInv
<1>2. TypeOK' /\ RowInv' /\ AnnounceInv'
  BY <1>1, TypeStep, RowsStep, AnnounceStep
<1>. QED  BY <1>2 DEF WebhookInv, RowInv, AnnounceInv

\* The inductive invariant of razorpay_webhook, for any number of orders,
\* events and deliveries.
THEOREM WebhookInvariant == Spec => []WebhookInv
BY InvInit, InvStep, PTL DEF Spec

\* Every variable keeps its type.
THEOREM WebhookTypeCorrect == Spec => []TypeOK
<1>1. WebhookInv => TypeOK
  BY DEF WebhookInv
<1>. QED  BY <1>1, WebhookInvariant, PTL

\* Order status, order.paid event and commit intent follow the payment
\* status, whatever is delivered when and wherever the handler fails.
THEOREM ConfirmedExactlyWhenCaptured == Spec => []ConfirmedIffCaptured
<1>1. WebhookInv => ConfirmedIffCaptured
  BY DEF WebhookInv
<1>. QED  BY <1>1, WebhookInvariant, PTL

\* The workers are told of a commit intent at most once.
THEOREM IntentAnnouncedOnce == Spec => []AnnouncedOnce
<1>1. WebhookInv => AnnouncedOnce
  BY DEF WebhookInv
<1>. QED  BY <1>1, WebhookInvariant, PTL

\* The comparison made by update_pay_completion_get_orderid holds at the
\* commit.
THEOREM ComparisonIsStable == Spec => []ComparisonStillHolds
<1>1. WebhookInv => ComparisonStillHolds
  BY DEF WebhookInv
<1>. QED  BY <1>1, WebhookInvariant, PTL

\* No step takes back a captured payment or its confirmed order.
THEOREM CaptureIsFinal == Spec => CapturedIsFinal
<1>. DEFINE Kept == \A o \in Orders : pay[o] = CAPTURED =>
                       /\ pay'[o] = CAPTURED
                       /\ status'[o] = "CONFIRMED"
<1>1. ASSUME WebhookInv, WebhookInv', [Next]_vars, NEW o \in Orders,
             pay[o] = CAPTURED
      PROVE  pay'[o] = CAPTURED
  <2>1. CASE pay' = pay
    BY <1>1, <2>1
  <2>2. ASSUME NEW c \in Orders, Accept(c) PROVE pay'[o] = CAPTURED
    BY <1>1, <2>2 DEF Accept, WebhookInv, TypeOK, PENDING, CAPTURED
  <2>3. ASSUME NEW d \in Deliveries, Commit(d) PROVE pay'[o] = CAPTURED
    <3>1. pay[OrderOf(d)] < NewPay(d)
      BY <1>1, <2>3
         DEF Commit, UpdateOrderStatus, MarkWebhookProcessed, WebhookInv, ComparisonStillHolds
    <3>2. OrderOf(d) # o
      BY <1>1, <3>1, StatusTypes DEF PENDING, AUTHORIZED, FAILED, CAPTURED
    <3>. QED  BY <1>1, <2>3, <3>2
       DEF Commit, UpdateOrderStatus, MarkWebhookProcessed, WebhookInv, TypeOK
  <2>4. \/ pay' = pay
        \/ \E c \in Orders : Accept(c)
        \/ \E d \in Deliveries : Commit(d)
    BY <1>1, NextCases DEF Refuse, Arrive, FindPayment, Receive, UpdatePayment,
       Fail, Publish, Crash, Take, SettlePaid, SettleIntent, vars, rowVars
  <2>. QED  BY <2>1, <2>2, <2>3, <2>4
<1>2. ASSUME WebhookInv, WebhookInv', [Next]_vars PROVE Kept
  BY <1>1, <1>2 DEF WebhookInv, ConfirmedIffCaptured
<1>3. WebhookInv /\ WebhookInv' /\ [Next]_vars => [Kept]_vars
  BY <1>2
<1>. QED  BY <1>3, WebhookInvariant, PTL DEF Spec, CapturedIsFinal
=============================================================================
