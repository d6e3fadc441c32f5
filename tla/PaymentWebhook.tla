--------------------------- MODULE PaymentWebhook ---------------------------
(***************************************************************************)
(* razorpay_webhook (backend/orders/webhooks.py): the PSP reports what     *)
(* happened to a payment, and the handler moves the payment and its order  *)
(* on, writes an outbox event and a commit intent, and tells the           *)
(* background workers through the in-memory queue.                         *)
(*                                                                         *)
(* The PSP delivers an event any number of times, in any order relative to *)
(* others, several at once.  A delivery is a process: it looks the payment *)
(* up without a lock, inserts the event row (an uncommitted insert of the  *)
(* same event makes it wait), updates the payment row conditionally and    *)
(* holds it until the commit.  Only then are the messages published.       *)
(***************************************************************************)
EXTENDS Integers, Sequences, FiniteSets

CONSTANTS Orders,      \* orders, each with its one payment
          Events,      \* identifiers in X-Razorpay-Event-Id
          Payloads,    \* <<entity status, event name>> pairs the PSP sends
          Deliveries,  \* webhook calls, each used once
          NoDelivery,
          MaxQueue     \* max_queue_size of the in-memory queue

ASSUME WebhookAssumption ==
    /\ NoDelivery \notin Deliveries
    /\ Payloads \subseteq STRING \X STRING
    /\ MaxQueue \in Nat

\* PaymentStatus and OrderStatus.
PENDING == 0
ACCEPTED == 5
AUTHORIZED == 10
FAILED == 20
CAPTURED == 30
PaymentStatus == {PENDING, ACCEPTED, AUTHORIZED, FAILED, CAPTURED}
OrderStatus == {"PENDING_PAYMENT", "CONFIRMED"}
CommitIntentStatus == {"none", "PENDING", "PROCESSING", "FAILED", "DONE"}
OutboxStatus == {"none", "PENDING", "DONE"}

VARIABLES
    pay,        \* Payment.status
    status,     \* Orders.status
    paid,       \* OutboxEvent order.paid of an order; "none": no row
    unpaid,     \* OutboxEvent order.pending_payment of an order
    intent,     \* CommitIntent.status of an order; "none": no row
    row,        \* PaymentWebhookEvent of an event: "none" or "processed"
    inserting,  \* the delivery whose insert of an event is not committed
    payLock,    \* the delivery holding the payment row of an order
    queue,      \* the in-memory queue of <<topic, order>> messages
    announced,  \* how many messages about the commit intent were published
    event,      \* what an event says: its order and payload
    pc, ev,     \* of a delivery: where it is, and its event
    outcome     \* how it ended

rowVars == <<pay, status, paid, unpaid, intent, row>>
pubVars == <<queue, announced>>
vars == <<rowVars, inserting, payLock, pubVars, event, pc, ev, outcome>>

IntentTopic == "order_confirm_intent.created"
Topics == {"order.paid", "order.pending_payment", IntentTopic}

\* Acknowledged with 200 (applied; not in order; no valid event; no such
\* payment), or raised (a handler's own error; in the critical section; in
\* publish), or cut off.
Outcomes == {"none", "ok", "stale", "ignored", "unmatched",
             "raised", "failed", "full", "lost"}

-----------------------------------------------------------------------------
(* pay_order_status_util.                                                  *)

Settled(s) == s \in {"captured", "authorized", "success"}

\* (The test in ("failed") of the code is one for a part of the word; of the
\* statuses the PSP sends it holds for this one only.)
NewPayStatus(s, name) ==
    CASE ~Settled(s) -> FAILED
      [] Settled(s) /\ name = "payment.authorized" -> AUTHORIZED
      [] Settled(s) /\ name \in {"payment.captured", "order.paid"} -> CAPTURED
      [] OTHER -> PENDING

\* Mutant: an authorized payment confirms the order.
ConfirmAuthorized(s, name) ==
    IF Settled(s) THEN "CONFIRMED" ELSE "PENDING_PAYMENT"

NewOrderStatus(s, name) ==
    IF Settled(s) /\ name \in {"payment.captured", "order.paid"}
    THEN "CONFIRMED" ELSE "PENDING_PAYMENT"

ValidEvent(s, name) ==
    /\ Settled(s) \/ s = "failed"
    /\ ~(Settled(s) /\ name = "order.paid")

\* The same for the event of a delivery.
NewPay(d) == NewPayStatus(event[ev[d]].says[1], event[ev[d]].says[2])
NewOrder(d) == NewOrderStatus(event[ev[d]].says[1], event[ev[d]].says[2])
Valid(d) == ValidEvent(event[ev[d]].says[1], event[ev[d]].says[2])
OrderOf(d) == event[ev[d]].order

-----------------------------------------------------------------------------
TypeOK ==
    /\ pay \in [Orders -> PaymentStatus]
    /\ status \in [Orders -> OrderStatus]
    /\ paid \in [Orders -> OutboxStatus]
    /\ unpaid \in [Orders -> OutboxStatus]
    /\ intent \in [Orders -> CommitIntentStatus]
    /\ row \in [Events -> {"none", "processed"}]
    /\ inserting \in [Events -> Deliveries \cup {NoDelivery}]
    /\ payLock \in [Orders -> Deliveries \cup {NoDelivery}]
    /\ queue \in Seq(Topics \X Orders)
    /\ announced \in [Orders -> Nat]
    /\ event \in [Events -> [order : Orders, says : Payloads]]
    /\ pc \in [Deliveries -> {"idle", "find", "receive", "update", "commit",
                              "publish", "done"}]
    /\ ev \in [Deliveries -> Events]
    /\ outcome \in [Deliveries -> Outcomes]

\* The PSP's events, and which of them it delivers when, are arbitrary.
Init ==
    /\ pay = [o \in Orders |-> PENDING]
    /\ status = [o \in Orders |-> "PENDING_PAYMENT"]
    /\ paid = [o \in Orders |-> "none"]
    /\ unpaid = [o \in Orders |-> "none"]
    /\ intent = [o \in Orders |-> "none"]
    /\ row = [e \in Events |-> "none"]
    /\ inserting = [e \in Events |-> NoDelivery]
    /\ payLock = [o \in Orders |-> NoDelivery]
    /\ queue = <<>>
    /\ announced = [o \in Orders |-> 0]
    /\ event \in [Events -> [order : Orders, says : Payloads]]
    /\ pc = [d \in Deliveries |-> "idle"]
    /\ ev \in [Deliveries -> Events]
    /\ outcome = [d \in Deliveries |-> "none"]

-----------------------------------------------------------------------------
\* update_payment_status_nprovider and its commit, the end of secure-confirm
\* (module SecureConfirm): only now can a webhook find the payment.
Accept(o) ==
    /\ pay[o] = PENDING
    /\ pay' = [pay EXCEPT ![o] = ACCEPTED]
    /\ UNCHANGED <<status, paid, unpaid, intent, row, inserting, payLock,
                   pubVars, event, pc, ev, outcome>>

-----------------------------------------------------------------------------
(* One delivery.                                                           *)

Goto(d, phase) ==
    /\ pc' = [pc EXCEPT ![d] = phase]
    /\ UNCHANGED outcome

\* The transaction of a delivery is over: its locks are free.
EndTxn(d) ==
    /\ inserting' = [e \in Events |->
                       IF inserting[e] = d THEN NoDelivery ELSE inserting[e]]
    /\ payLock' = [o \in Orders |->
                     IF payLock[o] = d THEN NoDelivery ELSE payLock[o]]

Finish(d, how) ==
    /\ pc' = [pc EXCEPT ![d] = "done"]
    /\ outcome' = [outcome EXCEPT ![d] = how]

\* Signature or event identifier missing or wrong: the call that should keep
\* the event for reconciliation names a parameter mark_webhook_received does
\* not have, and raises.
Refuse(d) ==
    /\ pc[d] = "idle"
    /\ Finish(d, "raised")
    /\ UNCHANGED <<rowVars, inserting, payLock, pubVars, event, ev>>

Arrive(d) ==
    /\ pc[d] = "idle"
    /\ Goto(d, "find")
    /\ UNCHANGED <<rowVars, inserting, payLock, pubVars, event, ev>>

\* get_pay_record_by_provider_orderid.  Without a payment, the INCONSISTENT
\* row is inserted, the answer is 200, and nothing is committed.  A payload
\* without a payment identifier or without a status raises.
FindPayment(d) ==
    /\ pc[d] = "find"
    /\ \/ pay[OrderOf(d)] = PENDING /\ Finish(d, "unmatched")
       \/ pay[OrderOf(d)] # PENDING /\ Finish(d, "raised")
       \/ pay[OrderOf(d)] # PENDING /\ Goto(d, "receive")
    /\ UNCHANGED <<rowVars, inserting, payLock, pubVars, event, ev>>

\* mark_webhook_received: waits for an uncommitted insert of the event, does
\* nothing if there is a committed one.  Then ev is None, which raises for a
\* valid event.
Receive(d) ==
    LET e == ev[d] IN
    /\ pc[d] = "receive"
    /\ inserting[e] = NoDelivery
    /\ \/ /\ ~Valid(d)
          /\ Finish(d, "ignored")
          /\ UNCHANGED inserting
       \/ /\ Valid(d) /\ row[e] # "none"
          /\ Finish(d, "raised")
          /\ UNCHANGED inserting
       \/ /\ Valid(d) /\ row[e] = "none"
          /\ inserting' = [inserting EXCEPT ![e] = d]
          /\ Goto(d, "update")
    /\ UNCHANGED <<rowVars, payLock, pubVars, event, ev>>

\* Mutant: the comparison of update_pay_completion_get_orderid not strict.
NotBehind(d) == pay[OrderOf(d)] <= NewPay(d)

\* Mutant: the update is not conditional.
Always(d) == TRUE

\* Payment.status < payment_status
Behind(d) == pay[OrderOf(d)] < NewPay(d)

\* Mutant: the status is compared before the row is locked.
HoldNothing(d) == UNCHANGED payLock

HoldPayment(d) == payLock' = [payLock EXCEPT ![OrderOf(d)] = d]

\* update_pay_completion_get_orderid: waits for the row, then compares.  A
\* payment that is as far already gives 200, and nothing is committed.
UpdatePayment(d) ==
    /\ pc[d] = "update"
    /\ payLock[OrderOf(d)] = NoDelivery
    /\ \/ /\ Behind(d)
          /\ HoldPayment(d)
          /\ Goto(d, "commit")
          /\ UNCHANGED inserting
       \/ /\ ~Behind(d)
          /\ EndTxn(d)
          /\ Finish(d, "stale")
    /\ UNCHANGED <<rowVars, pubVars, event, ev>>

\* The insert of a row that may be there: ON CONFLICT DO NOTHING.
InsertOnce(old) == IF old = "none" THEN "PENDING" ELSE old

UpdateOrderStatus(o, new) == status' = [status EXCEPT ![o] = new]

MarkWebhookProcessed(e) == row' = [row EXCEPT ![e] = "processed"]

\* update_order_status, create_commit_intent, emit_outbox_event,
\* mark_webhook_processed, and the commit of it all.  When the
\* acknowledgement of the commit is lost, its effect stays, and the except
\* branch raises before anything is published.
Commit(d) ==
    LET o == OrderOf(d) IN
    /\ pc[d] = "commit"
    /\ pay' = [pay EXCEPT ![o] = NewPay(d)]
    /\ UpdateOrderStatus(o, NewOrder(d))
    /\ intent' = [intent EXCEPT ![o] =
                    IF NewPay(d) = CAPTURED THEN InsertOnce(@) ELSE @]
    /\ paid' = [paid EXCEPT ![o] =
                  IF NewPay(d) = CAPTURED THEN InsertOnce(@) ELSE @]
    /\ unpaid' = [unpaid EXCEPT ![o] =
                    IF NewPay(d) = FAILED THEN InsertOnce(@) ELSE @]
    /\ MarkWebhookProcessed(ev[d])
    /\ EndTxn(d)
    /\ \/ NewPay(d) \in {CAPTURED, FAILED} /\ Goto(d, "publish")
       \/ NewPay(d) \notin {CAPTURED, FAILED} /\ Finish(d, "ok")
       \/ Finish(d, "failed")
    /\ UNCHANGED <<pubVars, event, ev>>

\* The messages of a delivery, published one after the other with no await
\* between them.
Messages(d) == LET o == OrderOf(d) IN
               IF NewPay(d) = CAPTURED
               THEN <<<<"order.paid", o>>, <<IntentTopic, o>>>>
               ELSE <<<<"order.pending_payment", o>>>>

\* pubsub_pub: put_nowait raises when the queue is full, before the first or
\* before the second message.
Publish(d) ==
    LET room == MaxQueue - Len(queue)
        m == Messages(d) IN
    /\ pc[d] = "publish"
    /\ \/ /\ Len(m) <= room
          /\ queue' = queue \o m
          /\ announced' = [announced EXCEPT ![OrderOf(d)] =
                             IF NewPay(d) = CAPTURED THEN @ + 1 ELSE @]
          /\ Finish(d, "ok")
       \/ /\ Len(m) > room
          /\ queue' = queue \o SubSeq(m, 1, room)
          /\ UNCHANGED announced
          /\ Finish(d, "full")
    /\ UNCHANGED <<rowVars, inserting, payLock, event, ev>>

\* An exception in the critical section: rollback.  webhook_error_recorded
\* then updates a row that the rollback has removed.
Fail(d) ==
    /\ pc[d] \in {"update", "commit"}
    /\ EndTxn(d)
    /\ Finish(d, "failed")
    /\ UNCHANGED <<rowVars, pubVars, event, ev>>

\* The server stops: open transactions are rolled back, the queue is lost.
Crash ==
    /\ inserting' = [e \in Events |-> NoDelivery]
    /\ payLock' = [o \in Orders |-> NoDelivery]
    /\ queue' = <<>>
    /\ pc' = [d \in Deliveries |-> IF pc[d] = "idle" THEN "idle" ELSE "done"]
    /\ outcome' = [d \in Deliveries |->
                     IF pc[d] \in {"idle", "done"} THEN outcome[d] ELSE "lost"]
    /\ UNCHANGED <<rowVars, announced, event, ev>>

-----------------------------------------------------------------------------
Step(d) == \/ FindPayment(d) \/ Receive(d) \/ UpdatePayment(d) \/ Commit(d)
           \/ Publish(d)

Handle == \/ \E o \in Orders : Accept(o)
          \/ \E d \in Deliveries : Refuse(d) \/ Arrive(d) \/ Step(d) \/ Fail(d)

\* What the workers do (module CommitWorker): they take the oldest message,
\* and move a commit intent and an order.paid event on, never away.
Take ==
    /\ queue # <<>>
    /\ queue' = Tail(queue)
    /\ UNCHANGED <<rowVars, inserting, payLock, announced, event, pc, ev,
                   outcome>>

SettleIntent(o, s) ==
    /\ intent[o] # "none" /\ s # "none"
    /\ intent' = [intent EXCEPT ![o] = s]
    /\ UNCHANGED <<pay, status, paid, unpaid, row, inserting, payLock, pubVars,
                   event, pc, ev, outcome>>

SettlePaid(o) ==
    /\ paid[o] # "none"
    /\ paid' = [paid EXCEPT ![o] = "DONE"]
    /\ UNCHANGED <<pay, status, unpaid, intent, row, inserting, payLock,
                   pubVars, event, pc, ev, outcome>>

Consume == \/ Take
           \/ \E o \in Orders : SettlePaid(o)
           \/ \E o \in Orders, s \in CommitIntentStatus : SettleIntent(o, s)

Next == Handle \/ Consume \/ Crash

Spec == Init /\ [][Next]_vars

-----------------------------------------------------------------------------
(* Properties.                                                             *)

\* An order is confirmed exactly when its payment is captured, and exactly
\* then there are an order.paid event and a commit intent for it, whatever
\* the order of authorized, failed and captured events, their duplicates and
\* the crashes in between (the critical section of razorpay_webhook).
ConfirmedIffCaptured ==
    \A o \in Orders :
        /\ status[o] = "CONFIRMED" <=> pay[o] = CAPTURED
        /\ paid[o] # "none" <=> pay[o] = CAPTURED
        /\ intent[o] # "none" <=> pay[o] = CAPTURED

\* No step takes a captured payment or a confirmed order back: a failed or
\* authorized event that comes late, and the confirm request that records the
\* provider order, leave them alone.
CapturedIsFinal ==
    [][\A o \in Orders : pay[o] = CAPTURED =>
           /\ pay'[o] = CAPTURED
           /\ status'[o] = "CONFIRMED"]_vars

\* The commit intent of an order is announced to the workers at most once,
\* and only when it is in the database: two captured events, or one delivered
\* twice, do not decrement the stock twice.
AnnouncedOnce ==
    \A o \in Orders : announced[o] <= 1
                      /\ (announced[o] = 1 => intent[o] # "none")

\* What a delivery concluded when it compared the payment status is still
\* true when it commits, since it holds the row.
ComparisonStillHolds ==
    \A d \in Deliveries : pc[d] = "commit" =>
        /\ pay[OrderOf(d)] < NewPay(d)
        /\ pay[OrderOf(d)] # PENDING
        /\ row[ev[d]] = "none"

\* What makes the properties above inductive: a delivery that compares holds
\* its event, and one that commits its payment row; it found the payment; and
\* while a delivery is about to announce the commit intent of an order, no
\* other one is and nothing was announced.
HoldsItsRows ==
    \A d \in Deliveries :
        /\ pc[d] = "commit" => payLock[OrderOf(d)] = d
        /\ pc[d] \in {"update", "commit"} =>
              inserting[ev[d]] = d /\ row[ev[d]] = "none"

PaymentFound ==
    \A d \in Deliveries : pc[d] \in {"receive", "update", "commit", "publish"}
                             => pay[OrderOf(d)] # PENDING

Announcing(d) == pc[d] = "publish" /\ NewPay(d) = CAPTURED

OneAnnouncer ==
    \A d \in Deliveries : Announcing(d) =>
        /\ pay[OrderOf(d)] = CAPTURED
        /\ announced[OrderOf(d)] = 0
        /\ \A c \in Deliveries :
              Announcing(c) /\ OrderOf(c) = OrderOf(d) => c = d

\* The inductive invariant of razorpay_webhook.
WebhookInv ==
    /\ TypeOK
    /\ HoldsItsRows
    /\ PaymentFound
    /\ ComparisonStillHolds
    /\ ConfirmedIffCaptured
    /\ AnnouncedOnce
    /\ OneAnnouncer
=============================================================================
