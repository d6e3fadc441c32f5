---------------------------- MODULE CommitWorker ----------------------------
(***************************************************************************)
(* The background workers (BasePubSubWorker) and their two order handlers: *)
(* order_confirm_commitintent_handler takes the stock of a paid order, and *)
(* OutboxHandler completes its order.paid event.                           *)
(*                                                                         *)
(* The commit-intent handler is two transactions and, after a failure, a   *)
(* third: claim the intent, take the stock with the product rows locked    *)
(* one after the other, or put the intent back.  A commit whose            *)
(* acknowledgement is lost has taken effect and still fails.               *)
(***************************************************************************)
EXTENDS Integers, Sequences, FiniteSets

CONSTANTS Orders,      \* paid orders, each with one commit intent
          Products,
          Workers,     \* worker loops
          Items,       \* quantity of each product in the payload of an order
          NoWorker, NoOrder,
          MaxAttempts, \* DEFAULT_MAX_ATTEMPTS
          MaxQty,      \* bound on the quantities in Items
          MaxStock,    \* bound on the stock an administrator sets
          MaxQueue     \* max_queue_size of the in-memory queue

ASSUME WorkerAssumption ==
    /\ IsFiniteSet(Orders)
    /\ NoWorker \notin Workers
    /\ NoOrder \notin Orders
    /\ MaxAttempts \in Nat /\ MaxStock \in Nat /\ MaxQty \in Nat
    /\ MaxQueue \in Nat
    /\ Items \in [Orders -> [Products -> 0..MaxQty]]

IntentTopic == "order_confirm_intent.created"
Topics == {"order.paid", "order.pending_payment", IntentTopic}
CommitIntentStatus == {"none", "PENDING", "PROCESSING", "FAILED", "DONE"}

VARIABLES
    intent,    \* CommitIntent.status of an order; "none": no row
    announced, \* how many messages about it were published
    attempts,  \* CommitIntent.attempts
    paid,      \* OutboxEvent order.paid of an order; "none": no row
    stock,     \* Product.stock_qty
    supplied,  \* what stock_qty would be had no order taken any of it
    applied,   \* the orders whose stock was taken
    held,      \* the worker holding the row of a product
    queue,     \* the in-memory queue of <<topic, order>> messages
    wpc, job,  \* of a worker: where it is, and the order it works on
    short      \* it has met a product with too little stock

wVars == <<wpc, job, short>>
vars == <<intent, announced, attempts, paid, stock, supplied, applied, held,
          queue, wVars>>

\* The products of the order a worker has, and the ones it has not locked.
Ordered(o) == {p \in Products : Items[o][p] > 0}
Todo(w) == {p \in Ordered(job[w]) : held[p] # w}

\* The units of p that went to orders, one element per unit.
Taken(p) == {u \in applied \X (1..MaxQty) : u[2] <= Items[u[1]][p]}

TypeOK ==
    /\ intent \in [Orders -> CommitIntentStatus]
    /\ announced \in [Orders -> Nat]
    /\ attempts \in [Orders -> Nat]
    /\ paid \in [Orders -> {"none", "PENDING", "DONE"}]
    /\ stock \in [Products -> Int]
    /\ supplied \in [Products -> Int]
    /\ applied \subseteq Orders
    /\ held \in [Products -> Workers \cup {NoWorker}]
    /\ queue \in Seq(Topics \X Orders)
    /\ wpc \in [Workers -> {"idle", "outbox", "claim", "work", "recover"}]
    /\ job \in [Workers -> Orders \cup {NoOrder}]
    /\ short \in [Workers -> BOOLEAN]

Init ==
    /\ intent = [o \in Orders |-> "none"]
    /\ announced = [o \in Orders |-> 0]
    /\ attempts = [o \in Orders |-> 0]
    /\ paid = [o \in Orders |-> "none"]
    /\ stock \in [Products -> 0..MaxStock]
    /\ supplied = stock
    /\ applied = {}
    /\ held = [p \in Products |-> NoWorker]
    /\ queue = <<>>
    /\ wpc = [w \in Workers |-> "idle"]
    /\ job = [w \in Workers |-> NoOrder]
    /\ short = [w \in Workers |-> FALSE]

-----------------------------------------------------------------------------
(* The producers.                                                          *)

\* The commit of razorpay_webhook for a captured payment (module
\* PaymentWebhook).
CreateIntent(o) ==
    /\ intent[o] = "none"
    /\ intent' = [intent EXCEPT ![o] = "PENDING"]
    /\ paid' = [paid EXCEPT ![o] = "PENDING"]
    /\ UNCHANGED <<announced, attempts, stock, supplied, applied, held, queue,
                   wVars>>

\* Its two messages.
Announce(o) ==
    /\ intent[o] # "none" /\ announced[o] = 0
    /\ Len(queue) + 2 <= MaxQueue
    /\ queue' = queue \o <<<<"order.paid", o>>, <<IntentTopic, o>>>>
    /\ announced' = [announced EXCEPT ![o] = 1]
    /\ UNCHANGED <<intent, attempts, paid, stock, supplied, applied, held,
                   wVars>>

\* A message without a worker's handler, and the first message of an order
\* when the queue has no room for the second.
Notify(o, topic) ==
    /\ Len(queue) < MaxQueue
    /\ topic # IntentTopic
    /\ topic = "order.paid" => intent[o] # "none"
    /\ queue' = Append(queue, <<topic, o>>)
    /\ UNCHANGED <<intent, announced, attempts, paid, stock, supplied, applied,
                   held, wVars>>

\* update_product sets an absolute value and waits for the row.
Restock(p, n) ==
    /\ held[p] = NoWorker
    /\ stock' = [stock EXCEPT ![p] = n]
    /\ supplied' = [supplied EXCEPT ![p] = @ + n - stock[p]]
    /\ UNCHANGED <<intent, announced, attempts, paid, applied, held, queue,
                   wVars>>

-----------------------------------------------------------------------------
(* A worker.                                                               *)

Goto(w, phase, o) ==
    /\ wpc' = [wpc EXCEPT ![w] = phase]
    /\ job' = [job EXCEPT ![w] = o]
    /\ short' = [short EXCEPT ![w] = FALSE]

Rest(w) == Goto(w, "idle", NoOrder)

\* _worker_loop and tasks_executor: a topic nobody subscribed to is dropped.
Take(w) ==
    LET topic == Head(queue)[1]
        o == Head(queue)[2] IN
    /\ wpc[w] = "idle"
    /\ queue # <<>>
    /\ queue' = Tail(queue)
    /\ \/ topic = IntentTopic /\ Goto(w, "claim", o)
       \/ topic = "order.paid" /\ Goto(w, "outbox", o)
       \/ topic = "order.pending_payment" /\ UNCHANGED wVars
    /\ UNCHANGED <<intent, announced, attempts, paid, stock, supplied, applied,
                   held>>

\* outbox_handler for order.paid, or its failure, which the loop logs.
CompleteOutbox(w) ==
    /\ wpc[w] = "outbox"
    /\ \/ paid' = [paid EXCEPT ![job[w]] = "DONE"]
       \/ UNCHANGED paid
    /\ Rest(w)
    /\ UNCHANGED <<intent, announced, attempts, stock, supplied, applied, held,
                   queue>>

\* The first transaction.  FOR UPDATE SKIP LOCKED finds the row only if it is
\* PENDING.  The last case is an error before the commit.
Claim(w) ==
    LET o == job[w] IN
    /\ wpc[w] = "claim"
    /\ \/ /\ intent[o] = "PENDING"
          /\ intent' = [intent EXCEPT ![o] = "PROCESSING"]
          /\ attempts' = [attempts EXCEPT ![o] = @ + 1]
          /\ Goto(w, "work", o) \/ Goto(w, "recover", o)
       \/ /\ Goto(w, "recover", o)
          /\ UNCHANGED <<intent, attempts>>
       \/ /\ intent[o] # "PENDING"
          /\ Rest(w)
          /\ UNCHANGED <<intent, attempts>>
    /\ UNCHANGED <<announced, paid, stock, supplied, applied, held, queue>>

\* Mutant: the comparison with the stock dropped.
LockUnchecked(w, p) ==
    /\ wpc[w] = "work"
    /\ p \in Todo(w)
    /\ held[p] = NoWorker
    /\ held' = [held EXCEPT ![p] = w]
    /\ UNCHANGED <<intent, announced, attempts, paid, stock, supplied, applied,
                   queue, wVars>>

\* SELECT ... FOR UPDATE of one product of the payload; what the statement
\* after it writes is visible at the commit.
LockItem(w, p) ==
    /\ wpc[w] = "work"
    /\ p \in Todo(w)
    /\ held[p] = NoWorker
    /\ held' = [held EXCEPT ![p] = w]
    /\ short' = [short EXCEPT ![w] = @ \/ stock[p] < Items[job[w]][p]]
    /\ UNCHANGED <<intent, announced, attempts, paid, stock, supplied, applied,
                   queue, wpc, job>>

Release(w) == held' = [p \in Products |->
                         IF held[p] = w THEN NoWorker ELSE held[p]]

\* The second transaction takes effect on the rows.
TakeStock(w) ==
    LET o == job[w] IN
    /\ wpc[w] = "work"
    /\ Todo(w) = {} /\ ~short[w]
    /\ stock' = [p \in Products |-> stock[p] - Items[o][p]]
    /\ applied' = applied \cup {o}
    /\ intent' = [intent EXCEPT ![o] = "DONE"]
    /\ Release(w)
    /\ UNCHANGED <<announced, attempts, paid, supplied, queue>>

\* It commits, and the worker knows or gets an error instead.
CommitWork(w) == TakeStock(w) /\ Rest(w)
CommitUnknown(w) == TakeStock(w) /\ Goto(w, "recover", job[w])

\* It rolls back.
RollBack(w) ==
    /\ wpc[w] = "work"
    /\ Release(w)
    /\ Goto(w, "recover", job[w])
    /\ UNCHANGED <<intent, announced, attempts, paid, stock, supplied, applied,
                   queue>>

\* Mutant: the products that were not short are decremented.
CommitPartly(w) ==
    /\ wpc[w] = "work"
    /\ Todo(w) = {} /\ short[w]
    /\ stock' = [p \in Products |-> IF Items[job[w]][p] <= stock[p]
                                   THEN stock[p] - Items[job[w]][p]
                                   ELSE stock[p]]
    /\ Release(w)
    /\ Goto(w, "recover", job[w])
    /\ UNCHANGED <<intent, announced, attempts, paid, supplied, applied, queue>>

\* Every product was locked and at least one is short: errors is not empty.
Insufficient(w) ==
    /\ wpc[w] = "work"
    /\ Todo(w) = {} /\ short[w]
    /\ RollBack(w)

\* Workers that wait only for each other's rows: PostgreSQL aborts one
\* (external).
Deadlocked(D) ==
    \A w \in D : /\ wpc[w] = "work" /\ Todo(w) # {}
                 /\ \A p \in Todo(w) : held[p] \in D

DeadlockVictim(w) ==
    /\ \E D \in SUBSET Workers : w \in D /\ Deadlocked(D)
    /\ RollBack(w)

\* Mutant: an intent that is given up is marked as done.
GiveUpAsDone(o) == IF attempts[o] + 1 >= MaxAttempts THEN "DONE" ELSE "PENDING"

\* Mutant: an intent that is given up is deleted.
DropIntent(o) == IF attempts[o] + 1 >= MaxAttempts THEN "none" ELSE "PENDING"

StatusAfterFailure(o) ==
    IF attempts[o] + 1 >= MaxAttempts THEN "FAILED" ELSE "PENDING"

\* The except branch, with the database back or still away.
Recover(w) ==
    LET o == job[w] IN
    /\ wpc[w] = "recover"
    /\ \/ /\ intent' = [intent EXCEPT ![o] = StatusAfterFailure(o)]
          /\ attempts' = [attempts EXCEPT ![o] =
                            IF @ + 1 >= MaxAttempts THEN @ ELSE @ + 1]
       \/ UNCHANGED <<intent, attempts>>
    /\ Rest(w)
    /\ UNCHANGED <<announced, paid, stock, supplied, applied, held, queue>>

\* The process stops: open transactions are rolled back, the queue is lost.
Crash ==
    /\ held' = [p \in Products |-> NoWorker]
    /\ queue' = <<>>
    /\ wpc' = [w \in Workers |-> "idle"]
    /\ job' = [w \in Workers |-> NoOrder]
    /\ short' = [w \in Workers |-> FALSE]
    /\ UNCHANGED <<intent, announced, attempts, paid, stock, supplied, applied>>

-----------------------------------------------------------------------------
Progress(w) == \/ Take(w) \/ CompleteOutbox(w) \/ Claim(w)
               \/ \E p \in Products : LockItem(w, p)
               \/ CommitWork(w) \/ CommitUnknown(w) \/ Insufficient(w)
               \/ DeadlockVictim(w) \/ Recover(w)

Work(w) == Progress(w) \/ RollBack(w)

Produce == \E o \in Orders :
              \/ CreateIntent(o) \/ Announce(o)
              \/ \E topic \in Topics : Notify(o, topic)

Next == \/ Produce
        \/ \E p \in Products, n \in 0..MaxStock : Restock(p, n)
        \/ \E w \in Workers : Work(w)
        \/ Crash

Spec == Init /\ [][Next]_vars

-----------------------------------------------------------------------------
(* Properties.                                                             *)

\* Stock leaves a product only for orders, once per order and in the ordered
\* quantity: no lost update between workers and stock writes, no second
\* decrement after a commit whose outcome the worker did not learn, no
\* partial decrement after an error in the middle of an order.
StockConserved ==
    \A p \in Products : stock[p] + Cardinality(Taken(p)) = supplied[p]

\* The comparison made when a product was locked keeps the stock from going
\* below zero at the commit.
StockNeverNegative == \A p \in Products : stock[p] >= 0

\* An intent marked DONE has its stock taken (the converse fails after a
\* commit that reported an error: the except branch resets the intent).
DoneMeansTaken ==
    \A o \in Orders : intent[o] = "DONE" => o \in applied

\* What makes the properties above inductive.  An intent has one carrier, its
\* message in the queue or the worker that took it, and none that could still
\* claim it once its stock is taken; and a worker that has locked a product
\* holds it with enough stock unless it is short.
InQueue(o) == \E i \in 1..Len(queue) : queue[i] = <<IntentTopic, o>>
Carries(w, o) == wpc[w] \in {"claim", "work", "recover"} /\ job[w] = o

OneMessage ==
    \A i, j \in 1..Len(queue) :
        queue[i][1] = IntentTopic /\ queue[i] = queue[j] => i = j

OneCarrier ==
    \A o \in Orders, w \in Workers : Carries(w, o) =>
        /\ ~InQueue(o)
        /\ \A v \in Workers : Carries(v, o) => v = w

CarriedIsAnnounced ==
    \A o \in Orders :
        InQueue(o) \/ o \in applied \/ (\E w \in Workers : Carries(w, o))
           => announced[o] # 0

TakenIsOver ==
    \A o \in applied :
        /\ ~InQueue(o)
        /\ \A w \in Workers : Carries(w, o) => wpc[w] = "recover"

BusyHasJob == \A w \in Workers : wpc[w] # "idle" => job[w] \in Orders

LocksAreEnough ==
    \A p \in Products, w \in Workers : held[p] = w =>
        /\ wpc[w] = "work"
        /\ short[w] \/ Items[job[w]][p] <= stock[p]

\* The inductive invariant of the workers.
WorkerInv ==
    /\ TypeOK
    /\ BusyHasJob
    /\ OneMessage
    /\ OneCarrier
    /\ CarriedIsAnnounced
    /\ TakenIsOver
    /\ LocksAreEnough
    /\ StockConserved
    /\ StockNeverNegative
    /\ DoneMeansTaken
=============================================================================
