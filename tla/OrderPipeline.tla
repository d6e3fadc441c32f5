--------------------------- MODULE OrderPipeline ---------------------------
(***************************************************************************)
(* From the PSP's webhook to the stock: CommitWorker with PaymentWebhook   *)
(* as its producer, in one server process, joined by the rows of commit    *)
(* intents and order.paid events and by the in-memory queue.  A crash ends *)
(* both and empties the queue.  Each component's specification allows its  *)
(* environment to do what the other does: the composition implements both. *)
(***************************************************************************)
EXTENDS CommitWorker

CONSTANTS Events, Payloads, Deliveries, NoDelivery

ASSUME PipelineAssumption ==
    /\ NoDelivery \notin Deliveries
    /\ Payloads \subseteq STRING \X STRING

\* The state of the webhook handler that the workers do not share.
VARIABLES pay, status, unpaid, row, inserting, payLock, event, pc, ev, outcome

Webhook == INSTANCE PaymentWebhook

webhookOnly == <<pay, status, unpaid, row, inserting, payLock, event, pc, ev,
                 outcome>>
workerOnly == <<attempts, stock, supplied, applied, held, wVars>>
pipelineVars == <<webhookOnly, vars>>

PipelineInit == Webhook!Init /\ Init

\* razorpay_webhook and the end of secure-confirm.
Handle == Webhook!Handle /\ UNCHANGED workerOnly

\* A step of a worker loop started by start().
RunWorker(w) == Work(w) /\ UNCHANGED webhookOnly

\* The administrator's update_product.
UpdateProduct(p, n) == Restock(p, n) /\ UNCHANGED webhookOnly

Stop == Webhook!Crash /\ Crash

PipelineNext ==
    \/ Handle
    \/ \E w \in Workers : RunWorker(w)
    \/ \E p \in Products, n \in 0..MaxStock : UpdateProduct(p, n)
    \/ Stop

PipelineSpec == PipelineInit /\ [][PipelineNext]_pipelineVars

-----------------------------------------------------------------------------
(* Properties.                                                             *)

\* The webhook handler is all the environment CommitWorker assumes: it
\* announces an intent at most once, after it is committed.
ImplementsWorker == Spec

\* The workers are all the environment PaymentWebhook assumes: they take
\* messages, and never remove a commit intent or an order.paid event.
ImplementsWebhook == Webhook!Spec

\* Stock leaves only for orders whose payment is captured, and never twice.
StockOnlyForPaid ==
    /\ \A o \in applied : pay[o] = Webhook!CAPTURED /\ status[o] = "CONFIRMED"
    /\ StockConserved
=============================================================================
