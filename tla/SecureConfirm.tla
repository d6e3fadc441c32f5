---------------------------- MODULE SecureConfirm ----------------------------
(***************************************************************************)
(* POST /checkout/{id}/secure-confirm (place_order in                      *)
(* backend/orders/routes.py) with its idempotency records, the creation of *)
(* the provider order at the payment service provider (PSP) and the        *)
(* attempts it takes.                                                      *)
(*                                                                         *)
(* Every request is a process of three transactions.  The first holds the  *)
(* row lock on the checkout from its first statement to its commit; its    *)
(* inserts are visible to others at the commit, except that an insert with *)
(* the same unique key waits for it.  The second runs across the calls to  *)
(* the PSP and commits only when one succeeds.  The third closes the       *)
(* checkout.  The advisory lock on the key is taken with a try and its     *)
(* result is not used, so it plays no part.                                *)
(*                                                                         *)
(* How a checkout gets its cart snapshot and its payment method is in      *)
(* module Checkout; here a request may find it without them.               *)
(***************************************************************************)
EXTENDS Integers, Sequences, FiniteSets

CONSTANTS Requests,        \* HTTP requests, retries included, each used once
          Keys,            \* values of the Idempotency-Key header
          Checkouts,       \* checkout rows
          OwnerOf,         \* the user of each checkout: the only one let in
          MethodOf,        \* its selected payment method
          ProviderOrders,  \* identifiers the PSP can give out
          NoProvider, NoRequest, NoCheckout, NoKey,
          MaxRetries       \* DEFAULT_RETRIES

ASSUME ConfirmAssumption ==
    /\ NoProvider \notin ProviderOrders
    /\ NoRequest \notin Requests
    /\ NoCheckout \notin Checkouts
    /\ NoKey \notin Keys
    /\ MethodOf \in [Checkouts -> {"UPI", "COD"}]
    /\ MaxRetries \in Nat \ {0}

VARIABLES
    session,     \* CheckoutSession: no row yet, is_active or not
    expired,     \* expires_at < now() + 40 s
    csLock,      \* the request holding the row lock of a checkout
    inserting,   \* the request whose insert of a key is not yet committed
    ikCheckout,  \* IdempotencyKey.cs_id; NoCheckout: no such row
    ikExpired,   \* IdempotencyKey.expires_at < now() + 40 s
    ikResp,      \* IdempotencyKey.response_body: the provider order it names
    order,       \* is there an Orders row with the ik_id of the key
    payStatus,   \* Payment.status of that order; "none": no row
    payProvider, \* Payment.provider_order_id
    attempts,    \* committed PaymentAttempt rows of that payment
    psp,         \* the key the PSP created a provider order for, or NoKey
    pc, key, cs, \* of a request: where it is, its key and checkout
    tries,       \* its uncommitted PaymentAttempt rows
    got,         \* the provider order in the PSP's answer
    reply,       \* its HTTP status ("unknown": the 502 for an answer without
                 \* a provider order), "lost" if it ended without one
    body         \* the provider order a 200 names

dbVars == <<session, expired, csLock, inserting, ikCheckout, ikExpired,
            ikResp, order, payStatus, payProvider, attempts>>
reqVars == <<pc, key, cs, tries, got, reply, body>>
vars == <<dbVars, psp, reqVars>>

AttemptStatus == {"RETRYING", "SUCCESS", "UNKNOWN"}
Phases == {"idle", "validate", "lookup", "record", "reread", "order", "psp",
           "accept", "close", "done"}
Replies == {"none", "200", "400", "403", "409", "410", "500", "502",
            "unknown", "lost"}

TypeOK ==
    /\ session \in [Checkouts -> {"none", "active", "inactive"}]
    /\ expired \in [Checkouts -> BOOLEAN]
    /\ csLock \in [Checkouts -> Requests \cup {NoRequest}]
    /\ inserting \in [Keys -> Requests \cup {NoRequest}]
    /\ ikCheckout \in [Keys -> Checkouts \cup {NoCheckout}]
    /\ ikExpired \in [Keys -> BOOLEAN]
    /\ ikResp \in [Keys -> ProviderOrders \cup {NoProvider}]
    /\ order \in [Keys -> BOOLEAN]
    /\ payStatus \in [Keys -> {"none", "PENDING", "ACCEPTED"}]
    /\ payProvider \in [Keys -> ProviderOrders \cup {NoProvider}]
    /\ attempts \in [Keys -> Seq(AttemptStatus)]
    /\ psp \in [ProviderOrders -> Keys \cup {NoKey}]
    /\ pc \in [Requests -> Phases]
    /\ key \in [Requests -> Keys]
    /\ cs \in [Requests -> Checkouts]
    /\ tries \in [Requests -> Seq(AttemptStatus)]
    /\ got \in [Requests -> ProviderOrders \cup {NoProvider}]
    /\ reply \in [Requests -> Replies]
    /\ body \in [Requests -> ProviderOrders \cup {NoProvider}]

\* A client chooses the checkout and the key of its request.
Init ==
    /\ session = [c \in Checkouts |-> "none"]
    /\ expired = [c \in Checkouts |-> FALSE]
    /\ csLock = [c \in Checkouts |-> NoRequest]
    /\ inserting = [k \in Keys |-> NoRequest]
    /\ ikCheckout = [k \in Keys |-> NoCheckout]
    /\ ikExpired = [k \in Keys |-> FALSE]
    /\ ikResp = [k \in Keys |-> NoProvider]
    /\ order = [k \in Keys |-> FALSE]
    /\ payStatus = [k \in Keys |-> "none"]
    /\ payProvider = [k \in Keys |-> NoProvider]
    /\ attempts = [k \in Keys |-> <<>>]
    /\ psp = [o \in ProviderOrders |-> NoKey]
    /\ pc = [q \in Requests |-> "idle"]
    /\ key \in [Requests -> Keys]
    /\ cs \in [Requests -> Checkouts]
    /\ tries = [q \in Requests |-> <<>>]
    /\ got = [q \in Requests |-> NoProvider]
    /\ reply = [q \in Requests |-> "none"]
    /\ body = [q \in Requests |-> NoProvider]

-----------------------------------------------------------------------------
(* The other handlers of checkouts (module Checkout), and time.            *)

Active(c) == session[c] = "active"

\* Mutant: no unique index on the active checkouts of a user.
OpenAnotherCheckout(c) ==
    /\ session[c] = "none"
    /\ session' = [session EXCEPT ![c] = "active"]
    /\ UNCHANGED <<expired, csLock, inserting, ikCheckout, ikExpired, ikResp,
                   order, payStatus, payProvider, attempts, psp, reqVars>>

\* POST /checkout/initiate.  The partial unique index allows
\* a user one active checkout.
OpenCheckout(c) ==
    /\ session[c] = "none"
    /\ \A d \in Checkouts : OwnerOf[d] = OwnerOf[c] => ~Active(d)
    /\ session' = [session EXCEPT ![c] = "active"]
    /\ UNCHANGED <<expired, csLock, inserting, ikCheckout, ikExpired, ikResp,
                   order, payStatus, payProvider, attempts, psp, reqVars>>

\* The initiate and summary handlers close a checkout they find expired: an
\* update of the row, which waits for its lock.
CloseExpired(c) ==
    /\ Active(c) /\ expired[c]
    /\ csLock[c] = NoRequest
    /\ session' = [session EXCEPT ![c] = "inactive"]
    /\ UNCHANGED <<expired, csLock, inserting, ikCheckout, ikExpired, ikResp,
                   order, payStatus, payProvider, attempts, psp, reqVars>>

ExpireCheckout(c) ==
    /\ session[c] # "none" /\ ~expired[c]
    /\ expired' = [expired EXCEPT ![c] = TRUE]
    /\ UNCHANGED <<session, csLock, inserting, ikCheckout, ikExpired, ikResp,
                   order, payStatus, payProvider, attempts, psp, reqVars>>

\* A key lives for a day, longer than the checkout it was recorded for.
ExpireKey(k) ==
    /\ ikCheckout[k] # NoCheckout /\ ~ikExpired[k]
    /\ expired[ikCheckout[k]]
    /\ ikExpired' = [ikExpired EXCEPT ![k] = TRUE]
    /\ UNCHANGED <<session, expired, csLock, inserting, ikCheckout, ikResp,
                   order, payStatus, payProvider, attempts, psp, reqVars>>

-----------------------------------------------------------------------------
(* The end of a request: its transaction is committed or rolled back, its  *)
(* row lock is free, its uncommitted insert is gone.                       *)

\* Mutant: the session is not closed when a request ends.
EndTxnKeepsRow(q) ==
    /\ UNCHANGED csLock
    /\ inserting' = [k \in Keys |->
                       IF inserting[k] = q THEN NoRequest ELSE inserting[k]]

EndTxn(q) ==
    /\ csLock' = [c \in Checkouts |->
                    IF csLock[c] = q THEN NoRequest ELSE csLock[c]]
    /\ inserting' = [k \in Keys |->
                       IF inserting[k] = q THEN NoRequest ELSE inserting[k]]

Finish(q, status, o) ==
    /\ EndTxn(q)
    /\ pc' = [pc EXCEPT ![q] = "done"]
    /\ reply' = [reply EXCEPT ![q] = status]
    /\ body' = [body EXCEPT ![q] = o]
    /\ tries' = [tries EXCEPT ![q] = <<>>]
    /\ got' = [got EXCEPT ![q] = NoProvider]
    /\ UNCHANGED <<key, cs>>

Fail(q, status) == Finish(q, status, NoProvider)

Goto(q, phase) == pc' = [pc EXCEPT ![q] = phase]

\* The rows a transaction that changes none of them leaves alone.
Rows == <<session, expired, ikCheckout, ikExpired, ikResp, order, payStatus,
          payProvider, attempts>>
Locals == <<key, cs, tries, got, reply, body>>

-----------------------------------------------------------------------------
(* The first transaction.                                                  *)

Arrive(q) ==
    /\ pc[q] = "idle"
    /\ Goto(q, "validate")
    /\ UNCHANGED <<dbVars, psp, Locals>>

\* Mutant: with_for_update() dropped.
HoldNothing(q) == UNCHANGED csLock

HoldCheckout(q) == csLock' = [csLock EXCEPT ![cs[q]] = q]

\* validate_checkout_get_items_paymethod: FOR UPDATE waits for the row and
\* then looks at its newest version.  A checkout whose summary has not been
\* made has no payment method and no items (409).
ValidateCheckout(q) ==
    LET c == cs[q] IN
    /\ pc[q] = "validate"
    /\ csLock[c] = NoRequest
    /\ \/ /\ ~Active(c)
          /\ Fail(q, "403")
          /\ UNCHANGED session
       \/ /\ Active(c) /\ expired[c]
          /\ Fail(q, "410")
          /\ session' = [session EXCEPT ![c] = "inactive"]
       \/ /\ Active(c) /\ ~expired[c]
          /\ Fail(q, "409")
          /\ UNCHANGED session
       \/ /\ Active(c) /\ ~expired[c]
          /\ HoldCheckout(q)
          /\ Goto(q, "lookup")
          /\ UNCHANGED <<session, inserting, Locals>>
    /\ UNCHANGED <<expired, ikCheckout, ikExpired, ikResp, order, payStatus,
                   payProvider, attempts, psp>>

\* The row spc_by_ikey finds: the key's, when the same user recorded it.
OwnRow(q) == LET d == ikCheckout[key[q]]
             IN  d # NoCheckout /\ OwnerOf[d] = OwnerOf[cs[q]]

LookupKey(q) ==
    LET k == key[q] IN
    /\ pc[q] = "lookup"
    /\ \/ /\ OwnRow(q) /\ ikExpired[k]
          /\ Fail(q, "410")
       \/ /\ OwnRow(q) /\ ~ikExpired[k] /\ ikCheckout[k] # cs[q]
          /\ Fail(q, "400")
       \/ /\ OwnRow(q) /\ ~ikExpired[k] /\ ikCheckout[k] = cs[q]
          /\ ikResp[k] # NoProvider
          /\ Finish(q, "200", ikResp[k])
       \/ /\ \/ ~OwnRow(q)
             \/ ~ikExpired[k] /\ ikCheckout[k] = cs[q] /\ ikResp[k] = NoProvider
          /\ Goto(q, "record")
          /\ UNCHANGED <<csLock, inserting, Locals>>
    /\ UNCHANGED <<Rows, psp>>

\* record_order_idempotency: the insert waits for an uncommitted one with the
\* same key; when that is committed, DO NOTHING.
RecordKey(q) ==
    LET k == key[q] IN
    /\ pc[q] = "record"
    /\ inserting[k] = NoRequest
    /\ \/ /\ ikCheckout[k] = NoCheckout
          /\ inserting' = [inserting EXCEPT ![k] = q]
          /\ Goto(q, "order")
       \/ /\ ikCheckout[k] # NoCheckout
          /\ Goto(q, "reread")
          /\ UNCHANGED inserting
    /\ UNCHANGED <<Rows, csLock, psp, Locals>>

\* After the five seconds' sleep: the answer may be there by now.  Another
\* user's key is not found, and its ["ik_id"] raises.
RereadKey(q) ==
    LET k == key[q] IN
    /\ pc[q] = "reread"
    /\ \/ /\ OwnRow(q) /\ ikExpired[k]
          /\ Fail(q, "410")
       \/ /\ OwnRow(q) /\ ~ikExpired[k] /\ ikResp[k] # NoProvider
          /\ Finish(q, "200", ikResp[k])
       \/ /\ ~OwnRow(q)
          /\ Fail(q, "500")
       \/ /\ OwnRow(q) /\ ~ikExpired[k] /\ ikResp[k] = NoProvider
          /\ Goto(q, "order")
          /\ UNCHANGED <<csLock, inserting, Locals>>
    /\ UNCHANGED <<Rows, psp>>

\* Mutant: the user is stored where the checkout belongs.
RecordedOwner(q) == OwnerOf[cs[q]]

\* cs_id of the row record_order_idempotency inserts.
RecordedCheckout(q) == cs[q]

\* Mutant: Orders.ik_id is not unique.
NeverDuplicate(q) == FALSE

\* A second order with the ik_id violates its unique constraint.
DuplicateOrder(q) == order[key[q]]

\* record_payment_init_pending.
RecordPayment(k) == payStatus' = [payStatus EXCEPT ![k] = "PENDING"]

\* place_order_with_items and the commit.  A cash-on-delivery order fails in
\* update_order_idempotency_record: json.dumps of a body holding a UUID.
PlaceOrder(q) ==
    LET k == key[q] IN
    /\ pc[q] = "order"
    /\ \/ /\ DuplicateOrder(q) \/ MethodOf[cs[q]] = "COD"
          /\ Fail(q, "500")
          /\ UNCHANGED <<ikCheckout, order, payStatus>>
       \/ /\ ~DuplicateOrder(q) /\ MethodOf[cs[q]] = "UPI"
          /\ ikCheckout' = [ikCheckout EXCEPT ![k] =
                              IF inserting[k] = q THEN RecordedCheckout(q) ELSE @]
          /\ order' = [order EXCEPT ![k] = TRUE]
          /\ RecordPayment(k)
          /\ EndTxn(q)
          /\ Goto(q, "psp")
          /\ UNCHANGED Locals
    /\ UNCHANGED <<session, expired, ikExpired, ikResp, payProvider, attempts,
                   psp>>

-----------------------------------------------------------------------------
(* The second transaction: create_payment_intent.                          *)

\* create_psp_order, with the key in its header.  At the PSP nothing happens,
\* a new provider order is made for the key, or there is one from before.
PspEffect(k, o) ==
    \/ /\ o # NoProvider
       /\ psp[o] = NoKey
       /\ psp' = [psp EXCEPT ![o] = k]
    \/ /\ o # NoProvider => psp[o] = k
       /\ UNCHANGED psp

\* record_payment_attempt and update_payment_attempt_resp, not yet committed.
RecordAttempt(q, status) == tries' = [tries EXCEPT ![q] = Append(@, status)]

\* One attempt of retry_payments that brings back a provider order.
AttemptSucceeds(q, o) ==
    /\ pc[q] = "psp"
    /\ PspEffect(key[q], o)
    /\ RecordAttempt(q, "SUCCESS")
    /\ got' = [got EXCEPT ![q] = o]
    /\ Goto(q, "accept")
    /\ UNCHANGED <<dbVars, key, cs, reply, body>>

\* Mutant: one attempt too many.
OneMoreRetry(q) == Len(tries[q]) < MaxRetries

RetriesLeft(q) == Len(tries[q]) + 1 < MaxRetries

\* A network error or 5xx, with the provider order made or not: tried again
\* until the attempts are used up, then 502 and a rollback.
AttemptTransient(q, o) ==
    /\ pc[q] = "psp"
    /\ PspEffect(key[q], o)
    /\ \/ /\ RetriesLeft(q)
          /\ RecordAttempt(q, "RETRYING")
          /\ UNCHANGED <<csLock, inserting, pc, key, cs, got, reply, body>>
       \/ /\ ~RetriesLeft(q)
          /\ Fail(q, "502")
    /\ UNCHANGED Rows

\* 4xx or an unexpected exception: no retry, 400, and the attempt rows are
\* rolled back.
AttemptRejected(q, o) ==
    /\ pc[q] = "psp"
    /\ PspEffect(key[q], o)
    /\ Fail(q, "400")
    /\ UNCHANGED Rows

\* An answer without a provider order: the UNKNOWN attempt is flushed and, as
\* the handler then raises, rolled back with the others.
AttemptUnknown(q, o) ==
    /\ pc[q] = "psp"
    /\ PspEffect(key[q], o)
    /\ Fail(q, "unknown")
    /\ UNCHANGED Rows

\* update_idempotent_response.
StoreResponse(k, o) == ikResp' = [ikResp EXCEPT ![k] = o]

\* Mutant: update_payment_status_nprovider forgotten.
AcceptWithoutPayment(q) ==
    LET k == key[q] IN
    /\ pc[q] = "accept"
    /\ StoreResponse(k, got[q])
    /\ attempts' = [attempts EXCEPT ![k] = @ \o tries[q]]
    /\ tries' = [tries EXCEPT ![q] = <<>>]
    /\ Goto(q, "close")
    /\ UNCHANGED <<session, expired, csLock, inserting, ikCheckout, ikExpired,
                   order, payStatus, payProvider, psp, key, cs, got, reply,
                   body>>

\* update_payment_status_nprovider, the response and the commit.
AcceptPayment(q) ==
    LET k == key[q] IN
    /\ pc[q] = "accept"
    /\ payStatus' = [payStatus EXCEPT ![k] = "ACCEPTED"]
    /\ payProvider' = [payProvider EXCEPT ![k] = got[q]]
    /\ StoreResponse(k, got[q])
    /\ attempts' = [attempts EXCEPT ![k] = @ \o tries[q]]
    /\ tries' = [tries EXCEPT ![q] = <<>>]
    /\ Goto(q, "close")
    /\ UNCHANGED <<session, expired, csLock, inserting, ikCheckout, ikExpired,
                   order, psp, key, cs, got, reply, body>>

-----------------------------------------------------------------------------
(* The third transaction.                                                  *)

\* update_checkout_activeness waits for the row, then the answer goes out.
CloseCheckout(q) ==
    /\ pc[q] = "close"
    /\ csLock[cs[q]] = NoRequest
    /\ session' = [session EXCEPT ![cs[q]] = "inactive"]
    /\ Finish(q, "200", got[q])
    /\ UNCHANGED <<expired, ikCheckout, ikExpired, ikResp, order, payStatus,
                   payProvider, attempts, psp>>

\* The connection, the database or the server fails: the open transaction is
\* rolled back and the client gets no answer it can use.
Abort(q) ==
    /\ pc[q] \notin {"idle", "done"}
    /\ Fail(q, "lost")
    /\ UNCHANGED <<Rows, psp>>

-----------------------------------------------------------------------------
Step(q) ==
    \/ ValidateCheckout(q) \/ LookupKey(q) \/ RecordKey(q) \/ RereadKey(q)
    \/ PlaceOrder(q)
    \/ \E o \in ProviderOrders : AttemptSucceeds(q, o)
    \/ \E o \in ProviderOrders \cup {NoProvider} :
          AttemptTransient(q, o) \/ AttemptRejected(q, o) \/ AttemptUnknown(q, o)
    \/ AcceptPayment(q) \/ CloseCheckout(q)

Next ==
    \/ \E c \in Checkouts : OpenCheckout(c) \/ CloseExpired(c)
                              \/ ExpireCheckout(c)
    \/ \E k \in Keys : ExpireKey(k)
    \/ \E q \in Requests : Arrive(q) \/ Step(q) \/ Abort(q)

Spec == Init /\ [][Next]_vars

\* The server runs every request it accepted to its end.
FairSpec == Spec /\ \A q \in Requests : WF_vars(Step(q))
-----------------------------------------------------------------------------
(* Properties.                                                             *)

\* What the Idempotency-Key promises: the provider order of a key is decided
\* once, and each 200 names it, however many requests use the key at once and
\* wherever earlier ones were cut off (place_order, spc_by_ikey).
KeyPromise == INSTANCE IdempotentConfirm
                 WITH decided <- ikResp, keyOf <- key, answered <- body
Idempotent == KeyPromise!ASpec

\* A 200 names a provider order that the PSP made for the request's key and
\* that the committed payment row of the key's order carries, so a webhook
\* for it will find its payment.
AnswerBacked ==
    \A q \in Requests : body[q] # NoProvider =>
        LET k == key[q] IN
        /\ order[k] /\ payStatus[k] = "ACCEPTED"
        /\ payProvider[k] = body[q] /\ ikResp[k] = body[q]
        /\ psp[body[q]] = k

\* A 200 is about the checkout the request was for.  The second look at the
\* key (routes.py, after the sleep) does not compare cs_id: what keeps it
\* right is that a user has one active checkout and that the first
\* transaction holds its row.
AnswerForCheckout ==
    \A q \in Requests : body[q] # NoProvider => ikCheckout[key[q]] = cs[q]

\* One request at a time runs payment creation for a key, so the PSP never
\* gets two concurrent calls that could make two provider orders for one
\* order (the unique ik_id of Orders).
OneCallerPerKey ==
    \A q, s \in Requests :
        /\ pc[q] \in {"psp", "accept", "close"}
        /\ pc[s] \in {"psp", "accept", "close"}
        /\ key[q] = key[s]
        => q = s

\* An order is only committed for a checkout that is open at that moment, and
\* only one first transaction runs for a checkout: validity was read several
\* statements before the commit.
OrderNeedsOpenCheckout ==
    [][\A k \in Keys : order'[k] /\ ~order[k] =>
           /\ ikCheckout'[k] # NoCheckout
           /\ session[ikCheckout'[k]] = "active"
           /\ session'[ikCheckout'[k]] = "active"]_vars

\* The attempts kept for a payment are one complete run of retry_payments:
\* transient failures and then the success, at most max_retries rows, never
\* the rows of a run that was given up or of a second run.
AttemptsAreOneRun ==
    \A k \in Keys :
        LET a == attempts[k] IN
        /\ Len(a) <= MaxRetries
        /\ a = <<>> <=> payStatus[k] # "ACCEPTED"
        /\ \A i \in 1..Len(a) : a[i] = "SUCCESS" <=> i = Len(a)

\* Every accepted request is answered: waiting for the row of a checkout, for
\* an insert of the same key or for the PSP ends.
RequestsAnswered ==
    \A q \in Requests : pc[q] # "idle" ~> pc[q] = "done"
=============================================================================
