---------------------------- MODULE ConfirmProofs ----------------------------
(***************************************************************************)
(* secure-confirm keeps the promise of the Idempotency-Key, answers only   *)
(* with what is committed, and makes orders only from open checkouts, for  *)
(* every number of requests, keys, checkouts, users and retries.           *)
(***************************************************************************)
EXTENDS SecureConfirm, SequenceTheorems, TLAPS

-----------------------------------------------------------------------------
(* The inductive invariant, by the rows its parts are about.               *)

\* The requests inside the first transaction, and inside the ones after it.
Placing == {"lookup", "record", "reread", "order"}
Paying == {"psp", "accept", "close"}

\* A user has one open checkout, and the one a first transaction validated
\* stays open and locked to its end.
CheckoutHeld ==
    /\ \A c, d \in Checkouts :
          Active(c) /\ Active(d) /\ OwnerOf[c] = OwnerOf[d] => c = d
    /\ \A q \in Requests :
          pc[q] \in Placing => csLock[cs[q]] = q /\ Active(cs[q])

\* A key's row and its order are committed together, by the one request that
\* inserted the row; a request that found somebody else's row can only find
\* one for its own checkout.
KeyHasOneOrder ==
    /\ \A k \in Keys, q \in Requests : inserting[k] = q =>
          key[q] = k /\ pc[q] = "order" /\ ikCheckout[k] = NoCheckout
    /\ \A k \in Keys : order[k] <=> ikCheckout[k] # NoCheckout
    /\ \A q \in Requests : pc[q] = "order" =>
          inserting[key[q]] = q \/ ikCheckout[key[q]] # NoCheckout
    /\ \A q \in Requests : pc[q] \in {"record", "reread"} /\ OwnRow(q) =>
          ikCheckout[key[q]] = cs[q]
    /\ \A q \in Requests : pc[q] \in Paying => ikCheckout[key[q]] = cs[q]

\* The response of a key, its payment and the provider order agree, and what
\* a request has from the PSP is not yet decided or is the key's response.
ResponseMatchesPayment ==
    /\ \A k \in Keys :
          /\ ~order[k] => payStatus[k] = "none"
          /\ payStatus[k] = "ACCEPTED" <=> ikResp[k] # NoProvider
          /\ ikResp[k] # NoProvider => payProvider[k] = ikResp[k] /\ psp[ikResp[k]] = k
    /\ \A q \in Requests :
          /\ pc[q] \in {"psp", "accept"} => payStatus[key[q]] = "PENDING"
          /\ pc[q] = "accept" => got[q] # NoProvider /\ psp[got[q]] = key[q]
          /\ pc[q] = "close" => got[q] # NoProvider /\ ikResp[key[q]] = got[q]

\* An answer comes last and repeats the key's response.
AnswersRepeatResponse ==
    \A q \in Requests : body[q] # NoProvider =>
        /\ pc[q] = "done"
        /\ ikResp[key[q]] = body[q]
        /\ ikCheckout[key[q]] = cs[q]

\* A run of retry_payments: transient failures, then at most one success.
Run(t, last) ==
    /\ Len(t) <= MaxRetries
    /\ \A i \in 1..Len(t) : t[i] = "SUCCESS" <=> last /\ i = Len(t)

\* The attempts of a request are a run that is going on or has succeeded.
TriesAreARun ==
    \A q \in Requests :
        /\ pc[q] = "psp" => Len(tries[q]) < MaxRetries /\ Run(tries[q], FALSE)
        /\ pc[q] = "accept" => tries[q] # <<>> /\ Run(tries[q], TRUE)
        /\ pc[q] \notin {"psp", "accept"} => tries[q] = <<>>

\* The inductive invariant of secure-confirm.
ConfirmInv ==
    /\ TypeOK
    /\ CheckoutHeld
    /\ KeyHasOneOrder
    /\ OneCallerPerKey
    /\ ResponseMatchesPayment
    /\ AnswersRepeatResponse
    /\ TriesAreARun
    /\ AttemptsAreOneRun

-----------------------------------------------------------------------------
(* Facts about the steps.                                                  *)

\* The steps of a request that end it without a 200 and touch no row but its
\* checkout's.
GivesUp(q) ==
    /\ \E status \in Replies : Fail(q, status)
    /\ UNCHANGED <<expired, ikCheckout, ikExpired, ikResp, order, payStatus, payProvider,
                   attempts>>

\* An answer from the key's row.
Repeats(q) ==
    /\ pc[q] \in {"lookup", "reread"}
    /\ OwnRow(q)
    /\ pc[q] = "lookup" => ikCheckout[key[q]] = cs[q]
    /\ ikResp[key[q]] # NoProvider
    /\ Finish(q, "200", ikResp[key[q]])
    /\ UNCHANGED <<Rows, psp>>

\* A step to the next statement of the first transaction.
Proceeds(q) ==
    /\ \/ Arrive(q)
       \/ /\ ValidateCheckout(q)
          /\ Active(cs[q])
          /\ HoldCheckout(q)
          /\ Goto(q, "lookup")
          /\ UNCHANGED inserting
       \/ /\ pc[q] = "lookup"
          /\ OwnRow(q) => ikCheckout[key[q]] = cs[q]
          /\ Goto(q, "record")
          /\ UNCHANGED <<csLock, inserting>>
       \/ RecordKey(q)
       \/ /\ pc[q] = "reread"
          /\ OwnRow(q)
          /\ Goto(q, "order")
          /\ UNCHANGED <<csLock, inserting>>
    /\ UNCHANGED <<Rows, psp, Locals>>

\* The commit of the first transaction.
Places(q) ==
    /\ PlaceOrder(q)
    /\ ~order[key[q]]
    /\ Goto(q, "psp")
    /\ EndTxn(q)
    /\ ikCheckout' = [ikCheckout EXCEPT ![key[q]] =
                        IF inserting[key[q]] = q THEN cs[q] ELSE @]
    /\ order' = [order EXCEPT ![key[q]] = TRUE]
    /\ payStatus' = [payStatus EXCEPT ![key[q]] = "PENDING"]
    /\ UNCHANGED <<session, expired, ikExpired, ikResp, payProvider, attempts, psp,
                   Locals>>

\* A transient failure that is tried again.
Retries(q) ==
    /\ pc[q] = "psp"
    /\ Len(tries[q]) + 1 < MaxRetries
    /\ tries' = [tries EXCEPT ![q] = Append(@, "RETRYING")]
    /\ UNCHANGED <<dbVars, pc, key, cs, got, reply, body>>

\* What the PSP made for a key it keeps.
PspKeeps == \A o \in ProviderOrders : psp[o] # NoKey => psp'[o] = psp[o]

\* A checkout that somebody holds is left as it is, and none is opened.
SessionKept(q) ==
    \/ UNCHANGED session
    \/ /\ csLock[cs[q]] = NoRequest
       /\ session' = [session EXCEPT ![cs[q]] = "inactive"]

\* A call of create_order leaves the orders the provider has under their keys.
LEMMA PspEffectKeeps ==
    ASSUME TypeOK, NEW k \in Keys, NEW o \in ProviderOrders \cup {NoProvider},
           PspEffect(k, o)
    PROVE  /\ PspKeeps
           /\ psp' \in [ProviderOrders -> Keys \cup {NoKey}]
           /\ o # NoProvider => psp'[o] = k
<1>. USE ConfirmAssumption DEF PspKeeps, TypeOK
<1>1. CASE o # NoProvider /\ psp[o] = NoKey /\ psp' = [psp EXCEPT ![o] = k]
  BY <1>1
<1>2. CASE (o # NoProvider => psp[o] = k) /\ psp' = psp
  BY <1>2
<1>. QED  BY <1>1, <1>2 DEF PspEffect

\* Every step of a request is of one of eight kinds.
LEMMA RequestSteps ==
    ASSUME TypeOK, NEW q \in Requests, Arrive(q) \/ Step(q) \/ Abort(q)
    PROVE  \/ GivesUp(q) /\ SessionKept(q) /\ PspKeeps /\ pc[q] # "done"
                /\ psp' \in [ProviderOrders -> Keys \cup {NoKey}]
           \/ Repeats(q)
           \/ Proceeds(q)
           \/ Places(q)
           \/ Retries(q) /\ PspKeeps /\ psp' \in [ProviderOrders -> Keys \cup {NoKey}]
           \/ \E o \in ProviderOrders : AttemptSucceeds(q, o)
           \/ AcceptPayment(q)
           \/ CloseCheckout(q)
<1>. DEFINE Gives == GivesUp(q) /\ SessionKept(q) /\ PspKeeps /\ pc[q] # "done"
                       /\ psp' \in [ProviderOrders -> Keys \cup {NoKey}]
<1>0. key[q] \in Keys
  BY DEF TypeOK
<1>1. CASE Arrive(q)
  BY <1>1 DEF Arrive, Proceeds, dbVars, Rows
<1>2. CASE ValidateCheckout(q)
  <2>1. CASE /\ Active(cs[q]) /\ HoldCheckout(q) /\ Goto(q, "lookup")
             /\ UNCHANGED <<session, inserting, Locals>>
    BY <1>2, <2>1 DEF ValidateCheckout, Proceeds, Rows
  <2>2. CASE \/ \E status \in {"403", "409"} : Fail(q, status) /\ UNCHANGED session
             \/ /\ Fail(q, "410") /\ Active(cs[q])
                /\ session' = [session EXCEPT ![cs[q]] = "inactive"]
    <3>1. GivesUp(q)
      BY <1>2, <2>2 DEF ValidateCheckout, GivesUp, Replies
    <3>2. SessionKept(q) /\ UNCHANGED psp /\ pc[q] # "done"
      BY <1>2, <2>2 DEF ValidateCheckout, SessionKept
    <3>. QED  BY <3>1, <3>2 DEF PspKeeps, TypeOK
  <2>. QED  BY <1>2, <2>1, <2>2 DEF ValidateCheckout
<1>3. CASE LookupKey(q)
  <2>1. CASE Goto(q, "record")
    <3>1. /\ pc[q] = "lookup"
          /\ OwnRow(q) => ikCheckout[key[q]] = cs[q]
          /\ UNCHANGED <<csLock, inserting, Locals, Rows, psp>>
      BY <1>3, <2>1 DEF LookupKey, Fail, Finish, Goto, TypeOK
    <3>. QED  BY <2>1, <3>1 DEF Proceeds
  <2>2. CASE ~Goto(q, "record") /\ Finish(q, "200", ikResp[key[q]])
                 /\ ikResp[key[q]] # NoProvider /\ ikCheckout[key[q]] = cs[q]
                 /\ OwnRow(q)
    BY <1>3, <2>2 DEF LookupKey, Repeats
  <2>3. CASE \E status \in {"400", "410"} : Fail(q, status)
    <3>1. GivesUp(q) /\ UNCHANGED <<session, psp>> /\ pc[q] # "done"
      BY <1>3, <2>3 DEF LookupKey, GivesUp, Replies, Rows
    <3>. QED  BY <3>1 DEF PspKeeps, SessionKept, TypeOK
  <2>. QED  BY <1>3, <2>1, <2>2, <2>3 DEF LookupKey
<1>4. CASE RecordKey(q)
  BY <1>4 DEF RecordKey, Proceeds
<1>5. CASE RereadKey(q)
  <2>1. CASE Goto(q, "order") /\ OwnRow(q) /\ UNCHANGED <<csLock, inserting, Locals>>
    BY <1>5, <2>1 DEF RereadKey, Proceeds
  <2>2. CASE Finish(q, "200", ikResp[key[q]]) /\ ikResp[key[q]] # NoProvider
                 /\ OwnRow(q)
    BY <1>5, <2>2 DEF RereadKey, Repeats
  <2>3. CASE \E status \in {"410", "500"} : Fail(q, status)
    <3>1. GivesUp(q) /\ UNCHANGED <<session, psp>> /\ pc[q] # "done"
      BY <1>5, <2>3 DEF RereadKey, GivesUp, Replies, Rows
    <3>. QED  BY <3>1 DEF PspKeeps, SessionKept, TypeOK
  <2>. QED  BY <1>5, <2>1, <2>2, <2>3 DEF RereadKey
<1>6. CASE PlaceOrder(q)
  <2>1. CASE Goto(q, "psp") /\ ~DuplicateOrder(q) /\ EndTxn(q)
                 /\ RecordPayment(key[q]) /\ UNCHANGED Locals
                 /\ order' = [order EXCEPT ![key[q]] = TRUE]
                 /\ ikCheckout' = [ikCheckout EXCEPT ![key[q]] =
                      IF inserting[key[q]] = q THEN RecordedCheckout(q) ELSE @]
    BY <1>6, <2>1 DEF PlaceOrder, Places, DuplicateOrder, RecordPayment, RecordedCheckout
  <2>2. CASE Fail(q, "500") /\ UNCHANGED <<ikCheckout, order, payStatus>>
    <3>1. GivesUp(q) /\ UNCHANGED <<session, psp>> /\ pc[q] # "done"
      BY <1>6, <2>2 DEF PlaceOrder, GivesUp, Replies
    <3>. QED  BY <3>1 DEF PspKeeps, SessionKept, TypeOK
  <2>. QED  BY <1>6, <2>1, <2>2 DEF PlaceOrder
<1>7. ASSUME NEW o \in ProviderOrders \cup {NoProvider},
             AttemptTransient(q, o) \/ AttemptRejected(q, o) \/ AttemptUnknown(q, o)
      PROVE  \/ Gives
             \/ Retries(q) /\ PspKeeps /\ psp' \in [ProviderOrders -> Keys \cup {NoKey}]
  <2>1. pc[q] = "psp" /\ PspEffect(key[q], o) /\ UNCHANGED Rows
    BY <1>7 DEF AttemptTransient, AttemptRejected, AttemptUnknown
  <2>2. PspKeeps /\ psp' \in [ProviderOrders -> Keys \cup {NoKey}]
    BY <1>0, <2>1, PspEffectKeeps
  <2>3. CASE \E status \in {"400", "502", "unknown"} : Fail(q, status)
    <3>1. GivesUp(q) /\ UNCHANGED session
      BY <2>1, <2>3 DEF GivesUp, Replies, Rows
    <3>. QED  BY <2>1, <2>2, <3>1 DEF SessionKept
  <2>4. CASE RetriesLeft(q) /\ RecordAttempt(q, "RETRYING")
                 /\ UNCHANGED <<csLock, inserting, pc, key, cs, got, reply, body>>
    BY <2>1, <2>2, <2>4 DEF Retries, RetriesLeft, RecordAttempt, Rows, dbVars
  <2>. QED  BY <1>7, <2>3, <2>4 DEF AttemptTransient, AttemptRejected, AttemptUnknown
<1>8. CASE Abort(q)
  <2>1. GivesUp(q) /\ UNCHANGED <<session, psp>> /\ pc[q] # "done"
    BY <1>8 DEF Abort, GivesUp, Replies, Rows
  <2>. QED  BY <2>1 DEF PspKeeps, SessionKept, TypeOK
<1>. QED  BY <1>1, <1>2, <1>3, <1>4, <1>5, <1>6, <1>7, <1>8 DEF Step

\* The steps of time and of the other handlers.
Elsewhere ==
    \/ \E c \in Checkouts : OpenCheckout(c) \/ CloseExpired(c) \/ ExpireCheckout(c)
    \/ \E k \in Keys : ExpireKey(k)
    \/ UNCHANGED vars

\* Every step is one of a request or one of these.
LEMMA NextCases ==
    ASSUME [Next]_vars
    PROVE  \/ Elsewhere
           \/ \E q \in Requests : Arrive(q) \/ Step(q) \/ Abort(q)
BY DEF Next, Elsewhere

\* They change neither keys, orders, payments nor requests.
LEMMA ElsewhereLeaves ==
    ASSUME Elsewhere
    PROVE  UNCHANGED <<csLock, inserting, ikCheckout, ikResp, order, payStatus,
                       payProvider, attempts, psp, reqVars>>
BY DEF Elsewhere, OpenCheckout, CloseExpired, ExpireCheckout, ExpireKey, vars, dbVars

\* A request changes only what it has itself, and gives back only its locks.
LEMMA OnlyItsOwn ==
    ASSUME TypeOK, NEW q \in Requests, Arrive(q) \/ Step(q) \/ Abort(q)
    PROVE  /\ key' = key /\ cs' = cs
           /\ PspKeeps
           /\ \A s \in Requests \ {q} :
                 /\ pc'[s] = pc[s] /\ tries'[s] = tries[s]
                 /\ got'[s] = got[s] /\ body'[s] = body[s]
                 /\ \A c \in Checkouts : csLock[c] = s => csLock'[c] = s
                 /\ \A k \in Keys : inserting[k] = s <=> inserting'[k] = s
<1>. USE ConfirmAssumption
<1>1. CASE \/ GivesUp(q) /\ PspKeeps
           \/ Repeats(q)
           \/ CloseCheckout(q)
  <2>1. \E status \in Replies, o \in ProviderOrders \cup {NoProvider} : Finish(q, status, o)
    BY <1>1 DEF GivesUp, Repeats, CloseCheckout, Fail, Replies, TypeOK
  <2>2. PspKeeps
    BY <1>1 DEF Repeats, CloseCheckout, PspKeeps
  <2>. QED  BY <2>1, <2>2 DEF Finish, EndTxn, TypeOK
<1>2. CASE Proceeds(q)
  <2>1. UNCHANGED <<key, cs, tries, got, body, psp>>
    BY <1>2 DEF Proceeds, Locals
  <2>2. \A s \in Requests \ {q} : pc'[s] = pc[s]
    BY <1>2 DEF Proceeds, Arrive, RecordKey, Goto, TypeOK
  <2>3. \/ csLock' = csLock
        \/ csLock[cs[q]] = NoRequest /\ csLock' = [csLock EXCEPT ![cs[q]] = q]
    BY <1>2 DEF Proceeds, Arrive, RecordKey, dbVars, HoldCheckout, ValidateCheckout
  <2>4. \/ inserting' = inserting
        \/ inserting[key[q]] = NoRequest /\ inserting' = [inserting EXCEPT ![key[q]] = q]
    BY <1>2 DEF Proceeds, Arrive, RecordKey, dbVars
  <2>5. \A s \in Requests \ {q} :
           /\ \A c \in Checkouts : csLock[c] = s => csLock'[c] = s
           /\ \A k \in Keys : inserting[k] = s <=> inserting'[k] = s
    BY <2>3, <2>4 DEF TypeOK
  <2>. QED  BY <2>1, <2>2, <2>5 DEF PspKeeps
<1>3. CASE Places(q)
  BY <1>3 DEF Places, Goto, EndTxn, Locals, PspKeeps, TypeOK
<1>4. CASE Retries(q) /\ PspKeeps
  BY <1>4 DEF Retries, dbVars, TypeOK
<1>5. ASSUME NEW o \in ProviderOrders, AttemptSucceeds(q, o)
      PROVE  PspKeeps /\ UNCHANGED <<csLock, inserting, key, cs, body>>
             /\ \A s \in Requests \ {q} :
                   pc'[s] = pc[s] /\ tries'[s] = tries[s] /\ got'[s] = got[s]
  <2>1. PspKeeps
    BY <1>5, PspEffectKeeps DEF AttemptSucceeds, TypeOK
  <2>. QED  BY <1>5, <2>1 DEF AttemptSucceeds, RecordAttempt, Goto, dbVars, TypeOK
<1>6. CASE AcceptPayment(q)
  BY <1>6 DEF AcceptPayment, StoreResponse, Goto, PspKeeps, TypeOK
<1>. QED  BY <1>1, <1>2, <1>3, <1>4, <1>5, <1>6, RequestSteps

-----------------------------------------------------------------------------
(* Type correctness.                                                       *)

\* The end of a transaction keeps the types of the locks.
LEMMA EndTxnType ==
    ASSUME TypeOK, NEW q \in Requests, EndTxn(q)
    PROVE  /\ csLock' \in [Checkouts -> Requests \cup {NoRequest}]
           /\ inserting' \in [Keys -> Requests \cup {NoRequest}]
BY DEF TypeOK, EndTxn

\* So does the end of a request.
LEMMA FinishType ==
    ASSUME TypeOK, NEW q \in Requests, NEW status \in Replies,
           NEW o \in ProviderOrders \cup {NoProvider}, Finish(q, status, o)
    PROVE  /\ csLock' \in [Checkouts -> Requests \cup {NoRequest}]
           /\ inserting' \in [Keys -> Requests \cup {NoRequest}]
           /\ pc' \in [Requests -> Phases]
           /\ key' \in [Requests -> Keys]
           /\ cs' \in [Requests -> Checkouts]
           /\ tries' \in [Requests -> Seq(AttemptStatus)]
           /\ got' \in [Requests -> ProviderOrders \cup {NoProvider}]
           /\ reply' \in [Requests -> Replies]
           /\ body' \in [Requests -> ProviderOrders \cup {NoProvider}]
<1>1. EndTxn(q)
  BY DEF Finish
<1>2. <<>> \in Seq(AttemptStatus)
  OBVIOUS
<1>. QED  BY <1>1, <1>2, EndTxnType DEF Finish, TypeOK, Phases

\* No step leaves the types.
LEMMA TypeStep ==
    ASSUME TypeOK, [Next]_vars
    PROVE  TypeOK'
<1>1. CASE Elsewhere
  <2>1. UNCHANGED <<csLock, inserting, ikCheckout, ikResp, order, payStatus,
                    payProvider, attempts, psp, pc, key, cs, tries, got, reply, body>>
    BY <1>1, ElsewhereLeaves DEF reqVars
  <2>2. /\ session' \in [Checkouts -> {"none", "active", "inactive"}]
        /\ expired' \in [Checkouts -> BOOLEAN]
        /\ ikExpired' \in [Keys -> BOOLEAN]
    BY <1>1 DEF Elsewhere, OpenCheckout, CloseExpired, ExpireCheckout, ExpireKey, vars,
                dbVars, TypeOK
  <2>. QED  BY <2>1, <2>2 DEF TypeOK
<1>2. ASSUME NEW q \in Requests, Arrive(q) \/ Step(q) \/ Abort(q)
      PROVE  TypeOK'
  <2>1. CASE /\ GivesUp(q) /\ SessionKept(q)
             /\ psp' \in [ProviderOrders -> Keys \cup {NoKey}]
    <3>1. session' \in [Checkouts -> {"none", "active", "inactive"}]
      BY <2>1 DEF SessionKept, TypeOK
    <3>. QED  BY <2>1, <3>1, FinishType DEF GivesUp, Fail, TypeOK
  <2>2. CASE Repeats(q)
    <3>1. ikResp[key[q]] \in ProviderOrders \cup {NoProvider} /\ "200" \in Replies
      BY DEF TypeOK, Replies
    <3>. QED  BY <2>2, <3>1, FinishType DEF Repeats, Rows, TypeOK
  <2>3. CASE Proceeds(q)
    <3>1. pc' \in [Requests -> Phases]
      BY <2>3 DEF Proceeds, Arrive, RecordKey, Goto, Phases, TypeOK
    <3>2. csLock' \in [Checkouts -> Requests \cup {NoRequest}]
      BY <2>3 DEF Proceeds, Arrive, RecordKey, dbVars, HoldCheckout, TypeOK
    <3>3. inserting' \in [Keys -> Requests \cup {NoRequest}]
      BY <2>3 DEF Proceeds, Arrive, RecordKey, dbVars, TypeOK
    <3>. QED  BY <2>3, <3>1, <3>2, <3>3 DEF Proceeds, Rows, Locals, TypeOK
  <2>4. CASE Places(q)
    <3>1. EndTxn(q) /\ UNCHANGED <<session, expired, ikExpired, ikResp, payProvider,
                                   attempts, psp, Locals>>
      BY <2>4 DEF Places
    <3>2. /\ ikCheckout' \in [Keys -> Checkouts \cup {NoCheckout}]
          /\ order' \in [Keys -> BOOLEAN]
          /\ payStatus' \in [Keys -> {"none", "PENDING", "ACCEPTED"}]
          /\ pc' \in [Requests -> Phases]
      BY <2>4 DEF Places, Goto, Phases, TypeOK
    <3>. QED  BY <3>1, <3>2, EndTxnType DEF Locals, TypeOK
  <2>5. CASE Retries(q) /\ psp' \in [ProviderOrders -> Keys \cup {NoKey}]
    <3>1. tries' \in [Requests -> Seq(AttemptStatus)]
      BY <2>5 DEF Retries, AttemptStatus, TypeOK
    <3>. QED  BY <2>5, <3>1 DEF Retries, dbVars, TypeOK
  <2>6. ASSUME NEW o \in ProviderOrders, AttemptSucceeds(q, o)
        PROVE  TypeOK'
    <3>1. tries' \in [Requests -> Seq(AttemptStatus)]
      BY <2>6 DEF AttemptSucceeds, RecordAttempt, AttemptStatus, TypeOK
    <3>2. psp' \in [ProviderOrders -> Keys \cup {NoKey}]
      BY <2>6, PspEffectKeeps DEF AttemptSucceeds, TypeOK
    <3>. QED  BY <2>6, <3>1, <3>2 DEF AttemptSucceeds, Goto, dbVars, Phases, TypeOK
  <2>7. CASE AcceptPayment(q)
    <3>1. /\ attempts' \in [Keys -> Seq(AttemptStatus)]
          /\ tries' \in [Requests -> Seq(AttemptStatus)]
      <4>1. attempts[key[q]] \o tries[q] \in Seq(AttemptStatus) /\ <<>> \in Seq(AttemptStatus)
        BY ConcatProperties DEF TypeOK
      <4>. QED  BY <2>7, <4>1 DEF AcceptPayment, TypeOK
    <3>. QED  BY <2>7, <3>1 DEF AcceptPayment, StoreResponse, Goto, Phases, TypeOK
  <2>8. CASE CloseCheckout(q)
    <3>1. got[q] \in ProviderOrders \cup {NoProvider} /\ "200" \in Replies
      BY DEF TypeOK, Replies
    <3>2. session' \in [Checkouts -> {"none", "active", "inactive"}]
      BY <2>8 DEF CloseCheckout, TypeOK
    <3>. QED  BY <2>8, <3>1, <3>2, FinishType DEF CloseCheckout, TypeOK
  <2>. QED  BY <1>2, <2>1, <2>2, <2>3, <2>4, <2>5, <2>6, <2>7, <2>8, RequestSteps
<1>. QED  BY <1>1, <1>2, NextCases

-----------------------------------------------------------------------------
(* The checkout stays open, and the key gets one order.                    *)

\* An open checkout is closed, and its lock changes hands, only while nobody
\* holds it.
LEMMA CheckoutHeldStep ==
    ASSUME TypeOK, CheckoutHeld, [Next]_vars
    PROVE  CheckoutHeld'
<1>. USE ConfirmAssumption
<1>1. CASE Elsewhere
  <2>1. UNCHANGED <<csLock, pc, key, cs>>
    BY <1>1, ElsewhereLeaves DEF reqVars
  <2>2. ASSUME NEW c \in Checkouts, OpenCheckout(c) PROVE CheckoutHeld'
    <3>1. /\ session[c] = "none" /\ session' = [session EXCEPT ![c] = "active"]
          /\ \A d \in Checkouts : OwnerOf[d] = OwnerOf[c] => ~Active(d)
      BY <2>2 DEF OpenCheckout
    <3>. QED  BY <2>1, <3>1 DEF CheckoutHeld, Active, TypeOK
  <2>3. ASSUME NEW c \in Checkouts, CloseExpired(c) PROVE CheckoutHeld'
    <3>1. csLock[c] = NoRequest /\ session' = [session EXCEPT ![c] = "inactive"]
      BY <2>3 DEF CloseExpired
    <3>. QED  BY <2>1, <3>1 DEF CheckoutHeld, Active, TypeOK
  <2>4. CASE UNCHANGED session
    BY <2>1, <2>4 DEF CheckoutHeld, Active
  <2>. QED  BY <1>1, <2>2, <2>3, <2>4
            DEF Elsewhere, ExpireCheckout, ExpireKey, vars, dbVars
<1>2. ASSUME NEW q \in Requests, Arrive(q) \/ Step(q) \/ Abort(q)
      PROVE  CheckoutHeld'
  <2>1. /\ cs' = cs
        /\ \A s \in Requests \ {q} :
              pc'[s] = pc[s] /\ \A c \in Checkouts : csLock[c] = s => csLock'[c] = s
    BY <1>2, OnlyItsOwn
  <2>2. CASE SessionKept(q) /\ pc'[q] \notin Placing
    <3>1. \A c \in Checkouts : csLock[c] # NoRequest => session'[c] = session[c]
      BY <2>2 DEF SessionKept, TypeOK
    <3>2. \A c \in Checkouts : Active(c)' => Active(c)
      BY <2>2 DEF SessionKept, Active, TypeOK
    <3>3. ASSUME NEW s \in Requests, pc'[s] \in Placing
          PROVE  csLock'[cs[s]] = s /\ Active(cs[s])'
      <4>1. s # q /\ pc[s] \in Placing
        BY <2>1, <2>2, <3>3
      <4>2. csLock[cs[s]] = s /\ Active(cs[s]) /\ cs[s] \in Checkouts
        BY <4>1 DEF CheckoutHeld, TypeOK
      <4>. QED  BY <2>1, <3>1, <4>1, <4>2 DEF Active
    <3>. QED  BY <2>1, <3>2, <3>3 DEF CheckoutHeld
  <2>3. CASE Proceeds(q)
    <3>1. UNCHANGED session
      BY <2>3 DEF Proceeds, Rows
    <3>2. pc'[q] \in Placing => csLock'[cs[q]] = q /\ Active(cs[q])
      BY <2>3 DEF Proceeds, Arrive, RecordKey, HoldCheckout, Goto, CheckoutHeld, Placing,
                  TypeOK
    <3>. QED  BY <2>1, <3>1, <3>2 DEF CheckoutHeld, Active, TypeOK
  <2>4. \/ Proceeds(q)
        \/ SessionKept(q) /\ pc'[q] \notin Placing
    <3>1. CASE GivesUp(q) /\ SessionKept(q)
      BY <3>1 DEF GivesUp, Fail, Finish, Placing, TypeOK
    <3>2. CASE Repeats(q)
      BY <3>2 DEF Repeats, Finish, Rows, SessionKept, Placing, TypeOK
    <3>3. CASE Places(q)
      BY <3>3 DEF Places, Goto, SessionKept, Placing, TypeOK
    <3>4. CASE Retries(q)
      BY <3>4 DEF Retries, dbVars, SessionKept, Placing, TypeOK
    <3>5. CASE \E o \in ProviderOrders : AttemptSucceeds(q, o)
      BY <3>5 DEF AttemptSucceeds, dbVars, SessionKept, Goto, Placing, TypeOK
    <3>6. CASE AcceptPayment(q)
      BY <3>6 DEF AcceptPayment, SessionKept, Goto, Placing, TypeOK
    <3>7. CASE CloseCheckout(q)
      BY <3>7 DEF CloseCheckout, Finish, SessionKept, Placing, TypeOK
    <3>. QED  BY <1>2, <3>1, <3>2, <3>3, <3>4, <3>5, <3>6, <3>7, RequestSteps
  <2>. QED  BY <2>2, <2>3, <2>4
<1>. QED  BY <1>1, <1>2, NextCases

\* The row and the order of a key appear together, in the commit of the
\* request that inserted the row.
LEMMA KeyStep ==
    ASSUME TypeOK, CheckoutHeld, KeyHasOneOrder, OneCallerPerKey, [Next]_vars
    PROVE  KeyHasOneOrder' /\ OneCallerPerKey'
<1>. USE ConfirmAssumption
<1>1. CASE Elsewhere
  <2>1. UNCHANGED <<inserting, ikCheckout, order, pc, key, cs>>
    BY <1>1, ElsewhereLeaves DEF reqVars
  <2>. QED  BY <2>1 DEF KeyHasOneOrder, OneCallerPerKey, OwnRow
<1>2. ASSUME NEW q \in Requests, Arrive(q) \/ Step(q) \/ Abort(q)
      PROVE  KeyHasOneOrder' /\ OneCallerPerKey'
  <2>1. /\ key' = key /\ cs' = cs
        /\ \A s \in Requests \ {q} :
              pc'[s] = pc[s] /\ \A k \in Keys : inserting[k] = s <=> inserting'[k] = s
    BY <1>2, OnlyItsOwn
  <2>2. CASE /\ UNCHANGED <<ikCheckout, order>>
             /\ \A k \in Keys : inserting'[k] # q
             /\ pc'[q] = "done" \/ (pc[q] \in Paying /\ pc'[q] \in Paying)
    <3>1. OneCallerPerKey'
      BY <2>1, <2>2 DEF OneCallerPerKey, Paying
    <3>2. /\ \A k \in Keys, s \in Requests : inserting'[k] = s =>
                key[s] = k /\ pc'[s] = "order" /\ ikCheckout[k] = NoCheckout
          /\ \A k \in Keys : order[k] <=> ikCheckout[k] # NoCheckout
      BY <2>1, <2>2 DEF KeyHasOneOrder
    <3>3. \A s \in Requests :
             /\ pc'[s] = "order" => inserting'[key[s]] = s \/ ikCheckout[key[s]] # NoCheckout
             /\ pc'[s] \in {"record", "reread"} /\ OwnRow(s) => ikCheckout[key[s]] = cs[s]
             /\ pc'[s] \in Paying => ikCheckout[key[s]] = cs[s]
      BY <2>1, <2>2 DEF KeyHasOneOrder, Paying, TypeOK
    <3>. QED  BY <2>1, <2>2, <3>1, <3>2, <3>3 DEF KeyHasOneOrder, OwnRow
  <2>3. CASE Proceeds(q)
    <3>1. UNCHANGED <<ikCheckout, order>>
      BY <2>3 DEF Proceeds, Rows
    <3>2. \/ inserting' = inserting
          \/ /\ inserting[key[q]] = NoRequest /\ ikCheckout[key[q]] = NoCheckout
             /\ inserting' = [inserting EXCEPT ![key[q]] = q]
             /\ pc'[q] = "order"
      BY <2>3 DEF Proceeds, Arrive, RecordKey, Goto, dbVars, TypeOK
    <3>3. /\ pc'[q] \notin Paying
          /\ pc[q] # "order"
          /\ pc'[q] = "order" => inserting'[key[q]] = q \/ ikCheckout[key[q]] # NoCheckout
          /\ pc'[q] \in {"record", "reread"} /\ OwnRow(q) => ikCheckout[key[q]] = cs[q]
      BY <2>3 DEF Proceeds, Arrive, ValidateCheckout, RecordKey, Goto, Paying,
                  KeyHasOneOrder, OwnRow, TypeOK
    <3>4. OneCallerPerKey'
      BY <2>1, <3>3 DEF OneCallerPerKey, Paying
    <3>5. \A k \in Keys, s \in Requests : inserting'[k] = s =>
             key[s] = k /\ pc'[s] = "order" /\ ikCheckout[k] = NoCheckout
      BY <2>1, <3>2, <3>3 DEF KeyHasOneOrder, TypeOK
    <3>6. \A s \in Requests :
             /\ pc'[s] = "order" => inserting'[key[s]] = s \/ ikCheckout[key[s]] # NoCheckout
             /\ pc'[s] \in {"record", "reread"} /\ OwnRow(s) => ikCheckout[key[s]] = cs[s]
             /\ pc'[s] \in Paying => ikCheckout[key[s]] = cs[s]
      <4>1. ASSUME NEW s \in Requests \ {q}
            PROVE  pc'[s] = pc[s] /\ (inserting[key[s]] = s <=> inserting'[key[s]] = s)
        BY <2>1 DEF TypeOK
      <4>. QED  BY <3>3, <4>1 DEF KeyHasOneOrder
    <3>. QED  BY <2>1, <3>1, <3>4, <3>5, <3>6 DEF KeyHasOneOrder, OwnRow
  <2>4. CASE Places(q)
    <3>. DEFINE k == key[q]
    <3>1. k \in Keys /\ cs[q] \in Checkouts /\ pc[q] = "order" /\ pc'[q] = "psp"
      BY <2>4 DEF Places, PlaceOrder, Goto, TypeOK
    <3>2. ~order[k] /\ ikCheckout[k] = NoCheckout /\ inserting[k] = q
      BY <2>4, <3>1 DEF Places, KeyHasOneOrder
    <3>3. /\ ikCheckout'[k] = cs[q] /\ order'[k]
          /\ \A j \in Keys \ {k} : ikCheckout'[j] = ikCheckout[j] /\ order'[j] = order[j]
      BY <2>4, <3>1, <3>2 DEF Places, TypeOK
    <3>4. \A j \in Keys : inserting'[j] # q
      BY <2>4 DEF Places, EndTxn, TypeOK
    <3>5. \A s \in Requests \ {q} : pc[s] \in Paying => key[s] # k
      BY <3>1, <3>2 DEF KeyHasOneOrder, TypeOK
    <3>6. ASSUME NEW s \in Requests \ {q}, key[s] = k, pc[s] \in {"record", "reread"}
          PROVE  OwnerOf[cs[q]] # OwnerOf[cs[s]]
      <4>1. /\ csLock[cs[q]] = q /\ Active(cs[q])
            /\ csLock[cs[s]] = s /\ Active(cs[s])
        BY <3>1, <3>6 DEF CheckoutHeld, Placing
      <4>2. cs[q] # cs[s]
        BY <4>1, <3>6
      <4>. QED  BY <4>1, <4>2, <3>1, <3>6 DEF CheckoutHeld, TypeOK
    <3>7. OneCallerPerKey'
      BY <2>1, <3>5 DEF OneCallerPerKey, Paying
    <3>8. \A j \in Keys, s \in Requests : inserting'[j] = s =>
             key[s] = j /\ pc'[s] = "order" /\ ikCheckout'[j] = NoCheckout
      <4>. SUFFICES ASSUME NEW j \in Keys, NEW s \in Requests, inserting'[j] = s
                    PROVE  key[s] = j /\ pc'[s] = "order" /\ ikCheckout'[j] = NoCheckout
        OBVIOUS
      <4>1. s # q /\ inserting[j] = s /\ j # k
        BY <2>1, <3>2, <3>4
      <4>. QED  BY <2>1, <3>3, <4>1 DEF KeyHasOneOrder
    <3>9. \A j \in Keys : order'[j] <=> ikCheckout'[j] # NoCheckout
      BY <3>1, <3>3 DEF KeyHasOneOrder
    <3>10. \A s \in Requests :
             /\ pc'[s] = "order" => inserting'[key[s]] = s \/ ikCheckout'[key[s]] # NoCheckout
             /\ pc'[s] \in {"record", "reread"} /\ OwnRow(s)' => ikCheckout'[key[s]] = cs[s]
             /\ pc'[s] \in Paying => ikCheckout'[key[s]] = cs[s]
      <4>1. ASSUME NEW s \in Requests \ {q}, key[s] = k
            PROVE  /\ ikCheckout'[key[s]] # NoCheckout
                   /\ pc'[s] \in {"record", "reread"} => ~OwnRow(s)'
                   /\ pc'[s] \notin Paying
        BY <2>1, <3>1, <3>3, <3>5, <3>6, <4>1 DEF OwnRow
      <4>2. ASSUME NEW s \in Requests \ {q}, key[s] # k
            PROVE  /\ pc'[s] = pc[s] /\ ikCheckout'[key[s]] = ikCheckout[key[s]]
                   /\ inserting[key[s]] = s <=> inserting'[key[s]] = s
                   /\ OwnRow(s)' <=> OwnRow(s)
        <5>1. key[s] \in Keys
          BY DEF TypeOK
        <5>. QED  BY <2>1, <3>3, <4>2, <5>1 DEF OwnRow
      <4>. QED  BY <3>1, <3>3, <4>1, <4>2 DEF KeyHasOneOrder, Paying
    <3>. QED  BY <2>1, <3>7, <3>8, <3>9, <3>10 DEF KeyHasOneOrder
  <2>5. \/ Proceeds(q)
        \/ Places(q)
        \/ /\ UNCHANGED <<ikCheckout, order>>
           /\ \A k \in Keys : inserting'[k] # q
           /\ pc'[q] = "done" \/ (pc[q] \in Paying /\ pc'[q] \in Paying)
    <3>1. CASE GivesUp(q)
      BY <3>1 DEF GivesUp, Fail, Finish, EndTxn, TypeOK
    <3>2. CASE Repeats(q)
      BY <3>2 DEF Repeats, Finish, EndTxn, Rows, TypeOK
    <3>3. CASE CloseCheckout(q)
      BY <3>3 DEF CloseCheckout, Finish, EndTxn, TypeOK
    <3>4. CASE Retries(q) \/ AcceptPayment(q) \/ \E o \in ProviderOrders : AttemptSucceeds(q, o)
      <4>1. /\ UNCHANGED <<ikCheckout, order, inserting>>
            /\ pc[q] \in Paying /\ pc'[q] \in Paying
        BY <3>4 DEF Retries, AcceptPayment, AttemptSucceeds, Goto, dbVars, Paying, TypeOK
      <4>. QED  BY <4>1 DEF KeyHasOneOrder, Paying
    <3>. QED  BY <1>2, <3>1, <3>2, <3>3, <3>4, RequestSteps
  <2>. QED  BY <2>2, <2>3, <2>4, <2>5
<1>. QED  BY <1>1, <1>2, NextCases

-----------------------------------------------------------------------------
(* Response, payment and provider order agree.                             *)

\* A response is stored once, by the only request that pays for the key.
LEMMA ResponseStep ==
    ASSUME TypeOK, KeyHasOneOrder, OneCallerPerKey, ResponseMatchesPayment, [Next]_vars
    PROVE  ResponseMatchesPayment'
<1>. USE ConfirmAssumption
<1>1. CASE Elsewhere
  <2>1. UNCHANGED <<order, payStatus, payProvider, ikResp, psp, pc, key, got>>
    BY <1>1, ElsewhereLeaves DEF reqVars
  <2>. QED  BY <2>1 DEF ResponseMatchesPayment
<1>2. ASSUME NEW q \in Requests, Arrive(q) \/ Step(q) \/ Abort(q)
      PROVE  ResponseMatchesPayment'
  <2>1. /\ key' = key /\ PspKeeps
        /\ \A s \in Requests \ {q} : pc'[s] = pc[s] /\ got'[s] = got[s]
    BY <1>2, OnlyItsOwn
  <2>2. /\ \A s \in Requests : key[s] \in Keys
        /\ \A s \in Requests : got[s] \in ProviderOrders \cup {NoProvider}
        /\ \A k \in Keys : ikResp[k] \in ProviderOrders \cup {NoProvider}
    BY DEF TypeOK
  <2>3. CASE UNCHANGED <<order, payStatus, payProvider, ikResp>>
    <3>1. \A k \in Keys : ikResp[k] # NoProvider => psp'[ikResp[k]] = k
      BY <2>1, <2>2 DEF PspKeeps, ResponseMatchesPayment
    <3>2. /\ pc'[q] \in {"psp", "accept"} => payStatus[key[q]] = "PENDING"
          /\ pc'[q] = "accept" => got'[q] # NoProvider /\ psp'[got'[q]] = key[q]
          /\ pc'[q] = "close" => got'[q] # NoProvider /\ ikResp[key[q]] = got'[q]
      <4>1. CASE pc'[q] \notin Paying
        BY <4>1 DEF Paying
      <4>2. CASE Retries(q)
        BY <4>2 DEF Retries, ResponseMatchesPayment
      <4>3. ASSUME NEW o \in ProviderOrders, AttemptSucceeds(q, o)
            PROVE  /\ pc[q] = "psp" /\ pc'[q] = "accept"
                   /\ got'[q] = o /\ psp'[o] = key[q]
        BY <4>3, <2>2, PspEffectKeeps DEF AttemptSucceeds, Goto, TypeOK
      <4>4. CASE GivesUp(q) \/ Repeats(q) \/ CloseCheckout(q)
        BY <4>4 DEF GivesUp, Repeats, CloseCheckout, Fail, Finish, TypeOK
      <4>5. CASE Proceeds(q)
        BY <4>5 DEF Proceeds, Arrive, ValidateCheckout, RecordKey, Goto, TypeOK
      <4>6. ~Places(q)
        BY <2>2, <2>3 DEF Places, TypeOK
      <4>7. CASE AcceptPayment(q)
        BY <4>7, <2>2, <2>3 DEF AcceptPayment, ResponseMatchesPayment, TypeOK
      <4>. QED  BY <1>2, <4>1, <4>2, <4>3, <4>4, <4>5, <4>6, <4>7, RequestSteps
                DEF ResponseMatchesPayment
    <3>3. ASSUME NEW s \in Requests \ {q}
          PROVE  pc[s] = "accept" => psp'[got[s]] = key[s]
      BY <2>1, <2>2 DEF PspKeeps, ResponseMatchesPayment
    <3>. QED  BY <2>1, <2>3, <3>1, <3>2, <3>3 DEF ResponseMatchesPayment
  <2>4. CASE Places(q)
    <3>. DEFINE k == key[q]
    <3>1. /\ ~order[k] /\ order'[k] /\ pc'[q] = "psp"
          /\ payStatus'[k] = "PENDING"
          /\ \A j \in Keys \ {k} : order'[j] = order[j] /\ payStatus'[j] = payStatus[j]
          /\ UNCHANGED <<ikResp, payProvider, psp>>
      BY <2>2, <2>4 DEF Places, Goto, TypeOK
    <3>2. payStatus[k] = "none" /\ ikResp[k] = NoProvider
      BY <2>2, <3>1 DEF ResponseMatchesPayment
    <3>3. \A s \in Requests : pc[s] \in Paying => key[s] # k
      BY <2>2, <3>1 DEF KeyHasOneOrder, TypeOK
    <3>4. \A j \in Keys :
             /\ ~order'[j] => payStatus'[j] = "none"
             /\ payStatus'[j] = "ACCEPTED" <=> ikResp[j] # NoProvider
      BY <3>1, <3>2 DEF ResponseMatchesPayment
    <3>5. \A s \in Requests :
             /\ pc'[s] \in {"psp", "accept"} => payStatus'[key[s]] = "PENDING"
             /\ pc'[s] \in {"accept", "close"} => s # q
      BY <2>1, <2>2, <3>1, <3>3 DEF ResponseMatchesPayment, Paying
    <3>. QED  BY <2>1, <3>1, <3>4, <3>5 DEF ResponseMatchesPayment
  <2>5. CASE AcceptPayment(q)
    <3>. DEFINE k == key[q]
    <3>1. /\ pc[q] = "accept" /\ pc'[q] = "close"
          /\ payStatus'[k] = "ACCEPTED" /\ payProvider'[k] = got[q] /\ ikResp'[k] = got[q]
          /\ \A j \in Keys \ {k} : /\ payStatus'[j] = payStatus[j]
                                   /\ payProvider'[j] = payProvider[j]
                                   /\ ikResp'[j] = ikResp[j]
          /\ UNCHANGED <<order, psp, got>>
      BY <2>2, <2>5 DEF AcceptPayment, StoreResponse, Goto, TypeOK
    <3>2. got[q] # NoProvider /\ psp[got[q]] = k /\ order[k]
      BY <2>2, <3>1 DEF ResponseMatchesPayment
    <3>3. \A s \in Requests \ {q} : pc[s] \in Paying => key[s] # k
      BY <3>1 DEF OneCallerPerKey, Paying
    <3>. QED  BY <2>1, <2>2, <3>1, <3>2, <3>3 DEF ResponseMatchesPayment, Paying
  <2>6. \/ UNCHANGED <<order, payStatus, payProvider, ikResp>>
        \/ Places(q)
        \/ AcceptPayment(q)
    BY <1>2, RequestSteps
       DEF GivesUp, Repeats, Proceeds, Retries, AttemptSucceeds, CloseCheckout, Rows, dbVars
  <2>. QED  BY <2>3, <2>4, <2>5, <2>6
<1>. QED  BY <1>1, <1>2, NextCases

\* An answer repeats the response of its key's row, and the row is one for
\* the checkout of the request.
LEMMA AnswerStep ==
    ASSUME TypeOK, KeyHasOneOrder, ResponseMatchesPayment, AnswersRepeatResponse,
           [Next]_vars
    PROVE  AnswersRepeatResponse'
<1>. USE ConfirmAssumption
<1>1. CASE Elsewhere
  <2>1. UNCHANGED <<ikCheckout, ikResp, pc, key, cs, body>>
    BY <1>1, ElsewhereLeaves DEF reqVars
  <2>. QED  BY <2>1 DEF AnswersRepeatResponse
<1>2. ASSUME NEW q \in Requests, Arrive(q) \/ Step(q) \/ Abort(q)
      PROVE  AnswersRepeatResponse'
  <2>1. /\ key' = key /\ cs' = cs
        /\ \A s \in Requests \ {q} : pc'[s] = pc[s] /\ body'[s] = body[s]
    BY <1>2, OnlyItsOwn
  <2>2. \A s \in Requests : key[s] \in Keys /\ cs[s] \in Checkouts
    BY DEF TypeOK
  <2>3. \A k \in Keys : ikResp[k] # NoProvider =>
           ikResp'[k] = ikResp[k] /\ ikCheckout'[k] = ikCheckout[k]
    <3>1. CASE UNCHANGED <<ikCheckout, ikResp>>
      BY <3>1
    <3>2. CASE Places(q)
      <4>1. ikResp[key[q]] = NoProvider
        BY <3>2, <2>2 DEF Places, ResponseMatchesPayment
      <4>. QED  BY <3>2, <4>1, <2>2 DEF Places, TypeOK
    <3>3. CASE AcceptPayment(q)
      <4>1. ikResp[key[q]] = NoProvider
        BY <3>3, <2>2 DEF AcceptPayment, ResponseMatchesPayment
      <4>. QED  BY <3>3, <4>1, <2>2 DEF AcceptPayment, StoreResponse, TypeOK
    <3>. QED  BY <1>2, <3>1, <3>2, <3>3, RequestSteps
              DEF GivesUp, Repeats, Proceeds, Retries, AttemptSucceeds, CloseCheckout,
                  Rows, dbVars
  <2>4. body'[q] # NoProvider =>
           /\ pc'[q] = "done" /\ ikResp'[key[q]] = body'[q]
           /\ ikCheckout'[key[q]] = cs[q]
    <3>1. CASE GivesUp(q)
      BY <3>1 DEF GivesUp, Fail, Finish, TypeOK
    <3>2. CASE Repeats(q)
      <4>1. ikCheckout[key[q]] = cs[q]
        BY <3>2 DEF Repeats, KeyHasOneOrder
      <4>. QED  BY <3>2, <4>1 DEF Repeats, Finish, Rows, TypeOK
    <3>3. CASE CloseCheckout(q)
      <4>1. ikCheckout[key[q]] = cs[q] /\ ikResp[key[q]] = got[q]
        BY <3>3 DEF CloseCheckout, KeyHasOneOrder, ResponseMatchesPayment, Paying
      <4>. QED  BY <3>3, <4>1 DEF CloseCheckout, Finish, TypeOK
    <3>4. CASE \/ Proceeds(q) \/ Places(q) \/ Retries(q) \/ AcceptPayment(q)
               \/ \E o \in ProviderOrders : AttemptSucceeds(q, o)
      <4>1. body' = body
        BY <3>4 DEF Proceeds, Places, Retries, AcceptPayment, AttemptSucceeds, Locals
      <4>2. pc[q] # "done"
        BY <3>4 DEF Proceeds, Arrive, ValidateCheckout, RecordKey, Places, PlaceOrder,
                    Retries, AcceptPayment, AttemptSucceeds
      <4>. QED  BY <4>1, <4>2 DEF AnswersRepeatResponse
    <3>. QED  BY <1>2, <3>1, <3>2, <3>3, <3>4, RequestSteps
  <2>. QED  BY <2>1, <2>2, <2>3, <2>4 DEF AnswersRepeatResponse
<1>. QED  BY <1>1, <1>2, NextCases

-----------------------------------------------------------------------------
(* The attempts that are kept are one run of retry_payments.               *)

\* One more attempt continues a run, or ends it.
LEMMA RunGrows ==
    ASSUME NEW t \in Seq(AttemptStatus), Len(t) < MaxRetries, Run(t, FALSE)
    PROVE  /\ Append(t, "SUCCESS") # <<>> /\ Run(Append(t, "SUCCESS"), TRUE)
           /\ Run(Append(t, "RETRYING"), FALSE)
           /\ Len(Append(t, "RETRYING")) = Len(t) + 1
BY ConfirmAssumption DEF Run, AttemptStatus

\* The attempts of a call grow by one result at a time, and are stored as they are.
LEMMA AttemptsStep ==
    ASSUME TypeOK, KeyHasOneOrder, ResponseMatchesPayment, TriesAreARun,
           AttemptsAreOneRun, [Next]_vars
    PROVE  TriesAreARun' /\ AttemptsAreOneRun'
<1>. USE ConfirmAssumption
<1>1. CASE Elsewhere
  <2>1. UNCHANGED <<payStatus, attempts, pc, tries>>
    BY <1>1, ElsewhereLeaves DEF reqVars
  <2>. QED  BY <2>1 DEF TriesAreARun, AttemptsAreOneRun
<1>2. ASSUME NEW q \in Requests, Arrive(q) \/ Step(q) \/ Abort(q)
      PROVE  TriesAreARun' /\ AttemptsAreOneRun'
  <2>1. \A s \in Requests \ {q} : pc'[s] = pc[s] /\ tries'[s] = tries[s]
    BY <1>2, OnlyItsOwn
  <2>2. key[q] \in Keys /\ tries[q] \in Seq(AttemptStatus)
    BY DEF TypeOK
  <2>3. /\ pc'[q] = "psp" => Len(tries'[q]) < MaxRetries /\ Run(tries'[q], FALSE)
        /\ pc'[q] = "accept" => tries'[q] # <<>> /\ Run(tries'[q], TRUE)
        /\ pc'[q] \notin {"psp", "accept"} => tries'[q] = <<>>
    <3>1. CASE GivesUp(q) \/ Repeats(q) \/ CloseCheckout(q) \/ AcceptPayment(q)
      <4>1. pc'[q] \in {"done", "close"} /\ tries'[q] = <<>>
        BY <3>1 DEF GivesUp, Repeats, CloseCheckout, AcceptPayment, Fail, Finish, Goto, TypeOK
      <4>. QED  BY <4>1
    <3>2. CASE Proceeds(q)
      <4>1. /\ pc[q] \notin {"psp", "accept"} /\ pc'[q] \notin {"psp", "accept"}
            /\ tries' = tries
        BY <3>2 DEF Proceeds, Arrive, ValidateCheckout, RecordKey, Goto, Locals, TypeOK
      <4>. QED  BY <4>1 DEF TriesAreARun
    <3>3. CASE Places(q)
      <4>1. pc[q] = "order" /\ pc'[q] = "psp" /\ tries' = tries
        BY <3>3 DEF Places, PlaceOrder, Goto, Locals, TypeOK
      <4>2. tries'[q] = <<>> /\ Len(<<>>) = 0
        BY <4>1 DEF TriesAreARun
      <4>. QED  BY <4>1, <4>2 DEF Run
    <3>4. CASE Retries(q)
      <4>1. /\ pc[q] = "psp" /\ pc'[q] = "psp" /\ Len(tries[q]) + 1 < MaxRetries
            /\ tries'[q] = Append(tries[q], "RETRYING")
        BY <3>4 DEF Retries, TypeOK
      <4>2. Len(tries[q]) < MaxRetries /\ Run(tries[q], FALSE)
        BY <4>1 DEF TriesAreARun
      <4>. QED  BY <2>2, <4>1, <4>2, RunGrows
    <3>5. CASE \E o \in ProviderOrders : AttemptSucceeds(q, o)
      <4>1. /\ pc[q] = "psp" /\ pc'[q] = "accept"
            /\ tries'[q] = Append(tries[q], "SUCCESS")
        BY <3>5 DEF AttemptSucceeds, RecordAttempt, Goto, TypeOK
      <4>2. Len(tries[q]) < MaxRetries /\ Run(tries[q], FALSE)
        BY <4>1 DEF TriesAreARun
      <4>. QED  BY <2>2, <4>1, <4>2, RunGrows
    <3>. QED  BY <1>2, <3>1, <3>2, <3>3, <3>4, <3>5, RequestSteps
  <2>4. TriesAreARun'
    BY <2>1, <2>3 DEF TriesAreARun, Run
  <2>5. AttemptsAreOneRun'
    <3>1. CASE UNCHANGED <<payStatus, attempts>>
      BY <3>1 DEF AttemptsAreOneRun
    <3>2. CASE Places(q)
      <4>1. /\ UNCHANGED attempts
            /\ payStatus'[key[q]] # "ACCEPTED" /\ payStatus[key[q]] # "ACCEPTED"
            /\ \A k \in Keys \ {key[q]} : payStatus'[k] = payStatus[k]
        BY <2>2, <3>2 DEF Places, ResponseMatchesPayment, TypeOK
      <4>. QED  BY <4>1 DEF AttemptsAreOneRun
    <3>3. CASE AcceptPayment(q)
      <4>1. /\ pc[q] = "accept"
            /\ attempts'[key[q]] = attempts[key[q]] \o tries[q]
            /\ payStatus'[key[q]] = "ACCEPTED"
            /\ \A k \in Keys \ {key[q]} :
                  payStatus'[k] = payStatus[k] /\ attempts'[k] = attempts[k]
        BY <2>2, <3>3 DEF AcceptPayment, TypeOK
      <4>2. attempts[key[q]] = <<>> /\ tries[q] # <<>> /\ Run(tries[q], TRUE)
        BY <2>2, <4>1 DEF ResponseMatchesPayment, AttemptsAreOneRun, TriesAreARun
      <4>3. attempts'[key[q]] = tries[q]
        BY <2>2, <4>1, <4>2, ConcatEmptySeq
      <4>. QED  BY <4>1, <4>2, <4>3 DEF AttemptsAreOneRun, Run
    <3>. QED  BY <1>2, <3>1, <3>2, <3>3, RequestSteps
              DEF GivesUp, Repeats, Proceeds, Retries, AttemptSucceeds, CloseCheckout,
                  Rows, dbVars
  <2>. QED  BY <2>4, <2>5
<1>. QED  BY <1>1, <1>2, NextCases

-----------------------------------------------------------------------------
(* The theorems.                                                           *)

\* No request, no key and no order at the start.
LEMMA ConfirmInit == Init => ConfirmInv
<1>. SUFFICES ASSUME Init PROVE ConfirmInv
  OBVIOUS
<1>1. TypeOK
  <2>1. <<>> \in Seq(AttemptStatus)
    OBVIOUS
  <2>. QED  BY <2>1 DEF Init, TypeOK, Phases, Replies
<1>2. CheckoutHeld /\ KeyHasOneOrder /\ OneCallerPerKey
  BY ConfirmAssumption
     DEF Init, CheckoutHeld, KeyHasOneOrder, OneCallerPerKey, Active, Placing, Paying, OwnRow
<1>3. ResponseMatchesPayment /\ AnswersRepeatResponse
  BY DEF Init, ResponseMatchesPayment, AnswersRepeatResponse
<1>4. TriesAreARun /\ AttemptsAreOneRun
  <2>1. Len(<<>>) = 0
    OBVIOUS
  <2>. QED  BY <2>1, ConfirmAssumption DEF Init, TriesAreARun, AttemptsAreOneRun
<1>. QED  BY <1>1, <1>2, <1>3, <1>4 DEF ConfirmInv

\* The inductive invariant of secure-confirm.
THEOREM ConfirmInvariant == Spec => []ConfirmInv
<1>1. Init => ConfirmInv
  BY ConfirmInit
<1>2. ConfirmInv /\ [Next]_vars => ConfirmInv'
  BY TypeStep, CheckoutHeldStep, KeyStep, ResponseStep, AnswerStep, AttemptsStep
     DEF ConfirmInv
<1>. QED  BY <1>1, <1>2, PTL DEF Spec

\* Every row, lock and request keeps its type.
THEOREM ConfirmTypeCorrect == Spec => []TypeOK
BY ConfirmInvariant, PTL DEF ConfirmInv

\* One request at a time runs payment creation for a key.
THEOREM OneCallerForEachKey == Spec => []OneCallerPerKey
BY ConfirmInvariant, PTL DEF ConfirmInv

\* The attempts kept for a payment are one complete run.
THEOREM AttemptsKeptAreOneRun == Spec => []AttemptsAreOneRun
BY ConfirmInvariant, PTL DEF ConfirmInv

\* A 200 names what is committed and what the PSP made for the key.
THEOREM AnswersAreBacked == Spec => []AnswerBacked
<1>1. ConfirmInv => AnswerBacked
  BY DEF ConfirmInv, AnswerBacked, ResponseMatchesPayment, AnswersRepeatResponse, TypeOK
<1>. QED  BY <1>1, ConfirmInvariant, PTL

\* A 200 is about the checkout the request was for, although the second look
\* at the key does not compare the checkouts.
THEOREM AnswersAreForCheckout == Spec => []AnswerForCheckout
<1>1. ConfirmInv => AnswerForCheckout
  BY DEF ConfirmInv, AnswerForCheckout, AnswersRepeatResponse
<1>. QED  BY <1>1, ConfirmInvariant, PTL

\* An order is committed only from a checkout that is open at that moment.
THEOREM OrdersNeedOpenCheckout == Spec => OrderNeedsOpenCheckout
<1>. DEFINE Opened == \A k \in Keys : order'[k] /\ ~order[k] =>
                         /\ ikCheckout'[k] # NoCheckout
                         /\ session[ikCheckout'[k]] = "active"
                         /\ session'[ikCheckout'[k]] = "active"
<1>1. ConfirmInv /\ [Next]_vars => [Opened]_vars
  <2>. SUFFICES ASSUME ConfirmInv, [Next]_vars, NEW k \in Keys, order'[k], ~order[k]
                PROVE  /\ ikCheckout'[k] # NoCheckout
                       /\ session[ikCheckout'[k]] = "active"
                       /\ session'[ikCheckout'[k]] = "active"
    OBVIOUS
  <2>1. TypeOK /\ CheckoutHeld /\ KeyHasOneOrder
    BY DEF ConfirmInv
  <2>2. PICK q \in Requests : Arrive(q) \/ Step(q) \/ Abort(q)
    BY NextCases, ElsewhereLeaves
  <2>3. Places(q)
    BY <2>1, <2>2, RequestSteps
       DEF GivesUp, Repeats, Proceeds, Retries, AttemptSucceeds, AcceptPayment,
           CloseCheckout, Rows, dbVars
  <2>4. k = key[q] /\ pc[q] = "order" /\ UNCHANGED session
    BY <2>1, <2>3 DEF Places, PlaceOrder, TypeOK
  <2>5. inserting[k] = q
    BY <2>1, <2>4 DEF KeyHasOneOrder
  <2>6. ikCheckout'[k] = cs[q] /\ cs[q] \in Checkouts
    BY <2>1, <2>3, <2>4, <2>5 DEF Places, TypeOK
  <2>7. Active(cs[q])
    BY <2>1, <2>4 DEF CheckoutHeld, Placing
  <2>. QED  BY <2>4, <2>6, <2>7, ConfirmAssumption DEF Active
<1>. QED  BY <1>1, ConfirmInvariant, PTL DEF Spec, OrderNeedsOpenCheckout

\* secure-confirm implements what an Idempotency-Key promises: AcceptPayment
\* decides the provider order of the key, the three ways to a 200 name it,
\* and no other step is visible to the clients of the key.
THEOREM ImplementsKeyPromise == Spec => Idempotent
<1>1. Init => KeyPromise!AInit
  BY DEF Init, KeyPromise!AInit
<1>2. ConfirmInv /\ [Next]_vars => [KeyPromise!ANext]_(KeyPromise!aVars)
  <2>. SUFFICES ASSUME ConfirmInv, [Next]_vars
                PROVE  KeyPromise!ANext \/ UNCHANGED <<ikResp, key, body>>
    BY DEF KeyPromise!aVars
  <2>. USE ConfirmAssumption
  <2>1. /\ TypeOK /\ ResponseMatchesPayment /\ AnswersRepeatResponse
    BY DEF ConfirmInv
  <2>2. CASE Elsewhere
    BY <2>2, ElsewhereLeaves DEF reqVars
  <2>3. ASSUME NEW q \in Requests, Arrive(q) \/ Step(q) \/ Abort(q)
        PROVE  KeyPromise!ANext \/ UNCHANGED <<ikResp, key, body>>
    <3>1. key' = key /\ key[q] \in Keys
      BY <2>1, <2>3, OnlyItsOwn DEF TypeOK
    <3>2. CASE GivesUp(q) /\ pc[q] # "done"
      <4>1. body[q] = NoProvider
        BY <2>1, <3>2 DEF AnswersRepeatResponse
      <4>2. body' = [body EXCEPT ![q] = NoProvider]
        BY <3>2 DEF GivesUp, Fail, Finish
      <4>3. body' = body
        BY <2>1, <4>1, <4>2 DEF TypeOK
      <4>. QED  BY <3>1, <3>2, <4>3 DEF GivesUp
    <3>3. CASE Repeats(q) \/ CloseCheckout(q)
      <4>1. /\ ikResp[key[q]] # NoProvider /\ pc[q] # "done" /\ UNCHANGED ikResp
            /\ body' = [body EXCEPT ![q] = ikResp[key[q]]]
        BY <2>1, <3>3 DEF Repeats, CloseCheckout, Finish, Rows, ResponseMatchesPayment
      <4>2. body[q] = NoProvider
        BY <2>1, <4>1 DEF AnswersRepeatResponse
      <4>. QED  BY <3>1, <4>1, <4>2 DEF KeyPromise!ANext, KeyPromise!Answer
    <3>4. CASE AcceptPayment(q)
      <4>1. /\ ikResp[key[q]] = NoProvider /\ got[q] \in ProviderOrders
        BY <2>1, <3>1, <3>4 DEF AcceptPayment, ResponseMatchesPayment, TypeOK
      <4>2. ikResp' = [ikResp EXCEPT ![key[q]] = got[q]] /\ body' = body
        BY <3>4 DEF AcceptPayment, StoreResponse
      <4>. QED  BY <3>1, <4>1, <4>2 DEF KeyPromise!ANext, KeyPromise!Decide
    <3>5. CASE \/ Proceeds(q) \/ Places(q) \/ Retries(q)
               \/ \E o \in ProviderOrders : AttemptSucceeds(q, o)
      BY <3>1, <3>5 DEF Proceeds, Places, Retries, AttemptSucceeds, Rows, Locals, dbVars
    <3>. QED  BY <2>1, <2>3, <3>2, <3>3, <3>4, <3>5, RequestSteps
  <2>. QED  BY <2>2, <2>3, NextCases
<1>. QED  BY <1>1, <1>2, ConfirmInvariant, PTL DEF Spec, Idempotent, KeyPromise!ASpec
=============================================================================
