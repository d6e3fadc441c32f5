-------------------------- MODULE IdempotentConfirm --------------------------
(***************************************************************************)
(* What an Idempotency-Key promises the clients of secure-confirm: the     *)
(* provider order a key stands for is decided at most once, and every      *)
(* successful answer to a request with that key names it.                  *)
(***************************************************************************)
CONSTANTS Keys, Requests, ProviderOrders, NoProvider

VARIABLES decided,   \* the provider order of each key
          keyOf,     \* the key of each request, once it has arrived
          answered   \* the provider order named in the answer to a request

aVars == <<decided, keyOf, answered>>

AInit ==
    /\ decided = [k \in Keys |-> NoProvider]
    /\ keyOf \in [Requests -> Keys]
    /\ answered = [q \in Requests |-> NoProvider]

Decide(k, o) ==
    /\ decided[k] = NoProvider
    /\ decided' = [decided EXCEPT ![k] = o]
    /\ UNCHANGED <<keyOf, answered>>

Answer(q) ==
    /\ answered[q] = NoProvider
    /\ decided[keyOf[q]] # NoProvider
    /\ answered' = [answered EXCEPT ![q] = decided[keyOf[q]]]
    /\ UNCHANGED <<decided, keyOf>>

ANext == \/ \E k \in Keys, o \in ProviderOrders : Decide(k, o)
         \/ \E q \in Requests : Answer(q)

ASpec == AInit /\ [][ANext]_aVars
=============================================================================
