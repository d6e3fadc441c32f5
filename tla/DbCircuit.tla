------------------------------ MODULE DbCircuit ------------------------------
(***************************************************************************)
(* The in-memory circuit breaker of one server process                     *)
(* (backend/common/circuit_breaker.py) and the decorator                   *)
(* retry_with_db_circuit (backend/common/retries.py) that puts it around a *)
(* database call: the login route.                                         *)
(*                                                                         *)
(* A caller is a task that serves one decorated request after another.     *)
(* The event loop switches tasks only where a task suspends: in the wait   *)
(* for a half-open probe, in the decorated call and in the delay before    *)
(* the next attempt.  The breaker's lock is never held across a            *)
(* suspension, so what happens between two suspensions is one step.        *)
(***************************************************************************)
EXTENDS Integers, FiniteSets

CONSTANTS Callers,
          Attempts,          \* attempts of retry_with_db_circuit
          FailureThreshold,  \* failure_threshold
          SuccessThreshold,  \* half_open_success_threshold
          MaxProbes          \* max_concurrent_half_open_probes

ASSUME CircuitAssumption ==
    /\ IsFiniteSet(Callers)
    /\ {Attempts, FailureThreshold, SuccessThreshold, MaxProbes} \subseteq Nat \ {0}

VARIABLES
    state,      \* _state
    fails,      \* _fail_count
    opened,     \* _opened_at: None, recent, or recovery_timeout ago
    successes,  \* _half_open_success_count
    permits,    \* the value of _half_open_semaphore
    db,         \* the database answers or it does not
    pc,         \* where a caller's request is
    attempt,    \* the loop variable of its wrapper
    probing     \* the callers whose acquired_probe is set

breaker == <<state, fails, opened, successes>>
vars == <<breaker, permits, db, pc, attempt, probing>>

States == {"CLOSED", "OPEN", "HALF_OPEN"}

TypeOK ==
    /\ state \in States
    /\ fails \in 0 .. FailureThreshold - 1
    /\ opened \in {"none", "recent", "old"}
    /\ successes \in 0 .. SuccessThreshold - 1
    /\ permits \in 0 .. MaxProbes
    /\ db \in {"up", "down"}
    /\ pc \in [Callers -> {"idle", "waiting", "calling", "sleeping"}]
    /\ attempt \in [Callers -> 1 .. Attempts]
    /\ probing \subseteq Callers

Init ==
    /\ state = "CLOSED"
    /\ fails = 0
    /\ opened = "none"
    /\ successes = 0
    /\ permits = MaxProbes
    /\ db = "up"
    /\ pc = [c \in Callers |-> "idle"]
    /\ attempt = [c \in Callers |-> 1]
    /\ probing = {}

-----------------------------------------------------------------------------
(* The breaker.                                                            *)

\* _maybe_transition, under the lock of before_call.
MaybeTransition ==
    IF state = "OPEN" /\ opened = "old"
    THEN /\ state' = "HALF_OPEN"
         /\ successes' = 0
         /\ UNCHANGED <<fails, opened>>
    ELSE UNCHANGED breaker

Close ==
    /\ state' = "CLOSED"
    /\ fails' = 0
    /\ successes' = 0
    /\ opened' = "none"

\* Mutant: a late success closes an open circuit.
LateSuccessCloses ==
    IF state = "CLOSED" THEN fails' = 0 /\ UNCHANGED <<state, opened, successes>>
                        ELSE Close

\* Mutant: a success is recorded only while the circuit is closed.
ForgetsHalfOpen ==
    /\ fails' = IF state = "CLOSED" THEN 0 ELSE fails
    /\ UNCHANGED <<state, opened, successes>>

RecordSuccess ==
    \/ state = "HALF_OPEN" /\ successes + 1 >= SuccessThreshold /\ Close
    \/ /\ state = "HALF_OPEN" /\ successes + 1 < SuccessThreshold
       /\ successes' = successes + 1
       /\ UNCHANGED <<state, fails, opened>>
    \/ state = "CLOSED" /\ fails' = 0 /\ UNCHANGED <<state, opened, successes>>
    \/ state = "OPEN" /\ UNCHANGED breaker

Open ==
    /\ state' = "OPEN"
    /\ opened' = "recent"
    /\ fails' = 0

\* Mutant: the count of a half-open period survives the failure that ends it.
KeepsSuccesses ==
    \/ state = "HALF_OPEN" /\ Open /\ UNCHANGED successes
    \/ state = "CLOSED" /\ fails + 1 >= FailureThreshold /\ Open /\ UNCHANGED successes
    \/ /\ state = "CLOSED" /\ fails + 1 < FailureThreshold
       /\ fails' = fails + 1
       /\ UNCHANGED <<state, opened, successes>>
    \/ state = "OPEN" /\ UNCHANGED breaker

RecordFailure ==
    \/ state = "HALF_OPEN" /\ Open /\ successes' = 0
    \/ state = "CLOSED" /\ fails + 1 >= FailureThreshold /\ Open /\ UNCHANGED successes
    \/ /\ state = "CLOSED" /\ fails + 1 < FailureThreshold
       /\ fails' = fails + 1
       /\ UNCHANGED <<state, opened, successes>>
    \/ state = "OPEN" /\ UNCHANGED breaker

\* time.monotonic() reaches opened_at + recovery_timeout.
RecoveryTimeout ==
    /\ state = "OPEN"
    /\ opened = "recent"
    /\ opened' = "old"
    /\ UNCHANGED <<state, fails, successes, permits, db, pc, attempt, probing>>

-----------------------------------------------------------------------------
(* retry_with_db_circuit.                                                  *)

\* release_half_open_probe, by a caller that acquired one.
ReleaseProbe(c) ==
    /\ permits' = IF c \in probing THEN permits + 1 ELSE permits
    /\ probing' = probing \ {c}

\* The wrapper returns or raises; the task takes its next request.
Done(c) ==
    /\ pc' = [pc EXCEPT ![c] = "idle"]
    /\ attempt' = [attempt EXCEPT ![c] = 1]

\* An attempt begins: before_call, and the test of _state after it.  An open
\* circuit answers 503.
BeforeCall(c) ==
    /\ pc[c] \in {"idle", "sleeping"}
    /\ MaybeTransition
    /\ IF state' = "OPEN"
       THEN Done(c)
       ELSE /\ pc' = [pc EXCEPT ![c] =
                        IF state' = "HALF_OPEN" THEN "waiting" ELSE "calling"]
            /\ UNCHANGED attempt
    /\ UNCHANGED <<permits, db, probing>>

\* acquire_half_open_probe.  The circuit may have moved on meanwhile.
AcquireProbe(c) ==
    /\ pc[c] = "waiting"
    /\ permits > 0
    /\ permits' = permits - 1
    /\ probing' = probing \cup {c}
    /\ pc' = [pc EXCEPT ![c] = "calling"]
    /\ UNCHANGED <<breaker, db, attempt>>

\* No probe within 0.1 s (503), or the task is cancelled while it waits.
ProbeTimeout(c) ==
    /\ pc[c] = "waiting"
    /\ Done(c)
    /\ UNCHANGED <<breaker, permits, db, probing>>

Succeed(c) ==
    /\ pc[c] = "calling"
    /\ db = "up"
    /\ ReleaseProbe(c)
    /\ RecordSuccess
    /\ Done(c)
    /\ UNCHANGED db

\* The call raises what is_recoverable_exception accepts: the database did
\* not answer.  The last attempt raises without recording the failure.
FailRecoverable(c) ==
    /\ pc[c] = "calling"
    /\ db = "down"
    /\ ReleaseProbe(c)
    /\ IF attempt[c] = Attempts
       THEN Done(c) /\ UNCHANGED breaker
       ELSE /\ RecordFailure
            /\ pc' = [pc EXCEPT ![c] = "sleeping"]
            /\ attempt' = [attempt EXCEPT ![c] = @ + 1]
    /\ UNCHANGED db

\* Mutant: a probe that ends in an error of the request is not released.
LeakProbe(c) ==
    /\ pc[c] = "calling"
    /\ Done(c)
    /\ probing' = probing \ {c}
    /\ UNCHANGED <<breaker, permits, db>>

\* The call raises anything else (an HTTPException of the route, a rejected
\* statement), or the task is cancelled in it.
FailOther(c) ==
    /\ pc[c] = "calling"
    /\ ReleaseProbe(c)
    /\ Done(c)
    /\ UNCHANGED <<breaker, db>>

\* The task is cancelled in the delay between two attempts.
CancelSleep(c) ==
    /\ pc[c] = "sleeping"
    /\ Done(c)
    /\ UNCHANGED <<breaker, permits, db, probing>>

\* External: the database goes down and comes back.
Outage ==
    /\ db' = IF db = "up" THEN "down" ELSE "up"
    /\ UNCHANGED <<breaker, permits, pc, attempt, probing>>

Step(c) ==
    \/ BeforeCall(c) \/ AcquireProbe(c) \/ ProbeTimeout(c)
    \/ Succeed(c) \/ FailRecoverable(c) \/ FailOther(c) \/ CancelSleep(c)

Next == RecoveryTimeout \/ Outage \/ \E c \in Callers : Step(c)

Spec == Init /\ [][Next]_vars

\* Time passes, requests keep arriving, and every wait, delay and call ends.
\* The semaphore is fair, and not every request fails on its own account.
Fairness ==
    /\ WF_vars(RecoveryTimeout)
    /\ \A c \in Callers :
          /\ WF_vars(BeforeCall(c))
          /\ WF_vars(ProbeTimeout(c) \/ AcquireProbe(c))
          /\ WF_vars(Succeed(c) \/ FailRecoverable(c) \/ FailOther(c))
          /\ SF_vars(AcquireProbe(c))
          /\ SF_vars(Succeed(c))

FairSpec == Spec /\ Fairness

-----------------------------------------------------------------------------
(* Properties.                                                             *)

\* Probes are conserved on every way out of the decorated call: the permits
\* left and the callers inside the call with a probe always add up to
\* max_concurrent_half_open_probes.  A leak would leave the half-open circuit
\* answering 503 for ever, an extra release would admit a stampede.
ProbesConserved ==
    /\ permits + Cardinality(probing) = MaxProbes
    /\ \A c \in probing : pc[c] = "calling"

\* The counters belong to the period they are read in: no failure counted
\* before the circuit opened and no success of an earlier half-open period
\* is left to trip or to close the circuit early, whichever late answers of
\* calls admitted in another state arrive in between.
CountersFresh ==
    /\ state # "CLOSED" => fails = 0
    /\ state # "HALF_OPEN" => successes = 0

\* An open circuit stays open for recovery_timeout and then becomes half-open:
\* the late success of a call admitted before the trip does not close it.
OpenUntilTimeout ==
    [][state = "OPEN" /\ state' # "OPEN" => opened = "old" /\ state' = "HALF_OPEN"]_vars

\* Once the database stays up, the circuit closes for good, although a probe
\* may end in an error of its own request, be cancelled or time out, and
\* although such a probe leaves the circuit half-open.
ClosesAfterOutage == <>[](db = "up") => <>[](state = "CLOSED")
==============================================================================
