---------------------------- MODULE CircuitProofs ----------------------------
(* Proofs about DbCircuit, for any callers, thresholds and probes.         *)
EXTENDS DbCircuit, FiniteSetTheorems, TLAPS

\* ProbesConserved and CountersFresh are inductive together with the types:
\* the place of a holder is what makes an acquired probe a new one.
CircuitInv == TypeOK /\ ProbesConserved /\ CountersFresh

-----------------------------------------------------------------------------
(* The semaphore.                                                          *)

\* The holders of a probe are a finite set.
LEMMA ProbingFinite ==
    ASSUME TypeOK
    PROVE  IsFiniteSet(probing) /\ Cardinality(probing) \in Nat
BY CircuitAssumption, FS_Subset, FS_CardinalityType DEF TypeOK

\* acquire_half_open_probe, by a caller without a probe, keeps the sum.
LEMMA AcquireConserves ==
    ASSUME TypeOK, ProbesConserved, NEW c \in Callers, c \notin probing,
           permits > 0, permits' = permits - 1, probing' = probing \cup {c}
    PROVE  /\ permits' \in 0 .. MaxProbes
           /\ permits' + Cardinality(probing') = MaxProbes
<1>1. Cardinality(probing') = Cardinality(probing) + 1
  BY ProbingFinite, FS_AddElement
<1> QED
  BY <1>1, CircuitAssumption, ProbingFinite DEF TypeOK, ProbesConserved

\* release_half_open_probe keeps the sum, and the permits within their bound,
\* whether or not the caller acquired a probe.
LEMMA ReleaseConserves ==
    ASSUME TypeOK, ProbesConserved, NEW c \in Callers, ReleaseProbe(c)
    PROVE  /\ permits' \in 0 .. MaxProbes
           /\ permits' + Cardinality(probing') = MaxProbes
<1>0. /\ permits \in Nat /\ MaxProbes \in Nat
      /\ permits + Cardinality(probing) = MaxProbes
      /\ probing' = probing \ {c}
  BY CircuitAssumption DEF TypeOK, ProbesConserved, ReleaseProbe
<1>1. IsFiniteSet(probing) /\ Cardinality(probing) \in Nat
  BY ProbingFinite
<1>2. CASE c \in probing
  <2>1. permits' = permits + 1 /\ Cardinality(probing') = Cardinality(probing) - 1
    BY <1>0, <1>1, <1>2, FS_RemoveElement DEF ReleaseProbe
  <2>2. IsFiniteSet(probing') /\ Cardinality(probing') \in Nat
    BY <1>0, <1>1, FS_Subset, FS_CardinalityType
  <2> QED
    BY <2>1, <2>2, <1>0, <1>1
<1>3. CASE c \notin probing
  <2>1. permits' = permits /\ probing' = probing
    BY <1>0, <1>3 DEF ReleaseProbe
  <2> QED
    BY <2>1, <1>0, <1>1
<1> QED
  BY <1>2, <1>3

-----------------------------------------------------------------------------
(* The breaker's own operations.                                           *)

\* The breaker's part of the invariant.
BreakerOK ==
    /\ state \in States
    /\ fails \in 0 .. FailureThreshold - 1
    /\ opened \in {"none", "recent", "old"}
    /\ successes \in 0 .. SuccessThreshold - 1
    /\ CountersFresh

\* before_call, _record_success and _record_failure preserve it.
LEMMA BreakerSteps ==
    ASSUME BreakerOK,
           MaybeTransition \/ RecordSuccess \/ RecordFailure \/ UNCHANGED breaker
    PROVE  BreakerOK'
<1>0. FailureThreshold \in Nat \ {0} /\ SuccessThreshold \in Nat \ {0}
  BY CircuitAssumption
<1> USE <1>0 DEF BreakerOK, CountersFresh, States, breaker
<1>1. CASE MaybeTransition
  BY <1>1 DEF MaybeTransition
<1>2. CASE RecordSuccess
  BY <1>2 DEF RecordSuccess, Close
<1>3. CASE RecordFailure
  BY <1>3 DEF RecordFailure, Open
<1>4. CASE UNCHANGED breaker
  BY <1>4
<1> QED
  BY <1>1, <1>2, <1>3, <1>4

-----------------------------------------------------------------------------
\* The callers' part of the type invariant.
CallersOK ==
    /\ db \in {"up", "down"}
    /\ pc \in [Callers -> {"idle", "waiting", "calling", "sleeping"}]
    /\ attempt \in [Callers -> 1 .. Attempts]
    /\ probing \subseteq Callers

\* The circuit starts closed, with no caller.
LEMMA CircuitInit == Init => CircuitInv
<1> SUFFICES ASSUME Init PROVE CircuitInv
  OBVIOUS
<1>0. {Attempts, FailureThreshold, SuccessThreshold, MaxProbes} \subseteq Nat \ {0}
  BY CircuitAssumption
<1>1. TypeOK /\ CountersFresh
  BY <1>0 DEF Init, TypeOK, CountersFresh, States
<1>2. ProbesConserved
  BY <1>0, FS_EmptySet DEF Init, ProbesConserved
<1> QED
  BY <1>1, <1>2 DEF CircuitInv

\* Every step of a caller or of the clock keeps the invariant.
LEMMA CircuitStep == CircuitInv /\ [Next]_vars => CircuitInv'
<1> SUFFICES ASSUME CircuitInv, [Next]_vars PROVE CircuitInv'
  OBVIOUS
<1>0. TypeOK /\ BreakerOK /\ CallersOK /\ permits \in 0 .. MaxProbes /\ ProbesConserved
  BY DEF CircuitInv, TypeOK, BreakerOK, CallersOK
<1>a. Attempts \in Nat \ {0}
  BY CircuitAssumption
<1>q. SUFFICES BreakerOK' /\ CallersOK' /\ permits' \in 0 .. MaxProbes /\ ProbesConserved'
  BY DEF CircuitInv, TypeOK, BreakerOK, CallersOK
<1>1. CASE UNCHANGED vars \/ RecoveryTimeout \/ Outage
  <2>1. BreakerOK'
    <3>1. CASE RecoveryTimeout
      BY <1>0, <3>1 DEF RecoveryTimeout, BreakerOK, CountersFresh
    <3>2. CASE UNCHANGED vars \/ Outage
      BY <1>0, <3>2, BreakerSteps DEF Outage, vars
    <3> QED
      BY <1>1, <3>1, <3>2
  <2>2. CallersOK' /\ UNCHANGED <<permits, probing, pc>>
    BY <1>0, <1>1 DEF Outage, RecoveryTimeout, vars, CallersOK
  <2> QED
    BY <1>0, <2>1, <2>2 DEF ProbesConserved
<1>2. ASSUME NEW c \in Callers, Step(c)
      PROVE  BreakerOK' /\ CallersOK' /\ permits' \in 0 .. MaxProbes /\ ProbesConserved'
  <2>1. CASE BeforeCall(c) \/ ProbeTimeout(c) \/ CancelSleep(c)
    <3>1. BreakerOK'
      BY <1>0, <2>1, BreakerSteps DEF BeforeCall, ProbeTimeout, CancelSleep
    <3>2. UNCHANGED <<permits, probing, db>>
      BY <2>1 DEF BeforeCall, ProbeTimeout, CancelSleep
    <3>3. CallersOK' /\ \A d \in Callers : d # c => pc'[d] = pc[d]
      <4>1. CASE BeforeCall(c)
        BY <1>0, <1>a, <3>2, <4>1 DEF BeforeCall, Done, CallersOK
      <4>2. CASE ProbeTimeout(c) \/ CancelSleep(c)
        BY <1>0, <1>a, <3>2, <4>2 DEF ProbeTimeout, CancelSleep, Done, CallersOK
      <4> QED
        BY <2>1, <4>1, <4>2
    <3>4. c \notin probing
      BY <1>0, <2>1 DEF BeforeCall, ProbeTimeout, CancelSleep, ProbesConserved
    <3>5. ProbesConserved'
      BY <1>0, <3>2, <3>3, <3>4 DEF ProbesConserved, CallersOK
    <3> QED
      BY <1>0, <3>1, <3>2, <3>3, <3>5
  <2>2. CASE AcquireProbe(c)
    <3>1. BreakerOK'
      BY <1>0, <2>2, BreakerSteps DEF AcquireProbe
    <3>2. c \notin probing
      BY <1>0, <2>2 DEF AcquireProbe, ProbesConserved
    <3>3. permits' \in 0 .. MaxProbes /\ permits' + Cardinality(probing') = MaxProbes
      BY <1>0, <2>2, <3>2, AcquireConserves DEF AcquireProbe
    <3>4. CallersOK' /\ \A d \in probing' : pc'[d] = "calling"
      BY <1>0, <2>2 DEF AcquireProbe, CallersOK, ProbesConserved
    <3> QED
      BY <3>1, <3>3, <3>4 DEF ProbesConserved
  <2>3. CASE Succeed(c) \/ FailRecoverable(c) \/ FailOther(c)
    <3>1. BreakerOK'
      BY <1>0, <2>3, BreakerSteps DEF Succeed, FailRecoverable, FailOther
    <3>2. ReleaseProbe(c) /\ db' = db
      BY <2>3 DEF Succeed, FailRecoverable, FailOther
    <3>3. permits' \in 0 .. MaxProbes /\ permits' + Cardinality(probing') = MaxProbes
      BY <1>0, <3>2, ReleaseConserves
    <3>4. CallersOK' /\ \A d \in Callers : d # c => pc'[d] = pc[d]
      <4>1. CASE Done(c)
        BY <1>0, <1>a, <3>2, <4>1 DEF Done, ReleaseProbe, CallersOK
      <4>2. CASE ~Done(c)
        <5>1. /\ attempt[c] # Attempts
              /\ pc' = [pc EXCEPT ![c] = "sleeping"]
              /\ attempt' = [attempt EXCEPT ![c] = @ + 1]
          BY <2>3, <4>2 DEF Succeed, FailRecoverable, FailOther
        <5> QED
          BY <1>0, <1>a, <3>2, <5>1 DEF ReleaseProbe, CallersOK
      <4> QED
        BY <4>1, <4>2
    <3>5. \A d \in probing' : pc'[d] = "calling"
      BY <1>0, <3>2, <3>4 DEF ReleaseProbe, ProbesConserved, CallersOK
    <3> QED
      BY <3>1, <3>3, <3>4, <3>5 DEF ProbesConserved
  <2> QED
    BY <1>2, <2>1, <2>2, <2>3 DEF Step
<1> QED
  BY <1>1, <1>2 DEF Next

\* The inductive invariant of the breaker and its callers.
THEOREM CircuitInvariant == Spec => []CircuitInv
<1>1. Init => CircuitInv
  BY CircuitInit
<1>2. CircuitInv /\ [Next]_vars => CircuitInv'
  BY CircuitStep
<1> QED
  BY <1>1, <1>2, PTL DEF Spec

\* TypeOK: in particular the failure count stays below its threshold and the
\* semaphore within its bound.
THEOREM CircuitTypeCorrect == Spec => []TypeOK
BY CircuitInvariant, PTL DEF CircuitInv

\* Every way out of the decorated call returns the probe, so the semaphore
\* never leaks a permit nor gains one.
THEOREM ProbesAreConserved == Spec => []ProbesConserved
BY CircuitInvariant, PTL DEF CircuitInv

\* No count survives the period it was made in.
THEOREM CountersAreFresh == Spec => []CountersFresh
BY CircuitInvariant, PTL DEF CircuitInv

\* An open circuit becomes half-open after the timeout, and nothing else.
THEOREM OpenStaysOpen == Spec => OpenUntilTimeout
<1>1. [Next]_vars =>
         [state = "OPEN" /\ state' # "OPEN" => opened = "old" /\ state' = "HALF_OPEN"]_vars
  <2> SUFFICES ASSUME [Next]_vars, state = "OPEN", state' # "OPEN"
               PROVE  opened = "old" /\ state' = "HALF_OPEN"
    OBVIOUS
  <2>1. PICK c \in Callers : Step(c)
    BY DEF Next, vars, breaker, RecoveryTimeout, Outage
  <2>2. BeforeCall(c)
    BY <2>1 DEF Step, breaker, AcquireProbe, ProbeTimeout, Succeed, FailRecoverable,
                FailOther, CancelSleep, RecordSuccess, RecordFailure
  <2> QED
    BY <2>2 DEF BeforeCall, MaybeTransition, breaker
<1> QED
  BY <1>1, PTL DEF Spec, OpenUntilTimeout
==============================================================================
