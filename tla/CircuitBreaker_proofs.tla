----------------------- MODULE CircuitBreaker_proofs -----------------------
(***************************************************************************)
(* The breaker's safety for any number of calling goroutines and any        *)
(* configuration.  What makes it inductive is the bookkeeping of half-open: *)
(* the counter is one less than the calls that are out, because the call    *)
(* that ended the cooldown was never counted.                               *)
(***************************************************************************)
EXTENDS CircuitBreaker, FiniteSetTheorems, TLAPS

\* In half-open every admitted call is still out and all but one are counted.
TrialsCounted ==
    state = "half_open" =>
        /\ trials \subseteq inFlight
        /\ IsFiniteSet(trials)
        /\ Cardinality(trials) = halfOpenInFlight + 1
        /\ halfOpenInFlight <= HalfOpenMaxCalls

BreakerInv == TypeOK /\ ThresholdMatchesState /\ TrialsCounted

\* A new breaker satisfies the invariant: closed, no failures, nothing in flight.
LEMMA BreakerInit == Init => BreakerInv
  <1> SUFFICES ASSUME Init PROVE BreakerInv
    OBVIOUS
  <1>1. TypeOK
    BY DEF Init, TypeOK
  <1>2. ThresholdMatchesState /\ TrialsCounted
    BY BreakerAssumption DEF Init, ThresholdMatchesState, TrialsCounted
  <1> QED
    BY <1>1, <1>2 DEF BreakerInv

\* Every step of allowRequest and afterRequest, and of the environment, keeps it.
LEMMA BreakerStep == BreakerInv /\ [Next]_vars => BreakerInv'
  <1> SUFFICES ASSUME BreakerInv, [Next]_vars
               PROVE  BreakerInv'
    OBVIOUS
  <1> USE BreakerAssumption DEF BreakerInv
  <1>1. ASSUME NEW c \in Calls, AllowClosed(c)
        PROVE  BreakerInv'
    BY <1>1 DEF AllowClosed, Admit, TypeOK, ThresholdMatchesState, TrialsCounted
  <1>2. ASSUME NEW c \in Calls, AllowAfterCooldown(c)
        PROVE  BreakerInv'
    <2>1. TypeOK' /\ ThresholdMatchesState'
      BY <1>2 DEF AllowAfterCooldown, Admit, TypeOK, ThresholdMatchesState
    <2>2. IsFiniteSet({c}) /\ Cardinality({c}) = 1
      BY FS_Singleton
    <2>3. TrialsCounted'
      BY <1>2, <2>2 DEF AllowAfterCooldown, Admit, TypeOK, TrialsCounted
    <2> QED
      BY <2>1, <2>3
  <1>3. ASSUME NEW c \in Calls, AllowTrial(c)
        PROVE  BreakerInv'
    <2>1. TypeOK' /\ ThresholdMatchesState'
      BY <1>3 DEF AllowTrial, Admit, TypeOK, ThresholdMatchesState
    <2>2. c \notin trials /\ IsFiniteSet(trials)
      BY <1>3 DEF AllowTrial, TrialsCounted
    <2>3. /\ IsFiniteSet(trials \cup {c})
          /\ Cardinality(trials \cup {c}) = Cardinality(trials) + 1
      BY <2>2, FS_AddElement
    <2>4. TrialsCounted'
      BY <1>3, <2>3 DEF AllowTrial, Admit, TypeOK, TrialsCounted
    <2> QED
      BY <2>1, <2>4
  <1>4. ASSUME NEW c \in Calls, Succeed(c)
        PROVE  BreakerInv'
    BY <1>4 DEF Succeed, Finish, TypeOK, ThresholdMatchesState, TrialsCounted
  <1>5. ASSUME NEW c \in Calls, Fail(c)
        PROVE  BreakerInv'
    <2>1. /\ OneMoreFailure \in Nat
          /\ consecutiveFailures <= OneMoreFailure
          /\ consecutiveFailures < FailureThreshold
                => OneMoreFailure = consecutiveFailures + 1
      BY DEF OneMoreFailure, TypeOK
    <2>2. CASE state = "half_open" \/ OneMoreFailure >= FailureThreshold
      <3>1. state' = "open" /\ cooled' = FALSE /\ trials' = {}
        BY <1>5, <2>2 DEF Fail
      <3>2. /\ consecutiveFailures' \in Nat
            /\ halfOpenInFlight' \in Nat
        BY <1>5, <2>1 DEF Fail, Finish, TypeOK
      <3>3. /\ inFlight' \subseteq Calls
            /\ healthy' \in BOOLEAN
            /\ outages' \in Nat
        BY <1>5 DEF Fail, Finish, TypeOK
      <3>4. TypeOK'
        BY <3>1, <3>2, <3>3 DEF TypeOK
      <3>5. ThresholdMatchesState' /\ TrialsCounted'
        BY <1>5, <2>1, <2>2 DEF Fail, Finish, TypeOK, ThresholdMatchesState, TrialsCounted
      <3> QED
        BY <3>4, <3>5
    <2>3. CASE ~(state = "half_open" \/ OneMoreFailure >= FailureThreshold)
      BY <1>5, <2>1, <2>3
      DEF Fail, Finish, TypeOK, ThresholdMatchesState, TrialsCounted
    <2> QED
      BY <2>2, <2>3
  <1>6. CASE CooldownPasses
    BY <1>6 DEF CooldownPasses, TypeOK, ThresholdMatchesState, TrialsCounted
  <1>7. CASE ProviderChanges
    BY <1>7 DEF ProviderChanges, TypeOK, ThresholdMatchesState, TrialsCounted
  <1>8. CASE UNCHANGED vars
    BY <1>8 DEF vars, TypeOK, ThresholdMatchesState, TrialsCounted
  <1> QED
    BY <1>1, <1>2, <1>3, <1>4, <1>5, <1>6, <1>7, <1>8 DEF Next, Allow, After

\* The invariant holds in every reachable state.
LEMMA BreakerAlways == Spec => []BreakerInv
  BY BreakerInit, BreakerStep, PTL DEF Spec

\* The breaker's fields keep their types; halfOpenInFlight never drops below zero
\* although the uncounted trial call also takes one off when it ends.
THEOREM BreakerTypes == Spec => []TypeOK
  BY BreakerAlways, PTL DEF BreakerInv

\* The breaker blocks exactly from the configured number of consecutive failures
\* on, whichever calls those failures belong to.
THEOREM OpensAtThreshold == Spec => []ThresholdMatchesState
  BY BreakerAlways, PTL DEF BreakerInv

\* A half-open breaker always has a call out whose answer will move it on.
THEOREM HalfOpenNeverStuck == Spec => []HalfOpenAwaitsTrial
  <1>1. BreakerInv => HalfOpenAwaitsTrial
    <2> SUFFICES ASSUME BreakerInv, state = "half_open"
                 PROVE  trials # {} /\ trials \subseteq inFlight
      BY DEF HalfOpenAwaitsTrial
    <2>1. Cardinality(trials) # 0
      BY DEF BreakerInv, TypeOK, TrialsCounted
    <2> QED
      BY <2>1, FS_EmptySet DEF BreakerInv, TrialsCounted
  <1> QED
    BY <1>1, BreakerAlways, PTL
=============================================================================
