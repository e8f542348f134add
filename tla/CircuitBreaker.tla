--------------------------- MODULE CircuitBreaker ---------------------------
(***************************************************************************)
(* ProtectedNotifier (internal/notifications/protected_notifier.go): the    *)
(* circuit breaker in front of the confirmation provider.                   *)
(*                                                                         *)
(* allowRequest and afterRequest each run under the mutex and are one step. *)
(* The provider's call between them is not: other goroutines' calls begin   *)
(* and end meanwhile, and a call may end in another state of the breaker    *)
(* than it began in.  Of openedAt the code only asks whether the cooldown   *)
(* has passed.                                                              *)
(***************************************************************************)
EXTENDS Integers, FiniteSets

CONSTANTS
    Calls,              \* goroutines that send, one call each at a time
    FailureThreshold,
    HalfOpenMaxCalls,
    MaxFailures,        \* bound: consecutiveFailures is counted up to here
    MaxOutages          \* bound: how often the provider changes its health

\* NewProtectedNotifier replaces values <= 0 by defaults.
ASSUME BreakerAssumption ==
    /\ FailureThreshold \in Nat \ {0}
    /\ HalfOpenMaxCalls \in Nat \ {0}
    /\ MaxFailures \in Nat /\ MaxFailures >= FailureThreshold
    /\ MaxOutages \in Nat

VARIABLES
    state,                  \* "closed", "open" or "half_open"
    consecutiveFailures,
    cooled,                 \* time.Since(openedAt) >= Cooldown
    halfOpenInFlight,
    inFlight,               \* calls past allowRequest and before afterRequest
    trials,                 \* history: calls admitted since half-open was entered
    healthy,                \* the provider
    outages

vars == <<state, consecutiveFailures, cooled, halfOpenInFlight, inFlight, trials, healthy,
          outages>>

TypeOK ==
    /\ state \in {"closed", "open", "half_open"}
    /\ consecutiveFailures \in Nat
    /\ cooled \in BOOLEAN
    /\ halfOpenInFlight \in Nat
    /\ inFlight \subseteq Calls
    /\ trials \subseteq Calls
    /\ healthy \in BOOLEAN
    /\ outages \in Nat

Init ==
    /\ state = "closed"
    /\ consecutiveFailures = 0
    /\ cooled = FALSE
    /\ halfOpenInFlight = 0
    /\ inFlight = {}
    /\ trials = {}
    /\ healthy = TRUE
    /\ outages = 0

-----------------------------------------------------------------------------
(* allowRequest: one action per branch that lets the call through; the       *)
(* others answer ErrCircuitOpen and change nothing.                         *)

Admit(c) == inFlight' = inFlight \cup {c}

AllowClosed(c) ==
    /\ c \notin inFlight
    /\ state = "closed"
    /\ Admit(c)
    /\ UNCHANGED <<state, consecutiveFailures, cooled, halfOpenInFlight, trials, healthy,
                   outages>>

\* The call that finds the cooldown over goes through without being counted: with
\* it, one call more is out in half-open than HalfOpenMaxCalls.
AllowAfterCooldown(c) ==
    /\ c \notin inFlight
    /\ state = "open"
    /\ cooled
    /\ state' = "half_open"
    /\ halfOpenInFlight' = 0
    /\ Admit(c)
    /\ trials' = {c}
    /\ UNCHANGED <<consecutiveFailures, cooled, healthy, outages>>

AllowTrial(c) ==
    /\ c \notin inFlight
    /\ state = "half_open"
    /\ halfOpenInFlight < HalfOpenMaxCalls
    /\ halfOpenInFlight' = halfOpenInFlight + 1
    /\ Admit(c)
    /\ trials' = trials \cup {c}
    /\ UNCHANGED <<state, consecutiveFailures, cooled, healthy, outages>>

(* afterRequest.                                                            *)

\* The first lines of afterRequest, common to both outcomes.
Finish(c) ==
    /\ c \in inFlight
    /\ inFlight' = inFlight \ {c}
    /\ halfOpenInFlight' = IF state = "half_open" /\ halfOpenInFlight > 0
                           THEN halfOpenInFlight - 1 ELSE halfOpenInFlight
    /\ UNCHANGED <<healthy, outages>>

SucceedKeepingCount(c) ==
    /\ healthy
    /\ Finish(c)
    /\ state' = "closed"
    /\ trials' = {}
    /\ UNCHANGED <<consecutiveFailures, cooled>>

SucceedKeepingState(c) ==
    /\ healthy
    /\ Finish(c)
    /\ consecutiveFailures' = 0
    /\ UNCHANGED <<state, trials, cooled>>

\* A success closes the circuit whatever its state is by now.
Succeed(c) ==
    /\ healthy
    /\ Finish(c)
    /\ consecutiveFailures' = 0
    /\ state' = "closed"
    /\ trials' = {}
    /\ UNCHANGED cooled

\* The code only compares the counter with the threshold, so counting stops above
\* it.
OneMoreFailure ==
    IF consecutiveFailures < MaxFailures THEN consecutiveFailures + 1
                                         ELSE consecutiveFailures

FailKeepingHalfOpen(c) ==
    /\ ~healthy
    /\ Finish(c)
    /\ consecutiveFailures' = OneMoreFailure
    /\ LET opens == state # "half_open" /\ consecutiveFailures' >= FailureThreshold
       IN  /\ state' = IF opens THEN "open" ELSE state
           /\ cooled' = IF opens THEN FALSE ELSE cooled
           /\ trials' = IF opens THEN {} ELSE trials

\* A failure reopens a half-open circuit, opens a closed one at the threshold, and
\* restarts the cooldown of an open one.
Fail(c) ==
    /\ ~healthy
    /\ Finish(c)
    /\ consecutiveFailures' = OneMoreFailure
    /\ LET opens == state = "half_open" \/ consecutiveFailures' >= FailureThreshold
       IN  /\ state' = IF opens THEN "open" ELSE state
           /\ cooled' = IF opens THEN FALSE ELSE cooled
           /\ trials' = IF opens THEN {} ELSE trials

(* The environment.                                                         *)

CooldownPasses ==
    /\ state = "open"
    /\ ~cooled
    /\ cooled' = TRUE
    /\ UNCHANGED <<state, consecutiveFailures, halfOpenInFlight, inFlight, trials, healthy,
                   outages>>

\* The provider goes down or comes back.
ProviderChanges ==
    /\ outages < MaxOutages
    /\ outages' = outages + 1
    /\ healthy' = ~healthy
    /\ UNCHANGED <<state, consecutiveFailures, cooled, halfOpenInFlight, inFlight, trials>>

-----------------------------------------------------------------------------
Allow(c) == AllowClosed(c) \/ AllowAfterCooldown(c) \/ AllowTrial(c)

After(c) == Succeed(c) \/ Fail(c)

Next ==
    \/ \E c \in Calls : Allow(c) \/ After(c)
    \/ CooldownPasses
    \/ ProviderChanges

Spec == Init /\ [][Next]_vars

\* Every call ends (it has a timeout), time passes, and there are confirmations to
\* send.  Nothing is assumed of the provider.
FairSpec ==
    /\ Spec
    /\ \A c \in Calls : WF_vars(After(c))
    /\ WF_vars(\E c \in Calls : Allow(c))
    /\ WF_vars(CooldownPasses)

-----------------------------------------------------------------------------
(* Properties.                                                              *)

\* The breaker blocks exactly when the failures since the last success reach the
\* threshold, late answers of earlier calls included.
ThresholdMatchesState ==
    state = "closed" <=> consecutiveFailures < FailureThreshold

\* afterRequest leaves half-open with the first answer that comes in, so a
\* half-open breaker always waits for some call it let through.  Refusing every
\* call with none on its way, it would never leave the state again.
HalfOpenAwaitsTrial ==
    state = "half_open" => trials # {} /\ trials \subseteq inFlight

\* Once the provider is back for good the circuit closes, whatever state the
\* outage left it in.
Recovers == <>[]healthy => <>[](state = "closed")
=============================================================================

