--------------------------- MODULE CircuitBreaker ---------------------------
(***************************************************************************)
(* The circuit breaker around outgoing HTTP requests:                      *)
(* src/src/datasources/circuit-breaker/circuit-breaker.service.ts and its  *)
(* caller createCircuitBreakerRequestFunction in                           *)
(* src/src/datasources/network/network.module.ts.                          *)
(*                                                                         *)
(* The module follows one circuit (one key); circuits of different keys    *)
(* share no state.  canProceed, recordSuccess and recordFailure run to     *)
(* their end without an await, so each is one step; the request between    *)
(* the admission and the answer is in `inFlight`, and any number of steps  *)
(* of other requests may come in between.                                  *)
(*                                                                         *)
(* The code stores timestamps and only ever compares their distance to     *)
(* Date.now(), so the model stores that distance: `retryIn` for            *)
(* nextAttemptTime - now, `sinceFailure` and `sinceActivity` for           *)
(* now - lastFailureTime and now - lastActivityTime.  The ages saturate    *)
(* one past the largest bound they are compared with.                      *)
(*                                                                         *)
(* Names that CacheFirst has too say Breaker here: Upstream_proofs extends *)
(* both.                                                                   *)
(***************************************************************************)
EXTENDS Integers, FiniteSets

CONSTANTS Requests,       \* identities of the requests that may be in flight
          Threshold,      \* circuitBreaker.threshold
          Timeout,        \* circuitBreaker.timeout
          RollingWindow,  \* circuitBreaker.rollingWindow
          HalfOpenRate    \* circuitBreaker.halfOpenFailureRateThreshold, a percentage

ASSUME ConfigAssumption ==
  /\ IsFiniteSet(Requests)
  /\ Threshold \in Nat \ {0}
  /\ Timeout \in Nat \ {0}
  /\ RollingWindow \in Nat
  /\ HalfOpenRate \in 0 .. 100

VARIABLES
  state,                 \* "NONE" when the map holds no circuit for the key
  failureCount,
  consecutiveSuccesses,
  halfOpenInFlight,
  retryIn,               \* time left until nextAttemptTime, 0 once it passed
  sinceFailure,
  sinceActivity,
  inFlight,              \* requests admitted and not answered yet
  probes                 \* those of them admitted in the present HALF_OPEN window

metrics == <<failureCount, consecutiveSuccesses, halfOpenInFlight, retryIn,
             sinceFailure, sinceActivity>>
breakerVars == <<state, metrics, inFlight, probes>>

\* The age at which isStale lets the cleanup drop a circuit.
STALE_MULTIPLIER == 10
StaleAfter == RollingWindow * STALE_MULTIPLIER

\* getEffectiveFailureThreshold in HALF_OPEN: the rounded-up percentage, which
\* is both the failures that re-open and the probes admitted at once.
HalfOpenThreshold == (Threshold * HalfOpenRate + 99) \div 100

NonNegative_Dropped(n) == n
NonNegative(n) == IF n < 0 THEN 0 ELSE n
Grow(age, cap) == IF age < cap THEN age + 1 ELSE age

BreakerTypeOK ==
  /\ state \in {"NONE", "CLOSED", "OPEN", "HALF_OPEN"}
  /\ failureCount \in 0 .. Threshold
  /\ consecutiveSuccesses \in 0 .. Threshold
  /\ halfOpenInFlight \in 0 .. HalfOpenThreshold
  /\ retryIn \in 0 .. Timeout
  /\ sinceFailure \in 0 .. RollingWindow + 1
  /\ sinceActivity \in 0 .. StaleAfter + 1
  /\ inFlight \in SUBSET Requests
  /\ probes \in SUBSET inFlight

BreakerInit ==
  /\ state = "NONE"
  /\ failureCount = 0 /\ consecutiveSuccesses = 0 /\ halfOpenInFlight = 0
  /\ retryIn = 0 /\ sinceFailure = 0 /\ sinceActivity = 0
  /\ inFlight = {} /\ probes = {}

\* The names with an underscore are the slips of the pen the properties are
\* there to catch; nothing in the specification uses them.

\* releaseHalfOpenProbe.
Released_Never == halfOpenInFlight
Released == NonNegative(halfOpenInFlight - 1)

\* The comparison that ends a window, of either count with its threshold.
Reached(count, threshold) == count >= threshold

\* canProceedInOpenState: nextAttemptTime has come.
RetryDue_Always == TRUE
RetryDue == retryIn = 0

-----------------------------------------------------------------------------
(* Admission: canProceedOrFail.  A refused request throws and changes       *)
(* nothing, except that the first request after the timeout of a circuit    *)
(* whose HalfOpenThreshold is 0 still half-opens it.                        *)

\* No circuit, or a CLOSED one: the request goes out untracked.
AdmitFreely(r) ==
  /\ r \notin inFlight
  /\ state \in {"NONE", "CLOSED"}
  /\ inFlight' = inFlight \union {r}
  /\ UNCHANGED <<state, metrics, probes>>

\* canProceedInOpenState once nextAttemptTime is reached: transitionToHalfOpen,
\* then the same request is judged by canProceedInHalfOpenState.
HalfOpen(r) ==
  /\ r \notin inFlight
  /\ state = "OPEN"
  /\ RetryDue
  /\ state' = "HALF_OPEN"
  /\ failureCount' = 0
  /\ consecutiveSuccesses' = 0
  /\ IF HalfOpenThreshold > 0
     THEN /\ halfOpenInFlight' = 1
          /\ inFlight' = inFlight \union {r}
          /\ probes' = {r}
     ELSE /\ halfOpenInFlight' = 0
          /\ probes' = {}
          /\ UNCHANGED inFlight
  /\ UNCHANGED <<retryIn, sinceFailure, sinceActivity>>

\* canProceedInHalfOpenState with a free slot.
AdmitProbe(r) ==
  /\ r \notin inFlight
  /\ state = "HALF_OPEN"
  /\ halfOpenInFlight < HalfOpenThreshold
  /\ halfOpenInFlight' = halfOpenInFlight + 1
  /\ inFlight' = inFlight \union {r}
  /\ probes' = probes \union {r}
  /\ UNCHANGED <<state, failureCount, consecutiveSuccesses, retryIn,
                 sinceFailure, sinceActivity>>

-----------------------------------------------------------------------------
(* Answers.  An answer below 500 is a success, a 5xx or a network error     *)
(* (the request timeout included) a failure.  The service does not know in  *)
(* which state the request was admitted.                                    *)

Answered(r) ==
  /\ r \in inFlight
  /\ inFlight' = inFlight \ {r}

\* The map entry is dropped: transitionToClosed and cleanupStaleCircuits.
Forget ==
  /\ state' = "NONE"
  /\ failureCount' = 0 /\ consecutiveSuccesses' = 0 /\ halfOpenInFlight' = 0
  /\ retryIn' = 0 /\ sinceFailure' = 0 /\ sinceActivity' = 0
  /\ probes' = {}

\* recordSuccess outside HALF_OPEN only renews lastActivityTime.
SucceedUncounted(r) ==
  /\ state # "HALF_OPEN"
  /\ Answered(r)
  /\ sinceActivity' = 0
  /\ UNCHANGED <<state, failureCount, consecutiveSuccesses, halfOpenInFlight,
                 retryIn, sinceFailure, probes>>

\* recordSuccess in HALF_OPEN: releaseHalfOpenProbe, one more consecutive
\* success, and transitionToClosed at the threshold.
SucceedInHalfOpen(r) ==
  /\ state = "HALF_OPEN"
  /\ Answered(r)
  /\ IF Reached(consecutiveSuccesses + 1, Threshold)
     THEN Forget
     ELSE /\ consecutiveSuccesses' = consecutiveSuccesses + 1
          /\ halfOpenInFlight' = Released
          /\ sinceActivity' = 0
          /\ probes' = probes \ {r}
          /\ UNCHANGED <<state, failureCount, retryIn, sinceFailure>>

\* The end of recordFailure, with the count and the probe slots taken so far and
\* the threshold in force: transitionToOpen once that is reached.
CountFailure(r, before, slots, threshold) ==
  /\ failureCount' = before + 1
  /\ consecutiveSuccesses' = 0
  /\ sinceFailure' = 0 /\ sinceActivity' = 0
  /\ IF Reached(before + 1, threshold)
     THEN /\ state' = "OPEN"
          /\ halfOpenInFlight' = 0
          /\ retryIn' = Timeout
          /\ probes' = {}
     ELSE /\ state' = IF state = "NONE" THEN "CLOSED" ELSE state
          /\ halfOpenInFlight' = slots
          /\ probes' = probes \ {r}
          /\ UNCHANGED retryIn

\* recordFailure while CLOSED, or without a circuit (getOrRegisterCircuit):
\* discardOldFailures looks at the age of the last failure only.
FailInClosed(r) ==
  /\ state \in {"NONE", "CLOSED"}
  /\ Answered(r)
  /\ LET kept == IF sinceFailure > RollingWindow THEN 0 ELSE failureCount
     IN  CountFailure(r, kept, halfOpenInFlight, Threshold)

FailInHalfOpen(r) ==
  /\ state = "HALF_OPEN"
  /\ Answered(r)
  /\ CountFailure(r, failureCount, Released, HalfOpenThreshold)

\* recordFailure returns at once in an OPEN circuit.
FailInOpen(r) ==
  /\ state = "OPEN"
  /\ Answered(r)
  /\ UNCHANGED <<state, metrics, probes>>

-----------------------------------------------------------------------------
\* cleanupStaleCircuits, run by cron: isStale looks at lastActivityTime only.
CleanupStale ==
  /\ state # "NONE"
  /\ sinceActivity > StaleAfter
  /\ Forget
  /\ UNCHANGED inFlight

\* Time passes.  Without a circuit there is no timestamp to age.
BreakerTick ==
  /\ state # "NONE"
  /\ retryIn' = NonNegative(retryIn - 1)
  /\ sinceFailure' = Grow(sinceFailure, RollingWindow + 1)
  /\ sinceActivity' = Grow(sinceActivity, StaleAfter + 1)
  /\ UNCHANGED <<state, failureCount, consecutiveSuccesses, halfOpenInFlight,
                 inFlight, probes>>

Admit(r) == AdmitFreely(r) \/ HalfOpen(r) \/ AdmitProbe(r)
Succeed(r) == SucceedUncounted(r) \/ SucceedInHalfOpen(r)
Fail(r) == FailInClosed(r) \/ FailInHalfOpen(r) \/ FailInOpen(r)

BreakerNext ==
  \/ \E r \in Requests : Admit(r) \/ Succeed(r) \/ Fail(r)
  \/ CleanupStale
  \/ BreakerTick

BreakerSpec == BreakerInit /\ [][BreakerNext]_breakerVars

\* Every request ends: AbortSignal.timeout turns a hanging one into a network
\* error.  Time passes.  Callers and the cron owe nothing.
BreakerFairSpec ==
  /\ BreakerSpec
  /\ WF_breakerVars(BreakerTick)
  /\ \A r \in Requests : WF_breakerVars(Succeed(r) \/ Fail(r))

\* Traffic: as long as someone would be admitted, someone calls.
Traffic == WF_breakerVars(\E r \in Requests : Admit(r))

-----------------------------------------------------------------------------
(* Properties.                                                              *)

CanAdmit ==
  \/ state \in {"NONE", "CLOSED"}
  \/ state = "OPEN" /\ retryIn = 0
  \/ state = "HALF_OPEN" /\ halfOpenInFlight < HalfOpenThreshold

\* A probe slot is never lost: every slot the counter holds belongs to a probe
\* of this window that still waits for its answer, whatever late answers of
\* requests admitted before the window did to the counter (canProceed,
\* recordSuccess, recordFailure).  A lost slot would refuse requests for good.
NoLostSlot ==
  state = "HALF_OPEN" => halfOpenInFlight <= Cardinality(probes)

\* A verdict is never overdue: no circuit rests in a state whose counters have
\* reached the threshold that ends it (recordSuccess, recordFailure).
VerdictNotOverdue ==
  /\ state = "CLOSED" => failureCount \in 1 .. Threshold - 1
  /\ state = "HALF_OPEN" =>
       /\ consecutiveSuccesses < Threshold
       /\ failureCount = 0 \/ failureCount < HalfOpenThreshold

\* The breaker keeps its word for the whole timeout: an OPEN circuit stays OPEN
\* until nextAttemptTime, cleanup of stale circuits included.
WaitIsKept == [][state = "OPEN" /\ state' # "OPEN" => retryIn = 0]_breakerVars

\* The breaker is a RequestGate: nobody passes while it is shut, and it shuts
\* for the whole timeout every time (canProceed, transitionToOpen, isStale).
GateState == CASE state = "OPEN" -> "shut"
               [] state = "HALF_OPEN" -> "ajar"
               [] OTHER -> "wide"
Gate == INSTANCE RequestGate WITH
          gate <- GateState, wait <- retryIn, passing <- inFlight
ImplementsGate == Gate!Spec

\* The breaker never shuts for good: again and again there is a moment at which
\* a request would be admitted, even if no request ever comes to test it.
NeverShutForGood == []<>CanAdmit

\* Under traffic a HALF_OPEN window ends: it closes, re-opens or is cleaned up.
HalfOpenEnds == Traffic => (state = "HALF_OPEN") ~> (state # "HALF_OPEN")
=============================================================================
