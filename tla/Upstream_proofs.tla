--------------------------- MODULE Upstream_proofs ---------------------------
(***************************************************************************)
(* Proofs about what stands in front of the upstream services.             *)
(*                                                                         *)
(* CircuitBreaker: for every set of requests and every configuration that  *)
(* ConfigAssumption admits.  CacheFirst: its types, for every              *)
(* configuration, and the worth of the invalidation marker, for            *)
(* configurations without request sharing.                                 *)
(***************************************************************************)
EXTENDS CircuitBreaker, CacheFirst, FiniteSetTheorems, TLAPS

-----------------------------------------------------------------------------
(* The circuit breaker.                                                     *)

\* The half-open threshold is a share of the threshold (getEffectiveFailureThreshold).
LEMMA HalfOpenThresholdRange == HalfOpenThreshold \in 0 .. Threshold
<1> DEFINE p == Threshold * HalfOpenRate
<1>1. p \in Int /\ 0 <= p /\ p <= Threshold * 100
  BY ConfigAssumption
<1> HIDE DEF p
<1>2. (p + 99) \div 100 \in 0 .. Threshold
  BY <1>1, ConfigAssumption
<1> QED BY <1>2 DEF HalfOpenThreshold, p

LEMMA StaleAfterType == StaleAfter \in Nat
BY ConfigAssumption DEF StaleAfter, STALE_MULTIPLIER

-----------------------------------------------------------------------------
(* The inductive invariant.  The range of failureCount in BreakerTypeOK rests on   *)
(* VerdictNotOverdue, and that on a fresh circuit starting from zero.       *)

Fresh == state = "NONE" => failureCount = 0

\* Only a HALF_OPEN window has probes: an answer in any other state cannot be one.
OnlyHalfOpenProbes == state # "HALF_OPEN" => probes = {}

\* Only an OPEN circuit waits.
OnlyOpenWaits == state # "OPEN" => retryIn = 0

BreakerBase == BreakerTypeOK /\ VerdictNotOverdue /\ Fresh /\ OnlyHalfOpenProbes /\ OnlyOpenWaits

LEMMA BreakerBaseInit == BreakerInit => BreakerBase
BY HalfOpenThresholdRange, StaleAfterType, ConfigAssumption
   DEF BreakerInit, BreakerBase, BreakerTypeOK, VerdictNotOverdue, Fresh, OnlyHalfOpenProbes, OnlyOpenWaits

LEMMA BreakerBaseStep == BreakerBase /\ [BreakerNext]_breakerVars => BreakerBase'
<1> SUFFICES ASSUME BreakerBase, [BreakerNext]_breakerVars PROVE BreakerBase'
  OBVIOUS
<1> USE HalfOpenThresholdRange, StaleAfterType, ConfigAssumption
    DEF BreakerBase, BreakerTypeOK, VerdictNotOverdue, Fresh, OnlyHalfOpenProbes, OnlyOpenWaits
<1>1. ASSUME NEW r \in Requests, AdmitFreely(r) PROVE BreakerBase'
  BY <1>1 DEF AdmitFreely, metrics
<1>2. ASSUME NEW r \in Requests, HalfOpen(r) PROVE BreakerBase'
  BY <1>2 DEF HalfOpen, RetryDue
<1>3. ASSUME NEW r \in Requests, AdmitProbe(r) PROVE BreakerBase'
  BY <1>3 DEF AdmitProbe
<1>4. ASSUME NEW r \in Requests, SucceedUncounted(r) PROVE BreakerBase'
  BY <1>4 DEF SucceedUncounted, Answered
<1>5. ASSUME NEW r \in Requests, SucceedInHalfOpen(r) PROVE BreakerBase'
  BY <1>5 DEF SucceedInHalfOpen, Answered, Forget, Reached, Released,
              NonNegative
<1>6. ASSUME NEW r \in Requests, FailInClosed(r) PROVE BreakerBase'
  BY <1>6 DEF FailInClosed, Answered, CountFailure, Reached
<1>7. ASSUME NEW r \in Requests, FailInHalfOpen(r) PROVE BreakerBase'
  BY <1>7 DEF FailInHalfOpen, Answered, CountFailure, Reached, Released,
              NonNegative
<1>8. ASSUME NEW r \in Requests, FailInOpen(r) PROVE BreakerBase'
  BY <1>8 DEF FailInOpen, Answered, metrics
<1>9. ASSUME CleanupStale PROVE BreakerBase'
  BY <1>9 DEF CleanupStale, Forget
<1>10. ASSUME BreakerTick PROVE BreakerBase'
  BY <1>10 DEF BreakerTick, NonNegative, Grow
<1>11. CASE UNCHANGED breakerVars
  BY <1>11 DEF breakerVars, metrics
<1> QED
  BY <1>1, <1>2, <1>3, <1>4, <1>5, <1>6, <1>7, <1>8, <1>9, <1>10, <1>11
     DEF BreakerNext, Admit, Succeed, Fail

LEMMA BreakerInvariant == BreakerSpec => []BreakerBase
<1>1. BreakerInit => BreakerBase BY BreakerBaseInit
<1>2. BreakerBase /\ [BreakerNext]_breakerVars => BreakerBase' BY BreakerBaseStep
<1> QED BY <1>1, <1>2, PTL DEF BreakerSpec

\* Type correctness of the breaker.
THEOREM BreakerTypeCorrect == BreakerSpec => []BreakerTypeOK
<1>1. BreakerBase => BreakerTypeOK BY DEF BreakerBase
<1> QED BY <1>1, BreakerInvariant, PTL

\* No circuit outlives its verdict (recordSuccess, recordFailure).
THEOREM NoOverdueVerdict == BreakerSpec => []VerdictNotOverdue
<1>1. BreakerBase => VerdictNotOverdue BY DEF BreakerBase
<1> QED BY <1>1, BreakerInvariant, PTL
-----------------------------------------------------------------------------
(* No probe slot is lost.                                                   *)

\* What the counter and the set of probes do to each other when one probe
\* comes or goes.
LEMMA ProbesFinite ==
  ASSUME BreakerTypeOK
  PROVE  IsFiniteSet(probes) /\ Cardinality(probes) \in Nat
BY ConfigAssumption, FS_Subset, FS_CardinalityType DEF BreakerTypeOK

LEMMA OneProbeLess ==
  ASSUME BreakerTypeOK, NEW r
  PROVE  /\ Cardinality(probes \ {r}) \in Nat
         /\ Cardinality(probes \ {r}) >= Cardinality(probes) - 1
<1>1. IsFiniteSet(probes) /\ Cardinality(probes) \in Nat
  BY ProbesFinite
<1>2. /\ IsFiniteSet(probes \ {r})
      /\ Cardinality(probes \ {r}) = IF r \in probes THEN Cardinality(probes) - 1
                                      ELSE Cardinality(probes)
  BY <1>1, FS_RemoveElement
<1>3. Cardinality(probes \ {r}) \in Nat
  BY <1>2, FS_CardinalityType
<1> QED BY <1>1, <1>2, <1>3

LEMMA SlotsStep == BreakerBase /\ NoLostSlot /\ [BreakerNext]_breakerVars => NoLostSlot'
<1> SUFFICES ASSUME BreakerBase, NoLostSlot, [BreakerNext]_breakerVars,
                    state' = "HALF_OPEN"
             PROVE  halfOpenInFlight' <= Cardinality(probes')
  BY DEF NoLostSlot
<1>0. BreakerTypeOK /\ (state = "HALF_OPEN" => halfOpenInFlight <= Cardinality(probes))
  BY DEF BreakerBase, NoLostSlot
<1>1. ASSUME NEW r \in Requests, HalfOpen(r)
      PROVE  halfOpenInFlight' <= Cardinality(probes')
  <2>1. CASE HalfOpenThreshold > 0
    BY <1>1, <2>1, FS_Singleton DEF HalfOpen
  <2>2. CASE ~(HalfOpenThreshold > 0)
    BY <1>1, <2>2, FS_EmptySet DEF HalfOpen
  <2> QED BY <2>1, <2>2
<1>2. ASSUME NEW r \in Requests, AdmitProbe(r)
      PROVE  halfOpenInFlight' <= Cardinality(probes')
  <2>1. r \notin probes
    BY <1>0, <1>2 DEF AdmitProbe, BreakerTypeOK
  <2>2. Cardinality(probes') = Cardinality(probes) + 1
    BY <1>0, <1>2, <2>1, ProbesFinite, FS_AddElement DEF AdmitProbe
  <2> QED BY <1>0, <1>2, <2>2, ProbesFinite DEF AdmitProbe, BreakerTypeOK
<1>3. ASSUME NEW r \in Requests, SucceedInHalfOpen(r)
      PROVE  halfOpenInFlight' <= Cardinality(probes')
  <2>1. state = "HALF_OPEN" /\ halfOpenInFlight' = Released /\ probes' = probes \ {r}
    BY <1>3 DEF SucceedInHalfOpen, Forget
  <2>2. halfOpenInFlight \in Nat /\ Cardinality(probes) \in Nat
    BY <1>0, ProbesFinite, HalfOpenThresholdRange, ConfigAssumption DEF BreakerTypeOK
  <2>3. /\ Cardinality(probes') \in Nat
        /\ Cardinality(probes') >= Cardinality(probes) - 1
    BY <1>0, <2>1, OneProbeLess
  <2> QED BY <1>0, <2>1, <2>2, <2>3 DEF Released, NonNegative
<1>4. ASSUME NEW r \in Requests, FailInHalfOpen(r)
      PROVE  halfOpenInFlight' <= Cardinality(probes')
  <2>1. state = "HALF_OPEN" /\ halfOpenInFlight' = Released /\ probes' = probes \ {r}
    BY <1>4 DEF FailInHalfOpen, CountFailure
  <2>2. halfOpenInFlight \in Nat /\ Cardinality(probes) \in Nat
    BY <1>0, ProbesFinite, HalfOpenThresholdRange, ConfigAssumption DEF BreakerTypeOK
  <2>3. /\ Cardinality(probes') \in Nat
        /\ Cardinality(probes') >= Cardinality(probes) - 1
    BY <1>0, <2>1, OneProbeLess
  <2> QED BY <1>0, <2>1, <2>2, <2>3 DEF Released, NonNegative
<1>5. ASSUME NEW r \in Requests, FailInClosed(r) PROVE FALSE
  BY <1>5 DEF FailInClosed, CountFailure
<1>6. ASSUME CleanupStale PROVE FALSE
  BY <1>6 DEF CleanupStale, Forget
<1>7. ASSUME UNCHANGED <<state, halfOpenInFlight, probes>>
      PROVE  halfOpenInFlight' <= Cardinality(probes')
  BY <1>0, <1>7
<1>8. ASSUME NEW r \in Requests,
             AdmitFreely(r) \/ SucceedUncounted(r) \/ FailInOpen(r)
      PROVE  UNCHANGED <<state, halfOpenInFlight, probes>>
  BY <1>8 DEF AdmitFreely, SucceedUncounted, FailInOpen, metrics
<1>9. ASSUME BreakerTick \/ UNCHANGED breakerVars
      PROVE  UNCHANGED <<state, halfOpenInFlight, probes>>
  BY <1>9 DEF BreakerTick, breakerVars, metrics
<1> QED
  BY <1>1, <1>2, <1>3, <1>4, <1>5, <1>6, <1>7, <1>8, <1>9
     DEF BreakerNext, Admit, Succeed, Fail

\* Every slot the counter holds belongs to a probe still in flight, so a
\* HALF_OPEN circuit whose probes were all answered admits the next request.
THEOREM NoSlotIsLost == BreakerSpec => []NoLostSlot
<1>1. BreakerInit => NoLostSlot
  BY DEF BreakerInit, NoLostSlot
<1>2. BreakerBase /\ NoLostSlot /\ [BreakerNext]_breakerVars => NoLostSlot'
  BY SlotsStep
<1> QED BY <1>1, <1>2, BreakerInvariant, PTL DEF BreakerSpec

-----------------------------------------------------------------------------
(* The timeout is kept.  While an OPEN circuit waits, the time since its   *)
(* last activity and the time left never exceed the timeout together,       *)
(* so a timeout that is not longer than the stale age protects it.          *)

WaitWithinTimeout ==
  state = "OPEN" /\ retryIn > 0 => sinceActivity + retryIn <= Timeout

LEMMA WaitStep == BreakerBase /\ WaitWithinTimeout /\ [BreakerNext]_breakerVars => WaitWithinTimeout'
<1> SUFFICES ASSUME BreakerBase, WaitWithinTimeout, [BreakerNext]_breakerVars
             PROVE  WaitWithinTimeout'
  OBVIOUS
<1> USE ConfigAssumption, StaleAfterType DEF BreakerBase, BreakerTypeOK, WaitWithinTimeout
<1>1. ASSUME NEW r \in Requests, Admit(r) PROVE WaitWithinTimeout'
  BY <1>1 DEF Admit, AdmitFreely, HalfOpen, AdmitProbe, metrics
<1>2. ASSUME NEW r \in Requests, Succeed(r) PROVE WaitWithinTimeout'
  BY <1>2 DEF Succeed, SucceedUncounted, SucceedInHalfOpen, Forget
<1>3. ASSUME NEW r \in Requests, Fail(r) PROVE WaitWithinTimeout'
  BY <1>3 DEF Fail, FailInClosed, FailInHalfOpen, FailInOpen, CountFailure,
              metrics
<1>4. ASSUME CleanupStale PROVE WaitWithinTimeout'
  BY <1>4 DEF CleanupStale, Forget
<1>5. ASSUME BreakerTick PROVE WaitWithinTimeout'
  BY <1>5 DEF BreakerTick, NonNegative, Grow
<1>6. CASE UNCHANGED breakerVars
  BY <1>6 DEF breakerVars, metrics
<1> QED BY <1>1, <1>2, <1>3, <1>4, <1>5, <1>6 DEF BreakerNext

LEMMA WaitInvariant == BreakerSpec => []WaitWithinTimeout
<1>1. BreakerInit => WaitWithinTimeout
  BY DEF BreakerInit, WaitWithinTimeout
<1>2. BreakerBase /\ WaitWithinTimeout /\ [BreakerNext]_breakerVars => WaitWithinTimeout'
  BY WaitStep
<1> QED BY <1>1, <1>2, BreakerInvariant, PTL DEF BreakerSpec

\* An OPEN circuit keeps refusing for its whole timeout, provided the timeout
\* is not longer than ten rolling windows (isStale).
THEOREM TimeoutKept ==
  ASSUME Timeout <= StaleAfter
  PROVE  BreakerSpec => WaitIsKept
<1>1. BreakerBase /\ WaitWithinTimeout /\ [BreakerNext]_breakerVars
        => [state = "OPEN" /\ state' # "OPEN" => retryIn = 0]_breakerVars
  <2> SUFFICES ASSUME BreakerBase, WaitWithinTimeout, BreakerNext, state = "OPEN", state' # "OPEN"
               PROVE  retryIn = 0
    OBVIOUS
  <2>1. ASSUME NEW r \in Requests, Admit(r) PROVE retryIn = 0
    BY <2>1 DEF Admit, AdmitFreely, HalfOpen, AdmitProbe, RetryDue
  <2>2. ASSUME NEW r \in Requests, Succeed(r) PROVE FALSE
    BY <2>2 DEF Succeed, SucceedUncounted, SucceedInHalfOpen
  <2>3. ASSUME NEW r \in Requests, Fail(r) PROVE FALSE
    BY <2>3 DEF Fail, FailInClosed, FailInHalfOpen, FailInOpen
  <2>4. ASSUME CleanupStale PROVE retryIn = 0
    BY <2>4, ConfigAssumption, StaleAfterType
       DEF CleanupStale, BreakerBase, BreakerTypeOK, WaitWithinTimeout
  <2>5. ASSUME BreakerTick PROVE FALSE
    BY <2>5 DEF BreakerTick
  <2> QED BY <2>1, <2>2, <2>3, <2>4, <2>5 DEF BreakerNext
<1> QED BY <1>1, BreakerInvariant, WaitInvariant, PTL DEF BreakerSpec, WaitIsKept
-----------------------------------------------------------------------------
(* The breaker implements the gate: each of its steps is a step of the gate  *)
(* or leaves the gate alone.                                                *)

LEMMA GateStep ==
  ASSUME Timeout <= StaleAfter, BreakerBase, WaitWithinTimeout, [BreakerNext]_breakerVars
  PROVE  [Gate!Next]_(Gate!vars)
<1> USE DEF GateState, Gate!vars
<1>1. ASSUME NEW r \in Requests, Admit(r) PROVE Gate!Pass(r) \/ Gate!Unlatch
  <2>1. CASE AdmitFreely(r)
    BY <2>1 DEF AdmitFreely, metrics, Gate!Pass
  <2>2. CASE HalfOpen(r)
    BY <2>2 DEF HalfOpen, RetryDue, Gate!Pass, Gate!Unlatch
  <2>3. CASE AdmitProbe(r)
    BY <2>3 DEF AdmitProbe, Gate!Pass
  <2> QED BY <1>1, <2>1, <2>2, <2>3 DEF Admit
<1>2. ASSUME NEW r \in Requests, Succeed(r) PROVE Gate!Return(r)
  <2>1. CASE SucceedUncounted(r)
    BY <2>1 DEF SucceedUncounted, Answered, Gate!Return
  <2>2. CASE SucceedInHalfOpen(r)
    BY <2>2 DEF SucceedInHalfOpen, Answered, Forget, BreakerBase, OnlyOpenWaits,
                Gate!Return
  <2> QED BY <1>2, <2>1, <2>2 DEF Succeed
<1>3. ASSUME NEW r \in Requests, Fail(r) PROVE Gate!Return(r)
  <2>1. CASE FailInClosed(r)
    BY <2>1 DEF FailInClosed, Answered, CountFailure, Gate!Return
  <2>2. CASE FailInHalfOpen(r)
    BY <2>2 DEF FailInHalfOpen, Answered, CountFailure, Gate!Return
  <2>3. CASE FailInOpen(r)
    BY <2>3 DEF FailInOpen, Answered, metrics, Gate!Return
  <2> QED BY <1>3, <2>1, <2>2, <2>3 DEF Fail
<1>4. ASSUME CleanupStale PROVE Gate!Forget
  <2>1. state = "OPEN" => retryIn = 0
    BY <1>4, ConfigAssumption, StaleAfterType
       DEF CleanupStale, BreakerBase, BreakerTypeOK, WaitWithinTimeout
  <2> QED BY <1>4, <2>1 DEF CleanupStale, Forget, BreakerBase, OnlyOpenWaits, Gate!Forget
<1>5. ASSUME BreakerTick PROVE Gate!Wait \/ UNCHANGED Gate!vars
  <2>1. retryIn \in Nat
    BY ConfigAssumption DEF BreakerBase, BreakerTypeOK
  <2> QED BY <1>5, <2>1 DEF BreakerTick, NonNegative, Gate!Wait
<1>6. CASE UNCHANGED breakerVars
  BY <1>6 DEF breakerVars, metrics
<1> QED
  BY <1>1, <1>2, <1>3, <1>4, <1>5, <1>6 DEF BreakerNext, Gate!Next

\* With a timeout of at most ten rolling windows the breaker is a RequestGate:
\* it shuts for the whole timeout and lets nobody through while it is shut.
THEOREM BreakerImplementsGate ==
  ASSUME Timeout <= StaleAfter
  PROVE  BreakerSpec => ImplementsGate
<1>1. BreakerInit => Gate!Init
  BY DEF BreakerInit, Gate!Init, GateState
<1>2. BreakerBase /\ WaitWithinTimeout /\ [BreakerNext]_breakerVars => [Gate!Next]_(Gate!vars)
  BY GateStep
<1> QED
  BY <1>1, <1>2, BreakerInvariant, WaitInvariant, PTL
     DEF BreakerSpec, ImplementsGate, Gate!Spec

-----------------------------------------------------------------------------
(* The read-through cache.                                                  *)

\* An entry has time left exactly while it is there; a key without an expiry
\* counts as Forever.
EntryLives == entry # Absent => entryLeft # 0

\* The marker outlives no more than its time to live, counted from its first
\* setting: EXPIRE NX does not prolong it, while every stamp renews its age.
MarkerLives ==
  /\ markerAge = Absent => markerLeft = 0
  /\ markerAge # Absent => markerLeft # 0 /\ markerAge + markerLeft <= MarkerTTL

\* Every event stands for a change upstream has made.
EventsOfChanges == pending + stamping <= version - FirstVersion

CacheBase == TypeOK /\ EntryLives /\ MarkerLives /\ EventsOfChanges /\ sealed <= version

LEMMA CacheBaseInit == Init => CacheBase
BY CacheAssumption DEF Init, CacheBase, TypeOK, EntryLives, MarkerLives,
                       EventsOfChanges, Versions, Absent, PCs, Forever

LEMMA CacheBaseStep == CacheBase /\ [Next]_vars => CacheBase'
<1> SUFFICES ASSUME CacheBase, [Next]_vars PROVE CacheBase'
  OBVIOUS
<1> USE CacheAssumption DEF CacheBase, TypeOK, EntryLives, MarkerLives,
        EventsOfChanges, Versions, Absent, PCs, Forever,
        upstream, redis, readers
<1>1. ASSUME NEW r \in Readers, Miss(r) PROVE CacheBase'
  BY <1>1 DEF Miss
<1>2. ASSUME NEW r \in Readers, UpstreamReads(r) PROVE CacheBase'
  BY <1>2 DEF UpstreamReads, Leads
<1>3. ASSUME NEW r \in Readers, Respond(r) PROVE CacheBase'
  BY <1>3 DEF Respond, Leads, Passengers
<1>4. ASSUME NEW r \in Readers, ShouldBeCached(r) PROVE CacheBase'
  BY <1>4 DEF ShouldBeCached
<1>5. ASSUME NEW r \in Readers, Write(r) PROVE CacheBase'
  BY <1>5 DEF Write, ExpireNX, TTLOf
<1>6. ASSUME NEW r \in Readers, FetchFails(r) PROVE CacheBase'
  BY <1>6 DEF FetchFails, Passengers
<1>7. ASSUME NEW r \in Readers, WriteFails(r) PROVE CacheBase'
  BY <1>7 DEF WriteFails
<1>8. ASSUME Change PROVE CacheBase'
  BY <1>8 DEF Change
<1>9. ASSUME Unlink PROVE CacheBase'
  BY <1>9 DEF Unlink
<1>10. ASSUME Stamp PROVE CacheBase'
  BY <1>10 DEF Stamp, ExpireNX
<1>11. ASSUME Tick PROVE CacheBase'
  BY <1>11 DEF Tick, Elapse, Older
<1>12. ASSUME StampFails PROVE CacheBase'
  BY <1>12 DEF StampFails
<1>13. ASSUME NEW r \in Readers, DieMidWrite(r) PROVE CacheBase'
  BY <1>13 DEF DieMidWrite
<1>14. CASE UNCHANGED vars
  BY <1>14 DEF vars
<1> QED
  BY <1>1, <1>2, <1>3, <1>4, <1>5, <1>6, <1>7, <1>8, <1>9, <1>10, <1>11, <1>12,
     <1>13, <1>14
     DEF Next, Progress

LEMMA CacheInvariant == Spec => []CacheBase
<1>1. Init => CacheBase BY CacheBaseInit
<1>2. CacheBase /\ [Next]_vars => CacheBase' BY CacheBaseStep
<1> QED BY <1>1, <1>2, PTL DEF Spec

\* Type correctness of the cache.
THEOREM CacheTypeCorrect == Spec => []TypeOK
<1>1. CacheBase => TypeOK BY DEF CacheBase
<1> QED BY <1>1, CacheInvariant, PTL
-----------------------------------------------------------------------------
(* The marker.  Who shares a request joined one that is still out, and gets  *)
(* its answer when that request does.                                       *)

Joined(r) ==
  /\ pc[flight[r]] = "fetching" /\ flight[flight[r]] = flight[r]
  /\ startAge[flight[r]] <= FetchTimeout
  /\ flight[r] # r => got[r] = Absent

FlightsLed == \A r \in Readers : pc[r] = "fetching" => Joined(r)

Sealed == FlightsLed /\ FreshAfterSeal
FreshInv == CacheBase /\ Sealed

LEMMA FreshInit == Init => FreshInv
BY CacheBaseInit DEF Init, FreshInv, Sealed, FlightsLed, FreshAfterSeal

\* A reader starts a request, or joins that of a leader.
LEMMA MissSealed ==
  ASSUME FreshInv, NEW r \in Readers, Miss(r)
  PROVE  Sealed'
<1>t. TypeOK /\ FlightsLed /\ FreshAfterSeal
  BY DEF FreshInv, CacheBase, Sealed
<1>1. PICK leader \in {r} \union {s \in Readers : SharesRequests /\ pc[s] = "fetching"} :
        flight' = [flight EXCEPT ![r] = IF leader = r THEN r ELSE flight[leader]]
  BY DEF Miss
<1>2. /\ pc[r] = "idle" /\ pc' = [pc EXCEPT ![r] = "fetching"]
      /\ startAge' = [startAge EXCEPT ![r] = 0] /\ got' = [got EXCEPT ![r] = Absent]
      /\ UNCHANGED <<markerAge, sealed>>
  BY DEF Miss, redis
<1>3. /\ flight \in [Readers -> Readers] /\ pc \in [Readers -> PCs]
      /\ got \in [Readers -> Versions \union {Absent}]
      /\ startAge \in [Readers -> 0 .. MarkerTTL + FetchTimeout]
  BY <1>t DEF TypeOK
<1>4. ASSUME NEW s \in Readers, pc'[s] = "fetching" PROVE Joined(s)'
  <2>1. CASE s # r
    <3>1. pc[s] = "fetching" /\ flight'[s] = flight[s] /\ got'[s] = got[s]
      BY <1>1, <1>2, <1>3, <1>4, <2>1
    <3>2. Joined(s) /\ flight[s] \in Readers
      BY <1>t, <1>3, <3>1 DEF FlightsLed
    <3>3. flight[s] # r
      BY <1>2, <3>2 DEF Joined
    <3> QED BY <1>1, <1>2, <1>3, <3>1, <3>2, <3>3 DEF Joined
  <2>2. CASE s = r /\ leader = r
    BY <1>1, <1>2, <1>3, <2>2, CacheAssumption DEF Joined
  <2>3. CASE s = r /\ leader # r
    <3>1. leader \in Readers /\ pc[leader] = "fetching"
      BY <2>3
    <3>2. Joined(leader) /\ flight[leader] \in Readers
      BY <1>t, <1>3, <3>1 DEF FlightsLed
    <3>3. flight[leader] # r /\ flight'[r] = flight[leader]
      BY <1>1, <1>2, <1>3, <2>3, <3>2 DEF Joined
    <3> QED BY <1>1, <1>2, <1>3, <2>3, <3>2, <3>3 DEF Joined
  <2> QED BY <2>1, <2>2, <2>3
<1>5. FreshAfterSeal'
  BY <1>t, <1>1, <1>2, <1>3 DEF FreshAfterSeal, Newer
<1> QED BY <1>4, <1>5 DEF Sealed, FlightsLed

\* An answer is not older than the marker if its request is younger than the marker, and
\* a request that is out is no older than a fetch may be.
LEMMA RespondSealed ==
  ASSUME FreshInv, NEW r \in Readers, Respond(r)
  PROVE  Sealed'
<1>t. TypeOK /\ FlightsLed /\ FreshAfterSeal
  BY DEF FreshInv, CacheBase, Sealed
<1>1. /\ flight \in [Readers -> Readers] /\ pc \in [Readers -> PCs]
      /\ got \in [Readers -> Versions \union {Absent}]
      /\ startAge \in [Readers -> 0 .. MarkerTTL + FetchTimeout]
      /\ markerAge \in 0 .. MarkerTTL \union {Absent}
  BY <1>t DEF TypeOK
<1>2. /\ pc[r] = "fetching" /\ flight[r] = r /\ got[r] # Absent
      /\ pc' = [s \in Readers |->
                  IF s \notin Passengers(r) THEN pc[s]
                  ELSE IF got[r] = 0 THEN "missing" ELSE "answered"]
      /\ got' = [s \in Readers |-> IF s \in Passengers(r) THEN got[r] ELSE got[s]]
      /\ UNCHANGED <<markerAge, startAge, flight, sealed>>
  BY DEF Respond, Leads, redis
<1>3. Joined(r)
  BY <1>t, <1>2 DEF FlightsLed
<1>4. ASSUME NEW s \in Readers, pc'[s] = "fetching" PROVE Joined(s)'
  <2>1. pc[s] = "fetching" /\ s \notin Passengers(r)
    BY <1>2, <1>4
  <2>2. Joined(s) /\ flight[s] # r /\ flight[s] \in Readers
    BY <1>t, <1>1, <2>1 DEF FlightsLed, Passengers
  <2>3. flight[s] \notin Passengers(r)
    BY <2>2 DEF Joined, Passengers
  <2> QED BY <1>2, <2>1, <2>2, <2>3 DEF Joined
<1>5. ASSUME NEW s \in Readers, pc'[s] \in {"fetching", "answered"}, got'[s] # Absent,
             markerAge # Absent, markerAge > startAge[s],
             flight[s] # s => markerAge > startAge[s] + FetchTimeout
      PROVE  got'[s] >= sealed
  <2>1. CASE s \in Passengers(r)
    <3>1. flight[s] = r /\ got'[s] = got[r]
      BY <1>2, <2>1 DEF Passengers
    <3>2. startAge[r] <= FetchTimeout
      BY <1>2, <1>3 DEF Joined
    <3>3. markerAge > startAge[r]
      <4>1. /\ markerAge \in Int /\ startAge[r] \in Int /\ startAge[s] \in Nat
            /\ FetchTimeout \in Nat
        BY <1>1, CacheAssumption DEF Absent
      <4> QED BY <1>5, <3>1, <3>2, <4>1
    <3> QED BY <1>t, <1>2, <1>5, <3>1, <3>3 DEF FreshAfterSeal, Newer
  <2>2. CASE s \notin Passengers(r)
    BY <1>t, <1>2, <1>5, <2>2 DEF FreshAfterSeal, Newer
  <2> QED BY <2>1, <2>2
<1> QED BY <1>2, <1>4, <1>5 DEF Sealed, FlightsLed, FreshAfterSeal, Newer

\* All ages grow by one, or are held at their bounds.
LEMMA TickSealed == FreshInv /\ Tick => Sealed'
<1> SUFFICES ASSUME FreshInv, Tick PROVE Sealed'
  OBVIOUS
<1>t. TypeOK /\ FlightsLed /\ FreshAfterSeal
  BY DEF FreshInv, CacheBase, Sealed
<1>1. /\ flight \in [Readers -> Readers] /\ FetchTimeout \in Nat /\ MarkerTTL \in Nat
      /\ startAge \in [Readers -> 0 .. MarkerTTL + FetchTimeout]
      /\ markerAge \in 0 .. MarkerTTL \union {Absent}
  BY <1>t, CacheAssumption DEF TypeOK
<1>2. /\ \A r \in Readers : Leads(r) => startAge[r] < FetchTimeout
      /\ markerAge' = IF markerAge = Absent \/ markerLeft = 1 THEN Absent
                      ELSE Older(markerAge, MarkerTTL)
      /\ startAge' = [r \in Readers |->
                        IF pc[r] \in {"fetching", "answered"}
                        THEN Older(startAge[r], MarkerTTL + FetchTimeout)
                        ELSE startAge[r]]
      /\ UNCHANGED <<pc, got, flight, sealed>>
  BY DEF Tick
<1>3. ASSUME NEW r \in Readers, pc'[r] = "fetching" PROVE Joined(r)'
  <2>1. Joined(r) /\ flight[r] \in Readers
    BY <1>t, <1>1, <1>2, <1>3 DEF FlightsLed
  <2>2. startAge[flight[r]] < FetchTimeout
    BY <1>2, <2>1 DEF Joined, Leads
  <2>3. startAge'[flight[r]] <= FetchTimeout
    BY <1>1, <1>2, <2>1, <2>2 DEF Older
  <2> QED BY <1>2, <2>1, <2>3 DEF Joined
<1>4. ASSUME NEW r \in Readers, pc[r] \in {"fetching", "answered"}, got[r] # Absent,
             markerAge' # Absent, markerAge' > startAge'[r],
             flight[r] # r => markerAge' > startAge'[r] + FetchTimeout
      PROVE  got[r] >= sealed
  <2>1. /\ markerAge \in 0 .. MarkerTTL /\ markerAge' \in 0 .. MarkerTTL
        /\ markerAge' <= markerAge + 1
    BY <1>1, <1>2, <1>4 DEF Older
  <2>2. /\ startAge[r] \in 0 .. MarkerTTL + FetchTimeout
        /\ startAge'[r] = IF startAge[r] < MarkerTTL + FetchTimeout
                          THEN startAge[r] + 1 ELSE startAge[r]
    BY <1>1, <1>2, <1>4 DEF Older
  <2>3. /\ markerAge # Absent /\ markerAge > startAge[r]
        /\ flight[r] # r => markerAge > startAge[r] + FetchTimeout
    BY <1>1, <1>4, <2>1, <2>2 DEF Absent
  <2> QED BY <1>t, <1>4, <2>3 DEF FreshAfterSeal, Newer
<1> QED BY <1>2, <1>3, <1>4 DEF Sealed, FlightsLed, FreshAfterSeal, Newer

LEMMA FreshStep == FreshInv /\ [Next]_vars => FreshInv'
<1> SUFFICES ASSUME FreshInv, [Next]_vars PROVE Sealed'
  BY CacheBaseStep DEF FreshInv
<1>t. TypeOK /\ sealed <= version BY DEF FreshInv, CacheBase
<1>a. FlightsLed /\ FreshAfterSeal BY DEF FreshInv, Sealed
<1> USE CacheAssumption DEF TypeOK, Sealed, FlightsLed, Joined, FreshAfterSeal,
        Versions, Absent, PCs, Newer, upstream, redis, readers
<1>1. ASSUME NEW r \in Readers, UpstreamReads(r) PROVE Sealed'
  BY <1>1, <1>t, <1>a DEF UpstreamReads, Leads
<1>2. ASSUME NEW r \in Readers, ShouldBeCached(r) PROVE Sealed'
  BY <1>2, <1>t, <1>a DEF ShouldBeCached
<1>3. ASSUME NEW r \in Readers, Write(r) PROVE Sealed'
  BY <1>3, <1>t, <1>a DEF Write
<1>4. ASSUME NEW r \in Readers, FetchFails(r) PROVE Sealed'
  BY <1>4, <1>t, <1>a DEF FetchFails, Passengers
<1>5. ASSUME NEW r \in Readers, WriteFails(r) PROVE Sealed'
  BY <1>5, <1>t, <1>a DEF WriteFails
<1>6. ASSUME NEW r \in Readers, DieMidWrite(r) PROVE Sealed'
  BY <1>6, <1>t, <1>a DEF DieMidWrite
<1>7. CASE Change
  BY <1>7, <1>t, <1>a DEF Change
<1>8. CASE Unlink
  BY <1>8, <1>t, <1>a DEF Unlink
<1>9. CASE Stamp
  \* The marker's age is 0, so no request is newer than it.
  BY <1>9, <1>t, <1>a DEF Stamp
<1>10. CASE StampFails
  BY <1>10, <1>t, <1>a DEF StampFails
<1>11. CASE UNCHANGED vars
  BY <1>11, <1>a DEF vars
<1> QED
  BY <1>1, <1>2, <1>3, <1>4, <1>5, <1>6, <1>7, <1>8, <1>9, <1>10, <1>11,
     MissSealed, RespondSealed, TickSealed
     DEF Next, Progress

\* The invalidation marker keeps its promise: no answer that the check would let through
\* was read from upstream before the marker was set, or it is shared and the marker was
\* set within the time of a fetch before (_shouldBeCached, deleteByKey).
THEOREM MarkerSeals == Spec => []FreshAfterSeal
<1>1. FreshInv => FreshAfterSeal
  BY DEF FreshInv, Sealed
<1> QED BY <1>1, FreshInit, FreshStep, PTL DEF Spec
=============================================================================
