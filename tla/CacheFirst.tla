------------------------------ MODULE CacheFirst ------------------------------
(***************************************************************************)
(* The read-through cache in front of every upstream API:                  *)
(*   src/src/datasources/cache/cache.first.data.source.ts   get / post     *)
(*   src/src/datasources/cache/redis.cache.service.ts       hSet, hGet,    *)
(*                                                          deleteByKey    *)
(*   src/src/datasources/network/network.module.ts          sharing of     *)
(*                                                          equal requests *)
(*                                                                         *)
(* The module follows one Redis key.  Upstream holds a version of the      *)
(* resource, version 0 being "not found".  Readers are requests being      *)
(* served, in one process or in several; each await of the code is the end *)
(* of a step.  Upstream changes are announced by an event each, and the    *)
(* handler of the event calls deleteByKey.                                 *)
(*                                                                         *)
(* Times are kept as ages and as time left, because the code and Redis     *)
(* only ever compare two of them.                                          *)
(***************************************************************************)
EXTENDS Integers

CONSTANTS Readers,
          FirstVersion,    \* 0 if the resource does not exist at first
          MaxVersion,      \* bound: the number of upstream changes
          EntryTTL,        \* expireTimeSeconds of the cached reads
          NotFoundTTL,     \* notFoundExpireTimeSeconds
          MarkerTTL,       \* expirationTimeInSeconds.default, for the marker
          FetchTimeout,    \* httpClient.requestTimeout
          SharesRequests,  \* features.cacheInFlightRequests
          Crashes          \* may a process die mid-write, or Redis mid-stamp?

ASSUME CacheAssumption ==
  /\ FirstVersion \in {0, 1}
  /\ MaxVersion \in Nat /\ FirstVersion <= MaxVersion
  /\ EntryTTL \in Nat \ {0} /\ NotFoundTTL \in Nat \ {0}
  /\ MarkerTTL \in Nat \ {0}
  /\ FetchTimeout \in Nat \ {0}
  /\ SharesRequests \in BOOLEAN /\ Crashes \in BOOLEAN

VARIABLES
  version,      \* what upstream would answer now
  pending,      \* events of upstream changes not handled yet
  stamping,     \* deleteByKey calls between unlink and the marker's hSet
  entry,        \* the cached version, or Absent
  entryLeft,    \* its time to live
  markerAge,    \* age of the time in invalidationTimeMs:<key>, or Absent
  markerLeft,   \* time to live of the marker
  pc, startAge, got, flight,
  sealed        \* history: the upstream version when the marker was last set

redis == <<entry, entryLeft, markerAge, markerLeft>>
readers == <<pc, startAge, got, flight>>
upstream == <<version, pending>>
vars == <<upstream, stamping, redis, readers, sealed>>

Absent == -1
Versions == FirstVersion .. MaxVersion

\* Longer than any expiry: a key whose EXPIRE was never sent.
Forever == IF EntryTTL < NotFoundTTL THEN NotFoundTTL + 1 ELSE EntryTTL + 1

PCs == {"idle", "fetching", "answered", "checked", "missing", "dead"}

TypeOK ==
  /\ version \in Versions
  /\ pending \in 0 .. MaxVersion /\ stamping \in 0 .. MaxVersion
  /\ entry \in Versions \union {Absent}
  /\ entryLeft \in 0 .. Forever
  /\ markerAge \in 0 .. MarkerTTL \union {Absent}
  /\ markerLeft \in 0 .. MarkerTTL
  /\ pc \in [Readers -> PCs]
  /\ startAge \in [Readers -> 0 .. MarkerTTL + FetchTimeout]
  /\ got \in [Readers -> Versions \union {Absent}]
  /\ flight \in [Readers -> Readers]
  /\ sealed \in Versions

Init ==
  /\ version = FirstVersion /\ pending = 0 /\ stamping = 0
  /\ entry = Absent /\ entryLeft = 0
  /\ markerAge = Absent /\ markerLeft = 0
  /\ pc = [r \in Readers |-> "idle"]
  /\ startAge = [r \in Readers |-> 0]
  /\ got = [r \in Readers |-> Absent]
  /\ flight = [r \in Readers |-> r]
  /\ sealed = FirstVersion

-----------------------------------------------------------------------------
(* One read.  A hit serves the entry and changes nothing.                   *)

\* hGet finds nothing; startTimeMs is taken and the request goes out, or, with
\* request sharing, joins an equal one of the same process that is still out.
Miss(r) ==
  /\ pc[r] = "idle"
  /\ entry = Absent
  /\ \E leader \in {r} \union
                   {s \in Readers : SharesRequests /\ pc[s] = "fetching"} :
       flight' = [flight EXCEPT ![r] = IF leader = r THEN r ELSE flight[leader]]
  /\ pc' = [pc EXCEPT ![r] = "fetching"]
  /\ startAge' = [startAge EXCEPT ![r] = 0]
  /\ got' = [got EXCEPT ![r] = Absent]
  /\ UNCHANGED <<upstream, stamping, redis, sealed>>

Leads(r) == pc[r] = "fetching" /\ flight[r] = r
Passengers(r) == {s \in Readers : pc[s] = "fetching" /\ flight[s] = r}

\* Upstream reads its state for the answer, some time before it arrives.
UpstreamReads(r) ==
  /\ Leads(r) /\ got[r] = Absent
  /\ got' = [got EXCEPT ![r] = version]
  /\ UNCHANGED <<upstream, stamping, redis, pc, startAge, flight, sealed>>

\* The answer arrives, at every request that shares it.  A 404 is thrown and
\* caught by tryCache, which goes straight on to cacheNotFoundError.
Respond(r) ==
  /\ Leads(r) /\ got[r] # Absent
  /\ pc' = [s \in Readers |->
              IF s \notin Passengers(r) THEN pc[s]
              ELSE IF got[r] = 0 THEN "missing" ELSE "answered"]
  /\ got' = [s \in Readers |-> IF s \in Passengers(r) THEN got[r] ELSE got[s]]
  /\ UNCHANGED <<upstream, stamping, redis, startAge, flight, sealed>>

\* A timeout, a network error or an error status other than 404.
FetchFails(r) ==
  /\ Leads(r)
  /\ pc' = [s \in Readers |-> IF s \in Passengers(r) THEN "idle" ELSE pc[s]]
  /\ UNCHANGED <<upstream, stamping, redis, startAge, got, flight, sealed>>

\* invalidationTimeMs < startTimeMs, or no marker.
Newer_OrEqual(r) == markerAge >= startAge[r]
Newer(r) == markerAge > startAge[r]

\* _shouldBeCached: hGet of the marker.  A refused answer is still returned to
\* the client, but not written.
ShouldBeCached(r) ==
  /\ pc[r] = "answered"
  /\ pc' = [pc EXCEPT ![r] =
              IF markerAge = Absent \/ Newer(r) THEN "checked" ELSE "idle"]
  /\ UNCHANGED <<upstream, stamping, redis, startAge, got, flight, sealed>>

\* EXPIRE NX: a key that has an expiry keeps it.
ExpireNX_Never(present, left, ttl, none) == IF present THEN left ELSE none
ExpireNX_Extends(present, left, ttl, none) ==
  IF present THEN left + ttl ELSE ttl
ExpireNX(present, left, ttl, none) ==
  IF present /\ left # none THEN left ELSE ttl

TTLOf(v) == IF v = 0 THEN NotFoundTTL ELSE EntryTTL

\* hSet of the entry: HSET, then EXPIRE NX.  No step of another actor can come
\* between the two and change their outcome.
Write(r) ==
  /\ pc[r] \in {"checked", "missing"}
  /\ entry' = got[r]
  /\ entryLeft' = ExpireNX(entry # Absent, entryLeft, TTLOf(got[r]), Forever)
  /\ pc' = [pc EXCEPT ![r] = "idle"]
  /\ UNCHANGED <<upstream, stamping, markerAge, markerLeft, startAge, got,
                 flight, sealed>>

\* The process dies between the two, and with it the request.
DieMidWrite(r) ==
  /\ Crashes
  /\ pc[r] \in {"checked", "missing"}
  /\ entry' = got[r]
  /\ entryLeft' = IF entry = Absent THEN Forever ELSE entryLeft
  /\ pc' = [pc EXCEPT ![r] = "dead"]
  /\ UNCHANGED <<upstream, stamping, markerAge, markerLeft, startAge, got,
                 flight, sealed>>

\* hSet catches an error of HSET or EXPIRE, unlinks the key and throws.
WriteFails(r) ==
  /\ pc[r] \in {"checked", "missing"}
  /\ entry' = Absent /\ entryLeft' = 0
  /\ pc' = [pc EXCEPT ![r] = "idle"]
  /\ UNCHANGED <<upstream, stamping, markerAge, markerLeft, startAge, got,
                 flight, sealed>>

-----------------------------------------------------------------------------
(* Invalidation.                                                            *)

\* Upstream changes and announces it.
Change ==
  /\ version < MaxVersion
  /\ version' = version + 1
  /\ pending' = pending + 1
  /\ UNCHANGED <<stamping, redis, readers, sealed>>

\* deleteByKey, its UNLINK.
Unlink ==
  /\ pending > 0
  /\ pending' = pending - 1
  /\ stamping' = stamping + 1
  /\ entry' = Absent /\ entryLeft' = 0
  /\ UNCHANGED <<version, markerAge, markerLeft, readers, sealed>>

\* deleteByKey, its hSet of invalidationTimeMs:<key> to Date.now().
Stamp ==
  /\ stamping > 0
  /\ stamping' = stamping - 1
  /\ markerAge' = 0
  /\ markerLeft' = ExpireNX(markerAge # Absent, markerLeft, MarkerTTL, 0)
  /\ sealed' = version
  /\ UNCHANGED <<upstream, entry, entryLeft, readers>>

\* Redis is lost in that hSet: it unlinks the marker and deleteByKey throws.
StampFails ==
  /\ Crashes
  /\ stamping > 0
  /\ stamping' = stamping - 1
  /\ markerAge' = Absent /\ markerLeft' = 0
  /\ UNCHANGED <<upstream, entry, entryLeft, readers, sealed>>

-----------------------------------------------------------------------------
(* Time.  Redis drops a key when its time is up.  A fetch that reaches its  *)
(* timeout ends before time goes on (AbortSignal.timeout).                  *)

Elapse(left) == IF left = 0 THEN 0 ELSE left - 1
Older(age, cap) == IF age < cap THEN age + 1 ELSE age

Tick ==
  /\ \A r \in Readers : Leads(r) => startAge[r] < FetchTimeout
  /\ LET expires == entry # Absent /\ entryLeft = 1
         ages == entry # Absent /\ entryLeft # Forever
     IN  /\ entry' = IF expires THEN Absent ELSE entry
         /\ entryLeft' = IF ages THEN Elapse(entryLeft) ELSE entryLeft
  /\ markerAge' = IF markerAge = Absent \/ markerLeft = 1 THEN Absent
                  ELSE Older(markerAge, MarkerTTL)
  /\ markerLeft' = Elapse(markerLeft)
  /\ startAge' = [r \in Readers |->
                    IF pc[r] \in {"fetching", "answered"}
                    THEN Older(startAge[r], MarkerTTL + FetchTimeout)
                    ELSE startAge[r]]
  /\ UNCHANGED <<upstream, stamping, pc, got, flight, sealed>>

Progress(r) ==
  UpstreamReads(r) \/ Respond(r) \/ ShouldBeCached(r) \/ Write(r)

Next ==
  \/ \E r \in Readers : Miss(r) \/ Progress(r) \/ FetchFails(r) \/ WriteFails(r)
                      \/ DieMidWrite(r)
  \/ Change \/ Unlink \/ Stamp \/ StampFails
  \/ Tick

Spec == Init /\ [][Next]_vars

\* Started reads end, announced changes are handled and time passes.  Nobody has
\* to read, and upstream does not have to change.
FairSpec ==
  /\ Spec
  /\ \A r \in Readers : WF_vars(Progress(r) \/ FetchFails(r) \/ WriteFails(r) \/ DieMidWrite(r))
  /\ WF_vars(Unlink) /\ WF_vars(Stamp \/ StampFails) /\ WF_vars(Tick)

-----------------------------------------------------------------------------
(* Properties.                                                              *)

\* What the marker is good for: an answer that the check would let through while the
\* marker is there was read from upstream no earlier than the marker was set
\* (_shouldBeCached, deleteByKey).  A reader that joined a request knows only when it
\* joined: of what it shares this is promised if it came after the marker by more
\* than a fetch may take.
FreshAfterSeal ==
  \A r \in Readers :
    /\ pc[r] \in {"fetching", "answered"} /\ got[r] # Absent
    /\ markerAge # Absent /\ Newer(r)
    /\ flight[r] # r => markerAge > startAge[r] + FetchTimeout
    => got[r] >= sealed

\* However the races end, the cache does not stay wrong: once upstream has
\* stopped changing, from some time on the entry is absent or current.  Its expiry
\* is the last resort, and an entry whose writer died before EXPIRE has none: a
\* death between the two commands is excepted (hSet).
Converges ==
  <>[](entry \in {Absent, version} \/ \E r \in Readers : pc[r] = "dead")
=============================================================================
