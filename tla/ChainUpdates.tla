------------------------------ MODULE ChainUpdates ------------------------------
(***************************************************************************)
(* A chain's configuration changes, and what the replicas of the gateway   *)
(* keep of the former one:                                                 *)
(*   src/src/modules/hooks/domain/hooks.repository.ts         onEvent      *)
(*   src/src/modules/hooks/domain/helpers/event-cache.helper.ts            *)
(*   src/src/datasources/common/chain-api.manager.ts          API clients  *)
(*   src/src/modules/queues/datasources/queues-api.service.ts              *)
(*   src/src/datasources/cache/cache.first.data.source.ts                  *)
(*   src/src/datasources/cache/redis.cache.service.ts                      *)
(*                                                                         *)
(* The configuration is cached in Redis, for all replicas.  Each replica   *)
(* remembers whether the chain is supported, and the clients it built for  *)
(* the chain's services: as promises, pending until a reader has got the   *)
(* configuration.  A message announces a change to whichever replica takes *)
(* it from the queue.                                                      *)
(*                                                                         *)
(* One chain.  Reading through the cache has the steps of CacheFirst, but  *)
(* no clock: what the marker tells the check is kept with each reader, and *)
(* the marker and the entry may expire at any time.  Transactions' events  *)
(* clear the cache of a Safe if the chain is supported, which is one call  *)
(* per key, and are left out, as are safe apps and logs.                   *)
(*                                                                         *)
(* Names that DeviceRegistry has too say Chains here: Events_proofs        *)
(* extends both.                                                           *)
(***************************************************************************)
EXTENDS Integers

CONSTANTS Procs,          \* replicas
          Readers,        \* bound: reads of the configuration under way at a time
          Kinds,          \* of the clients a replica builds for the chain
          SharesRequests, \* features.cacheInFlightRequests
          MaxChanges,     \* bound: changes of the configuration
          MaxFailures     \* bound: calls that fail and replicas that restart

NoPromise == "none"

ASSUME UpdatesAssumption ==
  /\ Procs # {} /\ {"memo", NoPromise} \intersect Kinds = {}
  /\ SharesRequests \in BOOLEAN
  /\ MaxChanges \in Nat /\ MaxFailures \in Nat

VARIABLES
  config,      \* the config service: the version of the chain ...
  listed,      \* ... and whether it has the chain
  cached,      \* the cached chain: a version, or one of those below
  lasting,     \* it has no expiry
  slipped,     \* history: the read that cached it was overtaken
  queue,       \* announcements not taken
  handling,    \* what each replica does next of the announcement it handles, if any
  seen,        \* history: the version that was current when it unlinked the cache
  kept,        \* what each replica remembers
  told,        \* history: the version each replica was last told of, to the end
  doubtful,    \* history: the clients that are of an overtaken read
  reader,      \* reads of the configuration under way: the promise each is for, the
               \* answer upstream gave, and whether it is
               \*   outdated: it started before the time that the marker has
               \*   overtaken: its answer was there, and old, at an UNLINK, and no
               \*   marker holds it back (history)
  failures     \* calls that failed, replicas that restarted

memory == <<kept, told, doubtful>>
cache == <<cached, lasting, slipped>>
upstreamConfig == <<config, listed>>
chainsVars == <<upstreamConfig, cache, queue, handling, seen, memory, reader, failures>>

Missing == 0    \* an answer, cached or not: the chain is unknown
None == -1      \* nothing answered, cached or remembered
Pending == -2   \* a promise
Error == -3     \* an answer: the call failed

Versions == 1 .. MaxChanges + 1
Purposes == {"memo"} \union Kinds
\* What onConfigEventChainUpdate clears: the client of the exports is not among them
\* (those of swaps and bridges do not depend on the configuration).
ClearedKinds == {"blockchain", "staking", "earn", "transactions", "balances"}

NewReader(p, purpose) ==
  [at |-> "fetch", proc |-> p, promise |-> purpose, answer |-> None,
   outdated |-> FALSE, overtaken |-> FALSE]
NoReader == [NewReader(CHOOSE p \in Procs : TRUE, NoPromise) EXCEPT !.at = "idle"]

\* Requests that are out: one's own, or another's that was joined.
Out(r) == reader[r].at \in {"fetch", "shared"}

ChainsTypeOK ==
  /\ config \in Versions /\ listed \in BOOLEAN
  /\ cached \in {None, Missing} \union 1 .. config
  /\ lasting \in BOOLEAN /\ slipped \in BOOLEAN
  /\ queue \in 0 .. MaxChanges
  /\ handling \in [Procs -> {"nothing", "unlink", "stamp", "apis"}]
  /\ seen \in [Procs -> {None} \union 1 .. config]
  /\ told \in [Procs -> {None} \union 1 .. config]
  /\ kept \in [Procs -> [Purposes -> {None, Pending, Missing} \union 1 .. config]]
  /\ doubtful \in SUBSET (Procs \X Kinds)
  /\ reader \in [Readers -> [at : {"idle", "fetch", "shared", "write"}, proc : Procs,
                             promise : Purposes \union {NoPromise},
                             answer : {None, Missing} \union Versions,
                             outdated : BOOLEAN, overtaken : BOOLEAN]]
  /\ \A p \in Procs, x \in Purposes : kept[p][x] = Pending <=>
       \E r \in Readers : reader[r].proc = p /\ reader[r].promise = x
  /\ failures \in 0 .. MaxFailures

ChainsInit ==
  /\ config = 1 /\ listed \in BOOLEAN
  /\ cached = None /\ lasting = FALSE /\ slipped = FALSE
  /\ queue = 0
  /\ handling = [p \in Procs |-> "nothing"]
  /\ seen = [p \in Procs |-> None] /\ told = [p \in Procs |-> None]
  /\ kept = [p \in Procs |-> [x \in Purposes |-> None]]
  /\ doubtful = {}
  /\ reader = [r \in Readers |-> NoReader]
  /\ failures = 0

\* Replica p forgets, and whoever is still reading for it is on its own.
Forget(p, purposes) ==
  /\ kept' = [kept EXCEPT ![p] = [x \in Purposes |-> IF x \in purposes THEN None ELSE @[x]]]
  /\ doubtful' = doubtful \ ({p} \X purposes)
  /\ reader' = [r \in Readers |->
       IF reader[r].proc = p /\ reader[r].promise \in purposes
       THEN [reader[r] EXCEPT !.promise = NoPromise] ELSE reader[r]]

Failing == failures < MaxFailures /\ failures' = failures + 1

-----------------------------------------------------------------------------
(* The config service, its announcements and what expires in Redis.         *)

Change ==
  /\ config <= MaxChanges
  /\ config' = config + 1 /\ listed' \in BOOLEAN
  /\ queue' = queue + 1
  /\ UNCHANGED <<cache, handling, seen, memory, reader, failures>>

Uncache == cached' = None /\ lasting' = FALSE /\ slipped' = FALSE

ExpireChain ==
  /\ cached # None /\ ~lasting /\ Uncache
  /\ UNCHANGED <<upstreamConfig, queue, handling, seen, memory, reader, failures>>

Old(answer) == answer \in 1 .. config - 1

\* No marker: nothing holds back who started before it.
Unmarked == [r \in Readers |-> IF ~reader[r].outdated THEN reader[r] ELSE
               [reader[r] EXCEPT !.outdated = FALSE,
                                 !.overtaken = Old(reader[r].answer)]]

\* EXPIRE NX: a marker that was set again expires when the first one would have.
ExpireMarker ==
  /\ \E r \in Readers : reader[r].outdated
  /\ reader' = Unmarked
  /\ UNCHANGED <<upstreamConfig, cache, queue, handling, seen, memory, failures>>

-----------------------------------------------------------------------------
(* isSupportedChainMemo and getOrCreateApi, through the cache.              *)

\* isSupportedChain is false on any error, and remembered; a client that could not
\* be built is not.
Result_KeepsFailures(purpose, answer) ==
  IF purpose = "memo" THEN (IF answer \in Versions THEN 1 ELSE Missing)
  ELSE IF answer \in Versions THEN answer ELSE Pending
Result(purpose, answer) ==
  IF purpose = "memo" THEN (IF answer \in Versions THEN 1 ELSE Missing)
  ELSE IF answer \in Versions THEN answer ELSE None

\* Whether p's client x will be that of an overtaken read.
Doubt(p, x, overtaken) ==
  doubtful' = IF overtaken /\ x \in Kinds THEN doubtful \union {<<p, x>>}
              ELSE doubtful \ {<<p, x>>}

\* The configuration is cached.
Get(p, purpose) ==
  /\ kept[p][purpose] = None /\ cached # None
  /\ kept' = [kept EXCEPT ![p][purpose] = Result(purpose, cached)]
  /\ kept' # kept
  /\ Doubt(p, purpose, slipped)
  /\ UNCHANGED <<upstreamConfig, cache, queue, handling, seen, told, reader, failures>>

\* It is not: the promise is kept at once, for all who come next.
StartFetch(p, purpose, r) ==
  /\ kept[p][purpose] = None /\ cached = None
  /\ reader[r].at = "idle"
  /\ kept' = [kept EXCEPT ![p][purpose] = Pending]
  /\ Doubt(p, purpose, FALSE)
  /\ reader' = [reader EXCEPT ![r] = NewReader(p, purpose)]
  /\ UNCHANGED <<upstreamConfig, cache, queue, handling, seen, told, failures>>

\* What upstream would say now.
Answer == IF listed THEN config ELSE Missing

\* Equal requests of one replica are one while it is out: whoever joins gets its
\* answer, but has the time of its own start.  (Joining makes a difference only if
\* upstream would not give that answer any more: see StartFetch and Fetch.)
JoinFetch(p, purpose, r, q) ==
  /\ SharesRequests
  /\ kept[p][purpose] = None /\ cached = None
  /\ reader[r].at = "idle"
  /\ reader[q].at = "fetch" /\ reader[q].proc = p
  /\ reader[q].answer \notin {None, Answer}
  /\ kept' = [kept EXCEPT ![p][purpose] = Pending]
  /\ LET old == /\ Old(reader[q].answer)
                /\ reader[q].outdated \/ reader[q].overtaken
     IN  /\ Doubt(p, purpose, old)
         /\ reader' = [reader EXCEPT ![r] =
              [NewReader(p, purpose) EXCEPT !.at = "shared", !.answer = reader[q].answer,
                                            !.overtaken = old]]
  /\ UNCHANGED <<upstreamConfig, cache, queue, handling, seen, told, failures>>

\* The read ends, and with it its promise.
Settle(r, answer) ==
  LET p == reader[r].proc  x == reader[r].promise
  IN  /\ kept' = IF x = NoPromise THEN kept ELSE [kept EXCEPT ![p][x] = Result(x, answer)]
      /\ reader' = [reader EXCEPT ![r] = NoReader]
      /\ UNCHANGED <<told, doubtful>>

\* Upstream answers, or the call fails.
Fetch(r) ==
  /\ reader[r].at = "fetch" /\ reader[r].answer = None
  /\ reader' = [reader EXCEPT ![r].answer = Answer]
  /\ UNCHANGED <<upstreamConfig, cache, queue, handling, seen, memory, failures>>

FetchFails(r) ==
  /\ reader[r].at = "fetch" /\ Failing
  /\ Settle(r, Error)
  /\ UNCHANGED <<upstreamConfig, cache, queue, handling, seen>>

\* _shouldBeCached: the answer has arrived, the marker is read.  That the chain is
\* unknown is cached without asking.
Check(r) ==
  /\ Out(r) /\ reader[r].answer # None
  /\ IF reader[r].answer = Missing \/ ~reader[r].outdated
     THEN /\ reader' = [reader EXCEPT ![r].at = "write", ![r].outdated = FALSE]
          /\ UNCHANGED memory
     ELSE Settle(r, reader[r].answer)
  /\ UNCHANGED <<upstreamConfig, cache, queue, handling, seen, failures>>

\* hSet: HSET, then EXPIRE NX.
Write(r) ==
  /\ reader[r].at = "write"
  /\ cached' = reader[r].answer /\ lasting' = FALSE
  /\ slipped' = reader[r].overtaken
  /\ Settle(r, reader[r].answer)
  /\ UNCHANGED <<upstreamConfig, queue, handling, seen, failures>>

\* HSET, but no EXPIRE.
HalfWrite(r) ==
  /\ reader[r].at = "write"
  /\ cached' = reader[r].answer /\ lasting' = (lasting \/ cached = None)
  /\ slipped' = reader[r].overtaken

\* hSet catches the error, unlinks the key, which may fail too, and throws.
WriteFails(r) ==
  /\ reader[r].at = "write" /\ Failing
  /\ Uncache \/ HalfWrite(r)
  /\ Settle(r, Error)
  /\ UNCHANGED <<upstreamConfig, queue, handling, seen>>

\* clearSupportedChainsMemo, twice a minute.
Tick_KeepsUnknown(p) ==
  /\ kept[p]["memo"] \in Versions
  /\ Forget(p, {"memo"})
  /\ UNCHANGED <<upstreamConfig, cache, queue, handling, seen, told, failures>>
Tick(p) ==
  /\ kept[p]["memo"] # None
  /\ Forget(p, {"memo"})
  /\ UNCHANGED <<upstreamConfig, cache, queue, handling, seen, told, failures>>

-----------------------------------------------------------------------------
(* CHAIN_UPDATE: onEvent, onConfigEventChainUpdate.                         *)

\* The answer of the memo is awaited, although it does not matter here, before the
\* memo is cleared.
TakeUpdate(p) ==
  /\ queue > 0 /\ queue' = queue - 1
  /\ handling[p] = "nothing" /\ kept[p]["memo"] \notin {None, Pending}
  /\ handling' = [handling EXCEPT ![p] = "unlink"]
  /\ Forget(p, {"memo"})
  /\ UNCHANGED <<upstreamConfig, cache, seen, told, failures>>

\* clearChain: deleteByKey, its UNLINK.
UnlinkChain(p) ==
  /\ handling[p] = "unlink"
  /\ handling' = [handling EXCEPT ![p] = "stamp"]
  /\ seen' = [seen EXCEPT ![p] = config]
  /\ Uncache
  /\ reader' = [r \in Readers |->
       [reader[r] EXCEPT !.overtaken = @ \/ Old(reader[r].answer)]]
  /\ UNCHANGED <<upstreamConfig, queue, memory, failures>>

\* deleteByKey, its hSet of the marker: the check will refuse whoever has started
\* and not come to it.  (Its time is that of this step: markers of two replicas take
\* effect in the order of their times.)
StampChain(p) ==
  /\ handling[p] = "stamp"
  /\ handling' = [handling EXCEPT ![p] = "apis"]
  /\ reader' = [r \in Readers |-> IF ~Out(r) THEN reader[r] ELSE
       [reader[r] EXCEPT !.outdated = TRUE, !.overtaken = FALSE]]
  /\ UNCHANGED <<upstreamConfig, cache, queue, seen, memory, failures>>

\* One of these calls fails, or that of another key (clearChain, clearChainV2).  The
\* clients are not cleared then, and the message is acknowledged all the same.
\* Where it is the marker's hSet, that unlinks the marker.
ClearChainFails(p) ==
  /\ handling[p] # "nothing" /\ Failing
  /\ handling' = [handling EXCEPT ![p] = "nothing"]
  /\ seen' = [seen EXCEPT ![p] = None]
  /\ \/ UNCHANGED reader
     \/ handling[p] = "stamp" /\ reader' = Unmarked
  /\ UNCHANGED <<upstreamConfig, cache, queue, memory>>

\* clearApi: also clients that are still being built are let go.
ClearApis_BuiltOnly(p) ==
  /\ handling[p] = "apis"
  /\ handling' = [handling EXCEPT ![p] = "nothing"]
  /\ Forget(p, {x \in Kinds \intersect ClearedKinds : kept[p][x] # Pending})
  /\ told' = [told EXCEPT ![p] = seen[p]]
  /\ seen' = [seen EXCEPT ![p] = None]
  /\ UNCHANGED <<upstreamConfig, cache, queue, failures>>
ClearApis(p) ==
  /\ handling[p] = "apis"
  /\ handling' = [handling EXCEPT ![p] = "nothing"]
  /\ Forget(p, Kinds \intersect ClearedKinds)
  /\ told' = [told EXCEPT ![p] = seen[p]]
  /\ seen' = [seen EXCEPT ![p] = None]
  /\ UNCHANGED <<upstreamConfig, cache, queue, failures>>

\* A replica restarts, maybe in the middle of a write: a message it had not
\* acknowledged is delivered again.
Crash(p) ==
  /\ Failing
  /\ queue' = IF handling[p] = "nothing" THEN queue ELSE queue + 1
  /\ handling' = [handling EXCEPT ![p] = "nothing"]
  /\ seen' = [seen EXCEPT ![p] = None]
  /\ told' = [told EXCEPT ![p] = None]
  /\ kept' = [kept EXCEPT ![p] = [x \in Purposes |-> None]]
  /\ doubtful' = doubtful \ ({p} \X Kinds)
  /\ UNCHANGED cache \/ \E r \in Readers : reader[r].proc = p /\ HalfWrite(r)
  /\ reader' = [r \in Readers |-> IF reader[r].proc = p THEN NoReader ELSE reader[r]]
  /\ UNCHANGED upstreamConfig

ReadStep(r) == Fetch(r) \/ Check(r) \/ Write(r)

ChainsNext ==
  \/ Change \/ ExpireChain \/ ExpireMarker
  \/ \E r \in Readers : ReadStep(r) \/ FetchFails(r) \/ WriteFails(r)
  \/ \E p \in Procs :
       \/ Tick(p) \/ TakeUpdate(p) \/ UnlinkChain(p) \/ StampChain(p)
       \/ ClearChainFails(p) \/ ClearApis(p) \/ Crash(p)
       \/ \E x \in Purposes :
            \/ Get(p, x)
            \/ \E r \in Readers : \/ StartFetch(p, x, r)
                                  \/ \E q \in Readers : JoinFetch(p, x, r, q)

ChainsSpec == ChainsInit /\ [][ChainsNext]_chainsVars

\* The cron runs, calls have an end, and cached answers too if they have an expiry:
\* nothing is assumed of the queue.
Fairness ==
  /\ WF_chainsVars(ExpireChain)
  /\ \A r \in Readers : WF_chainsVars(ReadStep(r))
  /\ \A p \in Procs : WF_chainsVars(Tick(p))

FairSpec == ChainsSpec /\ Fairness

-----------------------------------------------------------------------------
(* Properties.                                                              *)

\* Once a replica has handled the announcement of a change to the end, it has no
\* client of an earlier configuration, nor will it get one from a read that was
\* under way, whatever other replicas put into the cache meanwhile (ChainApiManager:
\* "evicts it so the next retrieval builds a fresh instance (e.g. after a chain
\* update)").  The races that the code leaves open are excepted: an old answer that was
\* there at an UNLINK and was written all the same, because its check came before the
\* marker or after the marker's end, and one that a later read joined.
ApisCurrent ==
  \A p \in Procs, x \in Kinds :
    kept[p][x] \in Versions => kept[p][x] >= told[p] \/ <<p, x>> \in doubtful

\* A chain that is listed for good is recognised for good by every replica, also by
\* those that no announcement reached, though failures and unknown chains are
\* remembered and cached, and so its events are not dropped any more (onEvent).  Not
\* so if it is cached as unknown without an expiry, which takes a write that broke
\* off between its two commands.
SupportRecognised ==
  <>[]listed => \A p \in Procs :
    <>[](kept[p]["memo"] # Missing \/ (cached = Missing /\ lasting))
=============================================================================
