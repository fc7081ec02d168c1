---------------------------- MODULE Events_proofs ----------------------------
(***************************************************************************)
(* Proofs about what the gateway does with the events it is told of.       *)
(*                                                                         *)
(* ChainUpdates: for any replicas, readers and kinds of clients, any       *)
(* number of changes, failures and restarts.  DeviceRegistry: for any      *)
(* devices, signers, events and requests, any number of tokens and faults. *)
(***************************************************************************)
EXTENDS ChainUpdates, DeviceRegistry, FiniteSetTheorems, TLAPS

-----------------------------------------------------------------------------
(* A chain's configuration: types.                                          *)

Kept == [Procs -> [Purposes -> {None, Pending, Missing} \union 1 .. config]]
Reads == [at : {"idle", "fetch", "shared", "write"}, proc : Procs,
          promise : Purposes \union {NoPromise}, answer : {None, Missing} \union Versions,
          outdated : BOOLEAN, overtaken : BOOLEAN]

ChainsTypes ==
  /\ config \in Versions /\ listed \in BOOLEAN
  /\ cached \in {None, Missing} \union 1 .. config
  /\ lasting \in BOOLEAN /\ slipped \in BOOLEAN
  /\ queue \in 0 .. MaxChanges
  /\ handling \in [Procs -> {"nothing", "unlink", "stamp", "apis"}]
  /\ seen \in [Procs -> {None} \union 1 .. config]
  /\ told \in [Procs -> {None} \union 1 .. config]
  /\ doubtful \in SUBSET (Procs \X Kinds)
  /\ failures \in 0 .. MaxFailures

\* Reader r is what replica p's promise for x waits for.
Awaits(r, p, x) == reader[r].proc = p /\ reader[r].promise = x

\* A client or memo that is pending has a reader, which will settle it.
Promises == \A p \in Procs, x \in Purposes :
  kept[p][x] = Pending <=> \E r \in Readers : Awaits(r, p, x)

\* A promise waits for one reader: the first that settles it leaves no other for it.
OneReader ==
  \A q, r \in Readers, p \in Procs, x \in Purposes :
    Awaits(q, p, x) /\ Awaits(r, p, x) => q = r

AnswersReal == \A r \in Readers : reader[r].answer \in {None, Missing} \union 1 .. config

\* Who reads nothing is awaited by nobody, and who has passed the check has an answer.
InOrder == \A r \in Readers :
  /\ reader[r].at = "idle" => reader[r].promise = NoPromise
  /\ reader[r].at = "write" => reader[r].answer # None /\ ~reader[r].outdated

Reading ==
  /\ kept \in Kept /\ reader \in [Readers -> Reads]
  /\ Promises /\ OneReader /\ AnswersReal /\ InOrder

\* An announcement is in the queue or with the one replica that took it.
Busy == {p \in Procs : handling[p] # "nothing"}
AnnouncedOnce == IsFiniteSet(Busy) /\ queue + Cardinality(Busy) <= config - 1

ChainsBase == ChainsTypes /\ Reading /\ AnnouncedOnce

LEMMA ChainsBaseTypes == ChainsBase => ChainsTypeOK
BY DEF ChainsBase, ChainsTypes, ChainsTypeOK, Reading, Promises, Awaits, Kept, Reads

LEMMA PurposesAre ==
  /\ NoPromise \notin Purposes /\ Kinds \subseteq Purposes
  /\ "memo" \in Purposes /\ "memo" \notin Kinds
BY UpdatesAssumption DEF Purposes, NoPromise

LEMMA NoReaderIs ==
  /\ NoReader \in Reads /\ NoReader.at = "idle" /\ NoReader.promise = NoPromise
  /\ NoReader.answer = None
<1> DEFINE someone == CHOOSE p \in Procs : TRUE
<1>1. someone \in Procs
  BY UpdatesAssumption
<1> HIDE DEF someone
<1>2. NoReader = [NewReader(someone, NoPromise) EXCEPT !.at = "idle"]
  BY DEF NoReader, someone
<1>3. NewReader(someone, NoPromise) \in Reads
  BY <1>1 DEF NewReader, Reads
<1>4. NoReader \in Reads
  BY <1>2, <1>3 DEF Reads
<1>5. NoReader.at = "idle" /\ NoReader.promise = NoPromise /\ NoReader.answer = None
  BY <1>2 DEF NewReader
<1> QED BY <1>4, <1>5

LEMMA ChainsBaseInit == ChainsInit => ChainsBase
<1> SUFFICES ASSUME ChainsInit PROVE ChainsBase
  OBVIOUS
<1>1. reader = [r \in Readers |-> NoReader]
  BY DEF ChainsInit
<1>2. \A p \in Procs, x \in Purposes : kept[p][x] = None
  BY DEF ChainsInit
<1>3. config = 1 /\ queue = 0 /\ failures = 0 /\ doubtful = {}
  BY DEF ChainsInit
<1>4. /\ config \in Versions /\ queue \in 0 .. MaxChanges
      /\ failures \in 0 .. MaxFailures
  BY <1>3, UpdatesAssumption DEF Versions
<1>5. ChainsTypes
  BY <1>3, <1>4 DEF ChainsInit, ChainsTypes
<1>6. Reading
  <2>1. kept \in Kept /\ reader \in [Readers -> Reads]
    BY <1>1, NoReaderIs DEF ChainsInit, Kept
  <2>2. \A r \in Readers : reader[r].at = "idle" /\ reader[r].promise = NoPromise
                           /\ reader[r].answer = None
    BY <1>1, NoReaderIs
  <2>3. Promises /\ OneReader
    BY <1>2, <2>2, PurposesAre DEF Promises, OneReader, Awaits, None, Pending
  <2>4. AnswersReal /\ InOrder
    BY <2>2 DEF AnswersReal, InOrder
  <2> QED BY <2>1, <2>3, <2>4 DEF Reading
<1>7. AnnouncedOnce
  <2>1. IsFiniteSet({}) /\ Cardinality({}) = 0
    BY FS_EmptySet
  <2>2. Busy = {}
    BY DEF ChainsInit, Busy
  <2>3. queue + Cardinality(Busy) <= config - 1
    BY <1>3, <2>1, <2>2
  <2> QED BY <2>1, <2>2, <2>3 DEF AnnouncedOnce
<1> QED BY <1>5, <1>6, <1>7 DEF ChainsBase

LEMMA ResultType ==
  ASSUME NEW c \in Versions, NEW x \in Purposes,
         NEW answer \in {None, Error, Missing} \union 1 .. c
  PROVE  Result(x, answer) \in {None, Missing} \union 1 .. c
BY UpdatesAssumption DEF Result, Versions, None, Error, Missing

\* Announcements that nobody took, and nobody finished.
LEMMA BusyStays ==
  ASSUME AnnouncedOnce, ChainsTypes,
         \A p \in Procs : handling'[p] # "nothing" <=> handling[p] # "nothing",
         queue' - config' = queue - config, queue' \in Nat, config' \in Nat
  PROVE  AnnouncedOnce'
<1>1. Busy' = Busy
  BY DEF Busy
<1>2. queue \in Nat /\ config \in Nat
  BY UpdatesAssumption DEF ChainsTypes, Versions
<1>3. IsFiniteSet(Busy) /\ queue + Cardinality(Busy) <= config - 1
  BY DEF AnnouncedOnce
<1>4. Cardinality(Busy) \in Nat
  BY <1>3, FS_CardinalityType
<1>5. queue' + Cardinality(Busy) <= config' - 1
  <2>1. \A n, a, b, c, d \in Nat : a + n <= b - 1 /\ c - d = a - b => c + n <= d - 1
    OBVIOUS
  <2> QED BY <1>2, <1>3, <1>4, <2>1
<1>6. IsFiniteSet(Busy') /\ queue' + Cardinality(Busy') <= config' - 1
  BY <1>1, <1>3, <1>5
<1> QED BY <1>6 DEF AnnouncedOnce

\* A replica takes an announcement, or is done with it.
LEMMA BusyTakes ==
  ASSUME AnnouncedOnce, ChainsTypes, NEW p \in Procs, handling[p] = "nothing",
         NEW step, step # "nothing", handling' = [handling EXCEPT ![p] = step],
         queue > 0, queue' = queue - 1, UNCHANGED config
  PROVE  AnnouncedOnce' /\ queue' \in 0 .. MaxChanges
<1>1. queue \in Nat /\ config \in Nat /\ queue <= MaxChanges /\ MaxChanges \in Nat
  BY UpdatesAssumption DEF ChainsTypes, Versions
<1>2. IsFiniteSet(Busy) /\ queue + Cardinality(Busy) <= config - 1
  BY DEF AnnouncedOnce
<1>3. p \notin Busy /\ Busy' = Busy \union {p}
  BY DEF Busy, ChainsTypes
<1>4. IsFiniteSet(Busy') /\ Cardinality(Busy') = Cardinality(Busy) + 1
  BY <1>2, <1>3, FS_AddElement
<1>5. Cardinality(Busy) \in Nat
  BY <1>2, FS_CardinalityType
<1> QED BY <1>1, <1>2, <1>4, <1>5 DEF AnnouncedOnce

LEMMA BusyEnds ==
  ASSUME AnnouncedOnce, ChainsTypes, NEW p \in Procs, handling[p] # "nothing",
         handling' = [handling EXCEPT ![p] = "nothing"],
         queue' \in {queue, queue + 1}, UNCHANGED config
  PROVE  AnnouncedOnce' /\ queue' \in 0 .. MaxChanges
<1>1. /\ queue \in Nat /\ config \in Nat /\ MaxChanges \in Nat
      /\ queue <= MaxChanges /\ config <= MaxChanges + 1
  BY UpdatesAssumption DEF ChainsTypes, Versions
<1>2. IsFiniteSet(Busy) /\ queue + Cardinality(Busy) <= config - 1
  BY DEF AnnouncedOnce
<1>3. p \in Busy /\ Busy' = Busy \ {p}
  BY DEF Busy, ChainsTypes
<1>4. IsFiniteSet(Busy') /\ Cardinality(Busy') = Cardinality(Busy) - 1
  BY <1>2, <1>3, FS_RemoveElement
<1>5. Cardinality(Busy') \in Nat
  BY <1>4, FS_CardinalityType
<1>6. Cardinality(Busy) \in Nat
  BY <1>2, FS_CardinalityType
<1> QED BY <1>1, <1>2, <1>4, <1>5, <1>6 DEF AnnouncedOnce

\* A replica forgets: what that does to a reader, and to a promise or client.
LEMMA ForgetReader ==
  ASSUME Reading, NEW p \in Procs, NEW purposes, Forget(p, purposes), NEW r \in Readers
  PROVE  /\ reader'[r] \in Reads
         /\ reader'[r].at = reader[r].at /\ reader'[r].proc = reader[r].proc
         /\ reader'[r].answer = reader[r].answer
         /\ reader'[r].outdated = reader[r].outdated
         /\ reader'[r].overtaken = reader[r].overtaken
         /\ reader'[r].promise = IF reader[r].proc = p /\ reader[r].promise \in purposes
                                 THEN NoPromise ELSE reader[r].promise
<1>1. PICK old \in Reads : old = reader[r]
  BY DEF Reading
<1>2. reader'[r] = IF old.proc = p /\ old.promise \in purposes
                   THEN [old EXCEPT !.promise = NoPromise] ELSE old
  BY <1>1 DEF Forget
<1>3. CASE old.proc = p /\ old.promise \in purposes
  BY <1>1, <1>2, <1>3 DEF Reads
<1>4. CASE ~(old.proc = p /\ old.promise \in purposes)
  BY <1>1, <1>2, <1>4
<1> QED BY <1>3, <1>4

LEMMA ForgetKept ==
  ASSUME Reading, NEW p \in Procs, NEW purposes, Forget(p, purposes)
  PROVE  \A o \in Procs, x \in Purposes :
           kept'[o][x] = IF o = p /\ x \in purposes THEN None ELSE kept[o][x]
BY DEF Forget, Reading, Kept

LEMMA ForgetReading ==
  ASSUME Reading, NEW p \in Procs, NEW purposes, Forget(p, purposes), UNCHANGED config
  PROVE  Reading'
<1>1. kept' \in Kept'
  BY DEF Forget, Kept, Reading
<1>2. reader' \in [Readers -> Reads]
  BY ForgetReader DEF Forget
<1>3. \A r \in Readers, o \in Procs, x \in Purposes :
        Awaits(r, o, x)' <=> Awaits(r, o, x) /\ ~(o = p /\ x \in purposes)
  BY ForgetReader, PurposesAre DEF Awaits
<1>4. Promises'
  BY <1>3, ForgetKept DEF Reading, Promises, None, Pending
<1>5. OneReader'
  BY <1>3 DEF Reading, OneReader
<1>6. AnswersReal' /\ InOrder'
  BY ForgetReader DEF Reading, AnswersReal, InOrder
<1> QED BY <1>1, <1>2, <1>4, <1>5, <1>6 DEF Reading

LEMMA DoubtfulShrinks ==
  ASSUME ChainsTypes, NEW p \in Procs, NEW purposes, Forget(p, purposes)
  PROVE  doubtful' \in SUBSET (Procs \X Kinds)
BY DEF ChainsTypes, Forget

\* Who awaits whom does not change.
LEMMA SameReading ==
  ASSUME Reading, UNCHANGED <<config, kept>>, reader' \in [Readers -> Reads],
         \A r \in Readers :
           /\ reader'[r].proc = reader[r].proc /\ reader'[r].promise = reader[r].promise
           /\ reader'[r].answer = reader[r].answer
           /\ reader'[r].at = reader[r].at
           /\ reader'[r].at = "write" => reader'[r].outdated = reader[r].outdated
  PROVE  Reading'
<1>1. \A r \in Readers, p \in Procs, x \in Purposes : Awaits(r, p, x)' <=> Awaits(r, p, x)
  BY DEF Awaits
<1>2. Promises' /\ OneReader'
  BY <1>1 DEF Reading, Promises, OneReader
<1>3. AnswersReal' /\ InOrder'
  BY DEF Reading, AnswersReal, InOrder
<1> QED BY <1>2, <1>3 DEF Reading, Kept

\* A read that starts, on its own or by joining another.
LEMMA StartReading ==
  ASSUME Reading, NEW p \in Procs, NEW x \in Purposes, NEW r \in Readers,
         reader' = [reader EXCEPT ![r] = reader'[r]], reader'[r] \in Reads,
         reader'[r].at \in {"fetch", "shared"}, Awaits(r, p, x)',
         reader'[r].answer \in {None, Missing} \union 1 .. config,
         reader[r].at = "idle", UNCHANGED config,
         kept[p][x] = None, kept' = [kept EXCEPT ![p][x] = Pending]
  PROVE  Reading'
<1>1. kept' \in Kept' /\ reader' \in [Readers -> Reads]
  BY DEF Reading, Kept
<1>2. \A q \in Readers \ {r} : reader'[q] = reader[q]
  BY DEF Reading
<1>3. \A o \in Procs, y \in Purposes : Awaits(r, o, y)' <=> o = p /\ y = x
  BY DEF Awaits
<1>4. \A o \in Procs, y \in Purposes, q \in Readers \ {r} :
        Awaits(q, o, y)' <=> Awaits(q, o, y)
  BY <1>2 DEF Awaits
<1>5. \A o \in Procs, y \in Purposes : ~Awaits(r, o, y)
  BY PurposesAre DEF Awaits, Reading, InOrder
<1>6. \A q \in Readers : ~Awaits(q, p, x)
  BY DEF Reading, Promises, None, Pending
<1>7. \A o \in Procs, y \in Purposes :
        kept'[o][y] = IF o = p /\ y = x THEN Pending ELSE kept[o][y]
  BY DEF Reading, Kept
<1>8. Promises' /\ OneReader'
  BY <1>3, <1>4, <1>5, <1>6, <1>7 DEF Reading, Promises, OneReader
<1>9. AnswersReal' /\ InOrder'
  BY <1>2 DEF Reading, AnswersReal, InOrder
<1> QED BY <1>1, <1>8, <1>9 DEF Reading

\* A read that ends.
LEMMA SettleReading ==
  ASSUME Reading, config \in Versions, NEW r \in Readers,
         NEW answer \in {None, Error, Missing} \union 1 .. config,
         Settle(r, answer), UNCHANGED config
  PROVE  Reading'
<1> DEFINE p == reader[r].proc  x == reader[r].promise
<1>1. /\ kept' = IF x = NoPromise THEN kept ELSE [kept EXCEPT ![p][x] = Result(x, answer)]
      /\ reader' = [reader EXCEPT ![r] = NoReader]
  BY DEF Settle
<1>2. p \in Procs /\ x \in Purposes \union {NoPromise}
  BY DEF Reading, Reads
<1>3. \A o \in Procs, y \in Purposes : Awaits(r, o, y) <=> o = p /\ y = x
  BY DEF Awaits
<1> HIDE DEF p, x
<1>4. /\ reader' \in [Readers -> Reads] /\ reader'[r] = NoReader
      /\ \A q \in Readers \ {r} : reader'[q] = reader[q]
  BY <1>1, NoReaderIs DEF Reading
<1>5. /\ \A q \in Readers \ {r}, o \in Procs, y \in Purposes :
           Awaits(q, o, y)' <=> Awaits(q, o, y)
      /\ \A o \in Procs, y \in Purposes : ~Awaits(r, o, y)'
  BY <1>4, NoReaderIs, PurposesAre DEF Awaits
<1>6. x \in Purposes => /\ Result(x, answer) \in {None, Missing} \union 1 .. config
                        /\ Result(x, answer) # Pending
  <2>1. x \in Purposes => Result(x, answer) \in {None, Missing} \union 1 .. config
    BY ResultType
  <2> QED BY <2>1, UpdatesAssumption DEF None, Missing, Pending, Versions
<1>7. kept' \in Kept'
  BY <1>1, <1>2, <1>6 DEF Reading, Kept
<1>8. \A o \in Procs, y \in Purposes :
        kept'[o][y] = IF o = p /\ y = x THEN Result(x, answer) ELSE kept[o][y]
  BY <1>1, <1>2, PurposesAre DEF Reading, Kept
<1>9. Promises'
  <2> SUFFICES ASSUME NEW o \in Procs, NEW y \in Purposes
               PROVE  kept'[o][y] = Pending <=> \E q \in Readers : Awaits(q, o, y)'
    BY DEF Promises
  <2>1. CASE o = p /\ y = x
    <3>1. \A q \in Readers \ {r} : ~Awaits(q, o, y)
      BY <2>1, <1>3 DEF Reading, OneReader
    <3>2. kept'[o][y] # Pending
      BY <2>1, <1>6, <1>8
    <3> QED BY <3>1, <3>2, <1>5
  <2>2. CASE ~(o = p /\ y = x)
    <3>1. kept'[o][y] = kept[o][y] /\ ~Awaits(r, o, y)
      BY <2>2, <1>3, <1>8
    <3> QED BY <3>1, <1>5 DEF Reading, Promises
  <2> QED BY <2>1, <2>2
<1>10. OneReader'
  BY <1>5 DEF Reading, OneReader
<1>11. AnswersReal' /\ InOrder'
  BY <1>4, NoReaderIs DEF Reading, AnswersReal, InOrder
<1> QED BY <1>4, <1>7, <1>9, <1>10, <1>11 DEF Reading

LEMMA ChangeBase == ChainsBase /\ Change => ChainsBase'
<1> SUFFICES ASSUME ChainsBase, Change PROVE ChainsBase'
  OBVIOUS
<1>1. ChainsTypes /\ Reading /\ AnnouncedOnce
  BY DEF ChainsBase
<1>2. /\ config \in Nat /\ config' \in Nat /\ config' = config + 1 /\ config' \in Versions
      /\ 1 .. config \subseteq 1 .. config'
  BY <1>1, UpdatesAssumption DEF Change, ChainsTypes, Versions
<1>3. UNCHANGED <<cached, lasting, slipped, handling, seen, kept, told, doubtful, reader,
                  failures>>
  BY DEF Change, cache, memory
<1>4. AnnouncedOnce' /\ queue' \in 0 .. MaxChanges
  <2>1. queue \in Nat /\ queue' = queue + 1
    BY <1>1, UpdatesAssumption DEF Change, ChainsTypes
  <2>2. AnnouncedOnce'
    BY <1>1, <1>2, <1>3, <2>1, BusyStays
  <2>3. IsFiniteSet(Busy') /\ queue' + Cardinality(Busy') <= config' - 1
    BY <2>2 DEF AnnouncedOnce
  <2>4. Cardinality(Busy') \in Nat
    BY <2>3, FS_CardinalityType
  <2> QED BY <1>2, <2>1, <2>2, <2>3, <2>4, UpdatesAssumption DEF Versions
<1>5. Reading'
  BY <1>1, <1>2, <1>3 DEF Reading, Kept, AnswersReal, OneReader, Promises, Awaits, InOrder
<1>6. /\ cached' \in {None, Missing} \union 1 .. config'
      /\ seen' \in [Procs -> {None} \union 1 .. config']
      /\ told' \in [Procs -> {None} \union 1 .. config']
  BY <1>1, <1>2, <1>3 DEF ChainsTypes
<1>7. listed' \in BOOLEAN
  BY DEF Change
<1>8. ChainsTypes'
  BY <1>1, <1>2, <1>3, <1>4, <1>6, <1>7 DEF ChainsTypes
<1> QED BY <1>4, <1>5, <1>8 DEF ChainsBase

LEMMA ExpireChainBase == ChainsBase /\ ExpireChain => ChainsBase'
<1> SUFFICES ASSUME ChainsBase, ExpireChain PROVE ChainsBase'
  OBVIOUS
<1>1. /\ UNCHANGED <<config, listed, queue, handling, seen, kept, told, doubtful, reader,
                     failures>>
      /\ cached' = None /\ lasting' = FALSE /\ slipped' = FALSE
  BY DEF ExpireChain, Uncache, upstreamConfig, memory
<1>2. ChainsTypes' /\ AnnouncedOnce'
  BY <1>1 DEF ChainsBase, ChainsTypes, AnnouncedOnce, Busy
<1>3. Reading'
  BY <1>1 DEF ChainsBase, Reading, Kept, Promises, OneReader, Awaits, AnswersReal, InOrder
<1> QED BY <1>2, <1>3 DEF ChainsBase

\* No marker any more: what a reader is then.
LEMMA UnmarkedReader ==
  ASSUME Reading, reader' = Unmarked, NEW r \in Readers
  PROVE  /\ reader'[r] \in Reads
         /\ reader'[r].at = reader[r].at /\ reader'[r].proc = reader[r].proc
         /\ reader'[r].promise = reader[r].promise
         /\ reader'[r].answer = reader[r].answer
         /\ reader'[r].outdated = FALSE
         /\ reader'[r].overtaken = IF reader[r].outdated THEN Old(reader[r].answer)
                                   ELSE reader[r].overtaken
<1>1. PICK old \in Reads : old = reader[r]
  BY DEF Reading
<1>2. Old(old.answer) \in BOOLEAN
  BY DEF Old
<1>3. reader'[r] = IF ~old.outdated THEN old
                   ELSE [old EXCEPT !.outdated = FALSE, !.overtaken = Old(old.answer)]
  BY <1>1 DEF Unmarked
<1>4. CASE old.outdated
  <2> DEFINE b == Old(old.answer)
  <2>1. b \in BOOLEAN /\ reader'[r] = [old EXCEPT !.outdated = FALSE, !.overtaken = b]
    BY <1>2, <1>3, <1>4
  <2>2. old.outdated = TRUE
    BY <1>4 DEF Reads
  <2>3. b = Old(reader[r].answer) /\ reader[r].outdated = TRUE
    BY <1>1, <2>2
  <2> HIDE DEF b
  <2>4. /\ reader'[r] \in Reads
        /\ reader'[r].at = old.at /\ reader'[r].proc = old.proc
        /\ reader'[r].promise = old.promise /\ reader'[r].answer = old.answer
        /\ reader'[r].outdated = FALSE /\ reader'[r].overtaken = b
    BY <2>1 DEF Reads
  <2> QED BY <1>1, <2>3, <2>4
<1>5. CASE ~old.outdated
  <2>1. old.outdated = FALSE
    BY <1>5 DEF Reads
  <2> QED BY <1>1, <1>3, <1>5, <2>1
<1> QED BY <1>4, <1>5

LEMMA UnmarkedReading ==
  ASSUME Reading, reader' = Unmarked, UNCHANGED <<config, kept>>
  PROVE  Reading'
<1>1. reader' \in [Readers -> Reads]
  BY UnmarkedReader DEF Unmarked
<1>2. \A r \in Readers : reader[r].at = "write" => reader[r].outdated = FALSE
  BY DEF Reading, InOrder, Reads
<1> QED BY <1>1, <1>2, UnmarkedReader, SameReading

LEMMA ExpireMarkerBase == ChainsBase /\ ExpireMarker => ChainsBase'
<1> SUFFICES ASSUME ChainsBase, ExpireMarker PROVE ChainsBase'
  OBVIOUS
<1>1. /\ UNCHANGED <<config, listed, cached, lasting, slipped, queue, handling, seen, kept,
                     told, doubtful, failures>>
      /\ reader' = Unmarked
  BY DEF ExpireMarker, upstreamConfig, cache, memory
<1>2. ChainsTypes' /\ AnnouncedOnce'
  BY <1>1 DEF ChainsBase, ChainsTypes, AnnouncedOnce, Busy
<1> QED BY <1>1, <1>2, UnmarkedReading DEF ChainsBase

LEMMA TickBase ==
  ASSUME ChainsBase, NEW p \in Procs, Tick(p)
  PROVE  ChainsBase'
<1>1. /\ UNCHANGED <<config, listed, cached, lasting, slipped, queue, handling, seen, told,
                     failures>>
      /\ Forget(p, {"memo"})
  BY DEF Tick, upstreamConfig, cache
<1>2. Reading' /\ doubtful' \in SUBSET (Procs \X Kinds)
  BY <1>1, ForgetReading, DoubtfulShrinks DEF ChainsBase
<1>3. ChainsTypes' /\ AnnouncedOnce'
  BY <1>1, <1>2 DEF ChainsBase, ChainsTypes, AnnouncedOnce, Busy
<1> QED BY <1>2, <1>3 DEF ChainsBase

LEMMA TakeUpdateBase ==
  ASSUME ChainsBase, NEW p \in Procs, TakeUpdate(p)
  PROVE  ChainsBase'
<1>1. /\ UNCHANGED <<config, listed, cached, lasting, slipped, seen, told, failures>>
      /\ handling' = [handling EXCEPT ![p] = "unlink"]
      /\ Forget(p, {"memo"})
  BY DEF TakeUpdate, upstreamConfig, cache
<1>2. Reading' /\ doubtful' \in SUBSET (Procs \X Kinds)
  BY <1>1, ForgetReading, DoubtfulShrinks DEF ChainsBase
<1>3. AnnouncedOnce' /\ queue' \in 0 .. MaxChanges
  <2>1. queue > 0 /\ queue' = queue - 1 /\ handling[p] = "nothing"
    BY DEF TakeUpdate
  <2> QED BY <1>1, <2>1, BusyTakes DEF ChainsBase
<1>4. ChainsTypes'
  BY <1>1, <1>2, <1>3 DEF ChainsBase, ChainsTypes
<1> QED BY <1>2, <1>3, <1>4 DEF ChainsBase

\* UNLINK, and the marker: what a reader is then.
LEMMA UnlinkedReader ==
  ASSUME Reading, NEW p \in Procs, UnlinkChain(p), NEW r \in Readers
  PROVE  /\ reader'[r] \in Reads
         /\ reader'[r].at = reader[r].at /\ reader'[r].proc = reader[r].proc
         /\ reader'[r].promise = reader[r].promise
         /\ reader'[r].answer = reader[r].answer
         /\ reader'[r].outdated = reader[r].outdated
         /\ reader'[r].overtaken <=> reader[r].overtaken \/ Old(reader[r].answer)
<1>1. PICK old \in Reads : old = reader[r]
  BY DEF Reading
<1> DEFINE b == old.overtaken \/ Old(old.answer)
<1>2. b \in BOOLEAN /\ (b <=> reader[r].overtaken \/ Old(reader[r].answer))
  BY <1>1
<1>3. reader'[r] = [old EXCEPT !.overtaken = b]
  BY <1>1 DEF UnlinkChain
<1> HIDE DEF b
<1>4. /\ reader'[r] \in Reads
      /\ reader'[r].at = old.at /\ reader'[r].proc = old.proc
      /\ reader'[r].promise = old.promise /\ reader'[r].answer = old.answer
      /\ reader'[r].outdated = old.outdated /\ reader'[r].overtaken = b
  BY <1>2, <1>3 DEF Reads
<1> QED BY <1>1, <1>2, <1>4

LEMMA StampedReader ==
  ASSUME Reading, NEW p \in Procs, StampChain(p), NEW r \in Readers
  PROVE  /\ reader'[r] \in Reads
         /\ reader'[r].at = reader[r].at /\ reader'[r].proc = reader[r].proc
         /\ reader'[r].promise = reader[r].promise
         /\ reader'[r].answer = reader[r].answer
         /\ Out(r) => reader'[r].outdated
         /\ ~Out(r) => reader'[r] = reader[r]
<1>1. PICK old \in Reads : old = reader[r]
  BY DEF Reading
<1>2. CASE Out(r)
  <2>1. reader'[r] = [old EXCEPT !.outdated = TRUE, !.overtaken = FALSE]
    BY <1>1, <1>2 DEF StampChain
  <2>2. /\ reader'[r] \in Reads
        /\ reader'[r].at = old.at /\ reader'[r].proc = old.proc
        /\ reader'[r].promise = old.promise /\ reader'[r].answer = old.answer
        /\ reader'[r].outdated = TRUE
    BY <2>1 DEF Reads
  <2> QED BY <1>1, <1>2, <2>2
<1>3. CASE ~Out(r)
  BY <1>1, <1>3 DEF StampChain
<1> QED BY <1>2, <1>3

LEMMA UnlinkChainBase ==
  ASSUME ChainsBase, NEW p \in Procs, UnlinkChain(p)
  PROVE  ChainsBase'
<1>1. /\ UNCHANGED <<config, listed, queue, kept, told, doubtful, failures>>
      /\ handling[p] = "unlink" /\ handling' = [handling EXCEPT ![p] = "stamp"]
      /\ cached' = None /\ lasting' = FALSE /\ slipped' = FALSE
      /\ seen' = [seen EXCEPT ![p] = config]
  BY DEF UnlinkChain, Uncache, upstreamConfig, memory
<1>2. reader' \in [Readers -> Reads]
  BY UnlinkedReader DEF UnlinkChain, ChainsBase
<1>3. Reading'
  BY <1>1, <1>2, UnlinkedReader, SameReading DEF ChainsBase
<1>4. AnnouncedOnce'
  BY <1>1 DEF ChainsBase, ChainsTypes, AnnouncedOnce, Busy
<1>5. config \in 1 .. config
  BY UpdatesAssumption DEF ChainsBase, ChainsTypes, Versions
<1>6. ChainsTypes'
  BY <1>1, <1>5 DEF ChainsBase, ChainsTypes
<1> QED BY <1>3, <1>4, <1>6 DEF ChainsBase

LEMMA StampChainBase ==
  ASSUME ChainsBase, NEW p \in Procs, StampChain(p)
  PROVE  ChainsBase'
<1>1. /\ UNCHANGED <<config, listed, cached, lasting, slipped, queue, seen, kept, told,
                     doubtful, failures>>
      /\ handling[p] = "stamp" /\ handling' = [handling EXCEPT ![p] = "apis"]
  BY DEF StampChain, upstreamConfig, cache, memory
<1>2. reader' \in [Readers -> Reads]
  BY StampedReader DEF StampChain, ChainsBase
<1>3. \A r \in Readers : reader[r].at = "write" => ~Out(r)
  BY DEF Out
<1>4. Reading'
  BY <1>1, <1>2, <1>3, StampedReader, SameReading DEF ChainsBase
<1>5. AnnouncedOnce'
  BY <1>1 DEF ChainsBase, ChainsTypes, AnnouncedOnce, Busy
<1>6. ChainsTypes'
  BY <1>1 DEF ChainsBase, ChainsTypes
<1> QED BY <1>4, <1>5, <1>6 DEF ChainsBase

LEMMA ClearChainFailsBase ==
  ASSUME ChainsBase, NEW p \in Procs, ClearChainFails(p)
  PROVE  ChainsBase'
<1>1. /\ UNCHANGED <<config, listed, cached, lasting, slipped, queue, kept, told, doubtful>>
      /\ handling[p] # "nothing" /\ handling' = [handling EXCEPT ![p] = "nothing"]
      /\ seen' = [seen EXCEPT ![p] = None]
      /\ failures < MaxFailures /\ failures' = failures + 1
      /\ UNCHANGED reader \/ reader' = Unmarked
  BY DEF ClearChainFails, Failing, upstreamConfig, cache, memory
<1>2. AnnouncedOnce' /\ queue' \in 0 .. MaxChanges
  BY <1>1, BusyEnds DEF ChainsBase
<1>3. failures' \in 0 .. MaxFailures
  BY <1>1, UpdatesAssumption DEF ChainsBase, ChainsTypes
<1>4. ChainsTypes'
  BY <1>1, <1>2, <1>3 DEF ChainsBase, ChainsTypes
<1>5. Reading'
  <2>1. CASE UNCHANGED reader
    BY <1>1, <2>1
       DEF ChainsBase, Reading, Kept, Promises, OneReader, Awaits, AnswersReal, InOrder
  <2>2. CASE reader' = Unmarked
    BY <1>1, <2>2, UnmarkedReading DEF ChainsBase
  <2> QED BY <1>1, <2>1, <2>2
<1> QED BY <1>2, <1>4, <1>5 DEF ChainsBase

LEMMA ClearApisBase ==
  ASSUME ChainsBase, NEW p \in Procs, ClearApis(p)
  PROVE  ChainsBase'
<1>1. /\ UNCHANGED <<config, listed, cached, lasting, slipped, queue, failures>>
      /\ handling[p] # "nothing" /\ handling' = [handling EXCEPT ![p] = "nothing"]
      /\ told' = [told EXCEPT ![p] = seen[p]] /\ seen' = [seen EXCEPT ![p] = None]
      /\ Forget(p, Kinds \intersect ClearedKinds)
  BY DEF ClearApis, upstreamConfig, cache
<1>2. Reading' /\ doubtful' \in SUBSET (Procs \X Kinds)
  BY <1>1, ForgetReading, DoubtfulShrinks DEF ChainsBase
<1>3. AnnouncedOnce' /\ queue' \in 0 .. MaxChanges
  BY <1>1, BusyEnds DEF ChainsBase
<1>4. ChainsTypes'
  BY <1>1, <1>2, <1>3 DEF ChainsBase, ChainsTypes
<1> QED BY <1>2, <1>3, <1>4 DEF ChainsBase

LEMMA DoubtTypes ==
  ASSUME ChainsTypes, NEW p \in Procs, NEW x, NEW b \in BOOLEAN, Doubt(p, x, b)
  PROVE  doubtful' \in SUBSET (Procs \X Kinds)
BY DEF ChainsTypes, Doubt

LEMMA GetBase ==
  ASSUME ChainsBase, NEW p \in Procs, NEW x \in Purposes, Get(p, x)
  PROVE  ChainsBase'
<1>1. /\ UNCHANGED <<config, listed, cached, lasting, slipped, queue, handling, seen, told,
                     reader, failures>>
      /\ kept[p][x] = None /\ kept' = [kept EXCEPT ![p][x] = Result(x, cached)]
      /\ Doubt(p, x, slipped)
  BY DEF Get, upstreamConfig, cache
<1>2. Result(x, cached) \in {None, Missing} \union 1 .. config
  BY ResultType DEF ChainsBase, ChainsTypes
<1>3. Result(x, cached) # Pending /\ None # Pending
  BY <1>2, UpdatesAssumption DEF None, Missing, Pending, ChainsBase, ChainsTypes, Versions
<1>4. kept' \in Kept'
  BY <1>1, <1>2 DEF ChainsBase, Reading, Kept
<1>5. \A o \in Procs, y \in Purposes : kept'[o][y] = Pending <=> kept[o][y] = Pending
  BY <1>1, <1>3 DEF ChainsBase, Reading, Kept
<1>6. Reading'
  BY <1>1, <1>4, <1>5
     DEF ChainsBase, Reading, Promises, OneReader, Awaits, AnswersReal, InOrder
<1>7. doubtful' \in SUBSET (Procs \X Kinds)
  BY <1>1, DoubtTypes DEF ChainsBase, ChainsTypes
<1>8. ChainsTypes' /\ AnnouncedOnce'
  BY <1>1, <1>7 DEF ChainsBase, ChainsTypes, AnnouncedOnce, Busy
<1> QED BY <1>6, <1>8 DEF ChainsBase

LEMMA NewReaderIs ==
  ASSUME NEW p \in Procs, NEW x \in Purposes
  PROVE  /\ NewReader(p, x) \in Reads
         /\ NewReader(p, x).at = "fetch" /\ NewReader(p, x).proc = p
         /\ NewReader(p, x).promise = x /\ NewReader(p, x).answer = None
         /\ NewReader(p, x).outdated = FALSE /\ NewReader(p, x).overtaken = FALSE
BY DEF NewReader, Reads

LEMMA StartFetchBase ==
  ASSUME ChainsBase, NEW p \in Procs, NEW x \in Purposes, NEW r \in Readers,
         StartFetch(p, x, r)
  PROVE  ChainsBase'
<1>1. /\ UNCHANGED <<config, listed, cached, lasting, slipped, queue, handling, seen, told,
                     failures>>
      /\ kept[p][x] = None /\ kept' = [kept EXCEPT ![p][x] = Pending]
      /\ reader[r].at = "idle" /\ reader' = [reader EXCEPT ![r] = NewReader(p, x)]
      /\ Doubt(p, x, FALSE)
  BY DEF StartFetch, upstreamConfig, cache
<1>2. Reading'
  <2>1. reader'[r] = NewReader(p, x)
    BY <1>1 DEF ChainsBase, Reading
  <2>2. /\ reader'[r] \in Reads /\ reader'[r].at = "fetch" /\ Awaits(r, p, x)'
        /\ reader'[r].answer = None
    <3>1. NewReader(p, x).at = "fetch" /\ NewReader(p, x).answer = None
      BY NewReaderIs
    <3>2. /\ NewReader(p, x) \in Reads /\ NewReader(p, x).proc = p
          /\ NewReader(p, x).promise = x
      BY NewReaderIs
    <3> QED BY <2>1, <3>1, <3>2 DEF Awaits
  <2> QED BY <1>1, <2>1, <2>2, StartReading DEF ChainsBase
<1>3. doubtful' \in SUBSET (Procs \X Kinds)
  BY <1>1, DoubtTypes DEF ChainsBase
<1>4. ChainsTypes' /\ AnnouncedOnce'
  BY <1>1, <1>3 DEF ChainsBase, ChainsTypes, AnnouncedOnce, Busy
<1> QED BY <1>2, <1>4 DEF ChainsBase

\* What a read starts with that joins that of q: an answer, maybe an overtaken one.
Joins(p, x, q, old) ==
  [NewReader(p, x) EXCEPT !.at = "shared", !.answer = reader[q].answer, !.overtaken = old]
JoinsOld(q) == Old(reader[q].answer) /\ (reader[q].outdated \/ reader[q].overtaken)

LEMMA JoinedReader ==
  ASSUME Reading, NEW p \in Procs, NEW x \in Purposes, NEW q \in Readers,
         NEW old \in BOOLEAN
  PROVE  /\ Joins(p, x, q, old) \in Reads /\ Joins(p, x, q, old).at = "shared"
         /\ Joins(p, x, q, old).proc = p /\ Joins(p, x, q, old).promise = x
         /\ Joins(p, x, q, old).answer = reader[q].answer
         /\ Joins(p, x, q, old).overtaken = old
<1>1. reader[q].answer \in {None, Missing} \union Versions
  BY DEF Reading, Reads
<1>2. PICK new \in Reads : new = NewReader(p, x) /\ new.proc = p /\ new.promise = x
  BY NewReaderIs
<1> QED BY <1>1, <1>2 DEF Joins, Reads

LEMMA JoinFetchBase ==
  ASSUME ChainsBase, NEW p \in Procs, NEW x \in Purposes, NEW r \in Readers,
         NEW q \in Readers, JoinFetch(p, x, r, q)
  PROVE  ChainsBase'
<1>1. /\ UNCHANGED <<config, listed, cached, lasting, slipped, queue, handling, seen, told,
                     failures>>
      /\ kept[p][x] = None /\ kept' = [kept EXCEPT ![p][x] = Pending]
      /\ reader[r].at = "idle"
      /\ reader' = [reader EXCEPT ![r] = Joins(p, x, q, JoinsOld(q))]
      /\ Doubt(p, x, JoinsOld(q))
  BY DEF JoinFetch, Joins, JoinsOld, upstreamConfig, cache
<1>2. JoinsOld(q) \in BOOLEAN
  BY DEF JoinsOld
<1>3. reader[q].answer \in {None, Missing} \union 1 .. config
  BY DEF ChainsBase, Reading, AnswersReal
<1>4. Reading'
  <2>1. Reading
    BY DEF ChainsBase
  <2>2. reader'[r] = Joins(p, x, q, JoinsOld(q))
    BY <1>1, <2>1 DEF Reading
  <2>3. /\ reader'[r] \in Reads /\ reader'[r].at = "shared" /\ Awaits(r, p, x)'
        /\ reader'[r].answer \in {None, Missing} \union 1 .. config
    BY <1>2, <1>3, <2>1, <2>2, JoinedReader DEF Awaits
  <2> QED BY <1>1, <2>1, <2>2, <2>3, StartReading
<1>5. doubtful' \in SUBSET (Procs \X Kinds)
  BY <1>1, <1>2, DoubtTypes DEF ChainsBase
<1>6. ChainsTypes' /\ AnnouncedOnce'
  BY <1>1, <1>5 DEF ChainsBase, ChainsTypes, AnnouncedOnce, Busy
<1> QED BY <1>4, <1>6 DEF ChainsBase

\* Upstream answers: the answer is one that exists.
LEMMA FetchedReader ==
  ASSUME ChainsBase, NEW r \in Readers, Fetch(r)
  PROVE  /\ Answer \in {Missing, config} /\ Answer \in {Missing} \union 1 .. config
         /\ reader'[r] \in Reads
         /\ reader'[r].at = "fetch" /\ reader[r].at = "fetch"
         /\ reader'[r].proc = reader[r].proc /\ reader'[r].promise = reader[r].promise
         /\ reader'[r].answer = Answer
         /\ \A q \in Readers \ {r} : reader'[q] = reader[q]
<1>1. config \in 1 .. config /\ config \in Versions
  BY UpdatesAssumption DEF ChainsBase, ChainsTypes, Versions
<1>2. Answer \in {Missing, config}
  BY DEF Answer
<1>3. PICK old \in Reads : old = reader[r]
  BY DEF ChainsBase, Reading
<1>4. /\ reader'[r] = [old EXCEPT !.answer = Answer] /\ old.at = "fetch"
      /\ \A q \in Readers \ {r} : reader'[q] = reader[q]
  BY <1>3 DEF Fetch, ChainsBase, Reading
<1>5. Answer \in {Missing} \union Versions
  BY <1>1, <1>2
<1>6. reader'[r] \in Reads
  BY <1>4, <1>5 DEF Reads
<1>7. /\ reader'[r].at = old.at /\ reader'[r].proc = old.proc
      /\ reader'[r].promise = old.promise /\ reader'[r].answer = Answer
  BY <1>4 DEF Reads
<1> QED BY <1>1, <1>2, <1>3, <1>4, <1>6, <1>7

LEMMA FetchBase ==
  ASSUME ChainsBase, NEW r \in Readers, Fetch(r)
  PROVE  ChainsBase'
<1>1. UNCHANGED <<config, listed, cached, lasting, slipped, queue, handling, seen, kept,
                  told, doubtful, failures>>
  BY DEF Fetch, upstreamConfig, cache, memory
<1>2. reader' \in [Readers -> Reads]
  BY FetchedReader DEF Fetch, ChainsBase, Reading
<1>3. \A q \in Readers, o \in Procs, x \in Purposes : Awaits(q, o, x)' <=> Awaits(q, o, x)
  BY FetchedReader DEF Awaits
<1>4. Promises' /\ OneReader'
  BY <1>1, <1>3 DEF ChainsBase, Reading, Promises, OneReader
<1>5. AnswersReal' /\ InOrder'
  BY <1>1, FetchedReader DEF ChainsBase, Reading, AnswersReal, InOrder
<1>6. Reading'
  BY <1>1, <1>2, <1>4, <1>5 DEF ChainsBase, Reading, Kept
<1>7. ChainsTypes' /\ AnnouncedOnce'
  BY <1>1 DEF ChainsBase, ChainsTypes, AnnouncedOnce, Busy
<1> QED BY <1>6, <1>7 DEF ChainsBase

\* The check lets a reader pass, or ends the read.
LEMMA PassedReader ==
  ASSUME Reading, NEW r \in Readers,
         reader' = [reader EXCEPT ![r].at = "write", ![r].outdated = FALSE]
  PROVE  /\ reader'[r] \in Reads /\ reader'[r].at = "write"
         /\ reader'[r].proc = reader[r].proc /\ reader'[r].promise = reader[r].promise
         /\ reader'[r].answer = reader[r].answer
         /\ reader'[r].outdated = FALSE /\ reader'[r].overtaken = reader[r].overtaken
         /\ \A q \in Readers \ {r} : reader'[q] = reader[q]
<1>1. PICK old \in Reads : old = reader[r]
  BY DEF Reading
<1>2. /\ reader'[r] = [old EXCEPT !.at = "write", !.outdated = FALSE]
      /\ \A q \in Readers \ {r} : reader'[q] = reader[q]
  BY <1>1 DEF Reading
<1> DEFINE new == [old EXCEPT !.at = "write", !.outdated = FALSE]
<1>3. new \in Reads
  BY DEF Reads
<1>4. /\ new.at = "write" /\ new.outdated = FALSE
      /\ new.proc = old.proc /\ new.promise = old.promise
      /\ new.answer = old.answer /\ new.overtaken = old.overtaken
  BY DEF Reads
<1>5. reader'[r] = new
  BY <1>2
<1> HIDE DEF new
<1> QED BY <1>1, <1>2, <1>3, <1>4, <1>5

LEMMA CheckBase ==
  ASSUME ChainsBase, NEW r \in Readers, Check(r)
  PROVE  ChainsBase'
<1>1. /\ UNCHANGED <<config, listed, cached, lasting, slipped, queue, handling, seen,
                     failures>>
      /\ reader[r].answer # None
  BY DEF Check, upstreamConfig, cache
<1>2. ASSUME UNCHANGED memory,
             reader' = [reader EXCEPT ![r].at = "write", ![r].outdated = FALSE]
      PROVE  Reading' /\ UNCHANGED <<told, doubtful>>
  <2>1. UNCHANGED <<kept, told, doubtful>>
    BY <1>2 DEF memory
  <2>2. reader' \in [Readers -> Reads]
    BY <1>2, PassedReader DEF ChainsBase, Reading
  <2>3. \A q \in Readers, o \in Procs, x \in Purposes : Awaits(q, o, x)' <=> Awaits(q, o, x)
    BY <1>2, PassedReader DEF Awaits, ChainsBase
  <2>4. Promises' /\ OneReader'
    BY <2>1, <2>3 DEF ChainsBase, Reading, Promises, OneReader
  <2>5. AnswersReal' /\ InOrder'
    BY <1>1, <1>2, PassedReader DEF ChainsBase, Reading, AnswersReal, InOrder
  <2> QED BY <1>1, <2>1, <2>2, <2>4, <2>5 DEF ChainsBase, Reading, Kept
<1>3. ASSUME Settle(r, reader[r].answer) PROVE Reading' /\ UNCHANGED <<told, doubtful>>
  <2>1. reader[r].answer \in {None, Error, Missing} \union 1 .. config
    BY DEF ChainsBase, Reading, AnswersReal
  <2>2. config \in Versions
    BY DEF ChainsBase, ChainsTypes
  <2> QED BY <1>1, <1>3, <2>1, <2>2, SettleReading DEF ChainsBase, Settle
<1>4. Reading' /\ UNCHANGED <<told, doubtful>>
  BY <1>2, <1>3 DEF Check
<1>5. ChainsTypes' /\ AnnouncedOnce'
  BY <1>1, <1>4 DEF ChainsBase, ChainsTypes, AnnouncedOnce, Busy
<1> QED BY <1>4, <1>5 DEF ChainsBase

\* What is written is an answer.
LEMMA WrittenTypes ==
  ASSUME ChainsBase, NEW r \in Readers, reader[r].at = "write"
  PROVE  reader[r].answer \in {Missing} \union 1 .. config /\ reader[r].overtaken \in BOOLEAN
BY DEF ChainsBase, Reading, AnswersReal, InOrder, Reads

LEMMA EndReadBase ==
  ASSUME ChainsBase, NEW r \in Readers,
         \/ Write(r) \/ FetchFails(r) \/ WriteFails(r)
  PROVE  ChainsBase'
<1>1. /\ UNCHANGED <<config, listed, queue, handling, seen>>
      /\ \/ Settle(r, Error) \/ Settle(r, reader[r].answer)
  BY DEF Write, FetchFails, WriteFails, upstreamConfig
<1>2. config \in Versions /\ reader[r].answer \in {None, Error, Missing} \union 1 .. config
  BY DEF ChainsBase, ChainsTypes, Reading, AnswersReal
<1>3. Reading' /\ UNCHANGED <<told, doubtful>>
  BY <1>1, <1>2, SettleReading DEF ChainsBase, Settle
<1>4. failures' \in 0 .. MaxFailures
  BY UpdatesAssumption DEF Write, FetchFails, WriteFails, Failing, ChainsBase, ChainsTypes
<1>5. /\ cached' \in {None, Missing} \union 1 .. config
      /\ lasting' \in BOOLEAN /\ slipped' \in BOOLEAN
  <2>1. CASE Write(r)
    BY <2>1, WrittenTypes DEF Write
  <2>2. CASE FetchFails(r)
    BY <2>2 DEF FetchFails, cache, ChainsBase, ChainsTypes
  <2>3. CASE WriteFails(r)
    BY <2>3, WrittenTypes DEF WriteFails, Uncache, HalfWrite
  <2> QED BY <2>1, <2>2, <2>3
<1>6. ChainsTypes' /\ AnnouncedOnce'
  BY <1>1, <1>3, <1>4, <1>5 DEF ChainsBase, ChainsTypes, AnnouncedOnce, Busy
<1> QED BY <1>3, <1>6 DEF ChainsBase

LEMMA CrashBase ==
  ASSUME ChainsBase, NEW p \in Procs, Crash(p)
  PROVE  ChainsBase'
<1>1. /\ UNCHANGED <<config, listed>>
      /\ failures' = failures + 1 /\ failures < MaxFailures
      /\ handling' = [handling EXCEPT ![p] = "nothing"]
      /\ seen' = [seen EXCEPT ![p] = None] /\ told' = [told EXCEPT ![p] = None]
      /\ kept' = [kept EXCEPT ![p] = [x \in Purposes |-> None]]
      /\ doubtful' = doubtful \ ({p} \X Kinds)
      /\ reader' = [r \in Readers |-> IF reader[r].proc = p THEN NoReader ELSE reader[r]]
  BY DEF Crash, Failing, upstreamConfig
<1>2. AnnouncedOnce' /\ queue' \in 0 .. MaxChanges
  <2>1. CASE handling[p] = "nothing"
    <3>1. UNCHANGED <<queue, handling>>
      BY <1>1, <2>1 DEF Crash, ChainsBase, ChainsTypes
    <3> QED BY <1>1, <3>1 DEF ChainsBase, ChainsTypes, AnnouncedOnce, Busy
  <2>2. CASE handling[p] # "nothing"
    BY <1>1, <2>2, BusyEnds DEF Crash, ChainsBase
  <2> QED BY <2>1, <2>2
<1>3. /\ \A r \in Readers : reader'[r] = IF reader[r].proc = p THEN NoReader ELSE reader[r]
      /\ reader' \in [Readers -> Reads]
  BY <1>1, NoReaderIs DEF ChainsBase, Reading
<1>4. \A r \in Readers, o \in Procs, x \in Purposes :
        Awaits(r, o, x)' <=> Awaits(r, o, x) /\ o # p
  BY <1>3, NoReaderIs, PurposesAre DEF Awaits
<1>5. kept' \in Kept' /\ \A o \in Procs, x \in Purposes :
                           kept'[o][x] = IF o = p THEN None ELSE kept[o][x]
  BY <1>1 DEF ChainsBase, Reading, Kept
<1>6. Promises' /\ OneReader'
  BY <1>4, <1>5 DEF ChainsBase, Reading, Promises, OneReader, None, Pending
<1>7. AnswersReal' /\ InOrder'
  BY <1>1, <1>3, NoReaderIs DEF ChainsBase, Reading, AnswersReal, InOrder
<1>8. Reading'
  BY <1>3, <1>5, <1>6, <1>7 DEF Reading
<1>9. failures' \in 0 .. MaxFailures
  BY <1>1, UpdatesAssumption DEF ChainsBase, ChainsTypes
<1>10. /\ cached' \in {None, Missing} \union 1 .. config
       /\ lasting' \in BOOLEAN /\ slipped' \in BOOLEAN
  <2>1. CASE UNCHANGED cache
    BY <2>1 DEF cache, ChainsBase, ChainsTypes
  <2>2. CASE \E r \in Readers : HalfWrite(r)
    BY <2>2, WrittenTypes DEF HalfWrite
  <2> QED BY <2>1, <2>2 DEF Crash
<1>11. ChainsTypes'
  BY <1>1, <1>2, <1>9, <1>10 DEF ChainsBase, ChainsTypes
<1> QED BY <1>2, <1>8, <1>11 DEF ChainsBase

LEMMA ChainsBaseStep == ChainsBase /\ [ChainsNext]_chainsVars => ChainsBase'
<1> SUFFICES ASSUME ChainsBase, [ChainsNext]_chainsVars PROVE ChainsBase'
  OBVIOUS
<1>1. CASE UNCHANGED chainsVars
  <2>1. UNCHANGED <<config, listed, cached, lasting, slipped, queue, handling, seen, kept,
                    told, doubtful, reader, failures>>
    BY <1>1 DEF chainsVars, upstreamConfig, cache, memory
  <2>2. ChainsTypes' /\ AnnouncedOnce'
    BY <2>1 DEF ChainsBase, ChainsTypes, AnnouncedOnce, Busy
  <2>3. Reading'
    BY <2>1 DEF ChainsBase, Reading, Kept, Promises, OneReader, Awaits, AnswersReal, InOrder
  <2> QED BY <2>2, <2>3 DEF ChainsBase
<1>2. CASE ChainsNext
  BY <1>2, ChangeBase, ExpireChainBase, ExpireMarkerBase, TickBase, TakeUpdateBase,
     UnlinkChainBase, StampChainBase, ClearChainFailsBase, ClearApisBase, GetBase,
     StartFetchBase, JoinFetchBase, FetchBase, CheckBase, EndReadBase, CrashBase
     DEF ChainsNext, ReadStep
<1> QED BY <1>1, <1>2

LEMMA ChainsInvariant == ChainsSpec => []ChainsBase
<1> QED BY ChainsBaseInit, ChainsBaseStep, PTL DEF ChainsSpec

\* Type correctness of a changed chain's memory: also that a promise is there as long as
\* its reader is, whoever forgets, restarts or answers meanwhile, and no longer.
THEOREM ChainsTypeCorrect == ChainsSpec => []ChainsTypeOK
<1> QED BY ChainsInvariant, ChainsBaseTypes, PTL


-----------------------------------------------------------------------------
(* The clients of a replica that was told of a change.  A version that can   *)
(* still get into the cache, or into a client of that replica, is not        *)
(* earlier than the one that was current when the cache was unlinked, unless *)
(* its read is known to be overtaken.                                        *)

NotBefore(v) == \A p \in Procs : v >= seen[p] /\ v >= told[p]

\* What is cached, and what may be: the check refuses whoever is outdated.
CachedLater == cached \in Versions /\ ~slipped => NotBefore(cached)
AnsweredLater == \A r \in Readers :
  reader[r].answer \in Versions /\ ~reader[r].outdated /\ ~reader[r].overtaken
    => NotBefore(reader[r].answer)

\* What a client of a replica still waits for.
AwaitedLater == \A r \in Readers, p \in Procs, x \in Kinds :
  Awaits(r, p, x) /\ reader[r].answer \in Versions
    => reader[r].answer >= told[p] \/ <<p, x>> \in doubtful

Later == CachedLater /\ AnsweredLater /\ AwaitedLater /\ ApisCurrent

LEMMA ChainNumbers ==
  ASSUME ChainsBase
  PROVE  /\ config \in Versions /\ Versions \subseteq Int
         /\ None \notin Versions /\ Missing \notin Versions /\ Pending \notin Versions
         /\ Error \notin Versions /\ \A v \in Versions : v >= None
         /\ \A p \in Procs : /\ seen[p] \in Int /\ seen[p] <= config
                             /\ told[p] \in Int /\ told[p] <= config
         /\ \A r \in Readers : reader[r].answer \in {None, Missing} \union 1 .. config
         /\ \A v \in 1 .. config : ~Old(v) => v = config
BY UpdatesAssumption
   DEF ChainsBase, ChainsTypes, Reading, AnswersReal, None, Missing, Pending, Error, Versions,
       Old

LEMMA ConfigLater == ChainsBase => NotBefore(config)
BY ChainNumbers DEF NotBefore, Versions

\* What is true of a version stays true as long as nobody unlinks the cache.
LEMMA NotBeforeStays ==
  ASSUME ChainsBase, NEW v \in Versions, NotBefore(v),
         \A p \in Procs : /\ seen'[p] \in {seen[p], None}
                          /\ told'[p] \in {told[p], seen[p], None}
  PROVE  \A p \in Procs : v >= seen'[p] /\ v >= told'[p]
<1> SUFFICES ASSUME NEW p \in Procs PROVE v >= seen'[p] /\ v >= told'[p]
  OBVIOUS
<1>1. v >= seen[p] /\ v >= told[p] /\ v >= None
  BY ChainNumbers DEF NotBefore
<1> QED BY <1>1

LEMMA LaterInit == ChainsInit => Later
<1> SUFFICES ASSUME ChainsInit PROVE Later
  OBVIOUS
<1>1. /\ cached = None /\ \A p \in Procs, x \in Purposes : kept[p][x] = None
      /\ reader = [r \in Readers |-> NoReader]
  BY DEF ChainsInit
<1>2. \A r \in Readers : reader[r].answer = None
  BY <1>1, NoReaderIs
<1>3. None \notin Versions
  BY UpdatesAssumption DEF None, Versions
<1> QED BY <1>1, <1>2, <1>3, PurposesAre
        DEF Later, CachedLater, AnsweredLater, AwaitedLater, ApisCurrent

\* The cache and the readers' answers, where no reader changes but maybe ends or is no
\* longer awaited.
LEMMA AnswersStay ==
  ASSUME ChainsBase, Later,
         \A p \in Procs : /\ seen'[p] \in {seen[p], None}
                          /\ told'[p] \in {told[p], seen[p], None},
         \A r \in Readers :
           \/ reader'[r].answer = None
           \/ /\ reader'[r].answer = reader[r].answer
              /\ \/ /\ reader'[r].outdated = reader[r].outdated
                    /\ reader'[r].overtaken = reader[r].overtaken
                 \/ reader'[r].outdated
                 \/ ~Old(reader[r].answer)
                 \/ reader'[r].overtaken,
         \/ UNCHANGED <<cached, slipped>>
         \/ cached' = None
         \/ \E r \in Readers : /\ reader[r].at = "write" /\ cached' = reader[r].answer
                               /\ slipped' = reader[r].overtaken
  PROVE  CachedLater' /\ AnsweredLater'
<1>1. CachedLater'
  <2> SUFFICES ASSUME cached' \in Versions, ~slipped'
               PROVE  \A p \in Procs : cached' >= seen'[p] /\ cached' >= told'[p]
    BY DEF CachedLater, NotBefore
  <2>1. NotBefore(cached')
    <3>1. CASE UNCHANGED <<cached, slipped>>
      BY <3>1 DEF Later, CachedLater
    <3>2. CASE cached' = None
      BY <3>2, ChainNumbers
    <3>3. ASSUME NEW r \in Readers, reader[r].at = "write", cached' = reader[r].answer,
                 slipped' = reader[r].overtaken
          PROVE  NotBefore(cached')
      BY <3>3 DEF Later, AnsweredLater, ChainsBase, Reading, InOrder
    <3> QED BY <3>1, <3>2, <3>3
  <2> QED BY <2>1, NotBeforeStays
<1>2. AnsweredLater'
  <2> SUFFICES ASSUME NEW r \in Readers, reader'[r].answer \in Versions,
                      ~reader'[r].outdated, ~reader'[r].overtaken
               PROVE  \A p \in Procs : /\ reader'[r].answer >= seen'[p]
                                       /\ reader'[r].answer >= told'[p]
    BY DEF AnsweredLater, NotBefore
  <2>1. reader'[r].answer = reader[r].answer
    BY ChainNumbers
  <2>2. NotBefore(reader'[r].answer)
    <3>1. CASE ~Old(reader[r].answer)
      <4>1. reader[r].answer \in 1 .. config
        BY <2>1, ChainNumbers
      <4> QED BY <2>1, <3>1, <4>1, ChainNumbers, ConfigLater
    <3>2. CASE Old(reader[r].answer)
      BY <2>1, <3>2, ChainNumbers DEF Later, AnsweredLater
    <3> QED BY <3>1, <3>2
  <2> QED BY <2>2, NotBeforeStays
<1> QED BY <1>1, <1>2

\* A replica forgets, and nobody is told anything, or those who wait are forgotten too.
LEMMA ForgetLater ==
  ASSUME ChainsBase, Later, NEW p \in Procs, NEW purposes, Forget(p, purposes),
         UNCHANGED cache,
         \/ UNCHANGED <<seen, told>>
         \/ /\ Kinds \subseteq purposes
            /\ seen' = [seen EXCEPT ![p] = None] /\ told' = [told EXCEPT ![p] = seen[p]]
  PROVE  Later'
<1>1. \A o \in Procs : /\ seen'[o] \in {seen[o], None} /\ told'[o] \in {told[o], seen[o]}
                       /\ told'[o] = told[o] \/ (o = p /\ Kinds \subseteq purposes)
  BY DEF ChainsBase, ChainsTypes
<1>2. UNCHANGED <<cached, slipped>> /\ Reading
  BY DEF cache, ChainsBase
<1>3. CachedLater' /\ AnsweredLater'
  BY <1>1, <1>2, ForgetReader, AnswersStay
<1>4. \A o \in Procs, x \in Kinds :
        <<o, x>> \in doubtful => <<o, x>> \in doubtful' \/ (o = p /\ x \in purposes)
  BY DEF Forget
<1>5. AwaitedLater'
  <2> SUFFICES ASSUME NEW r \in Readers, NEW o \in Procs, NEW x \in Kinds,
                      Awaits(r, o, x)', reader'[r].answer \in Versions
               PROVE  reader'[r].answer >= told'[o] \/ <<o, x>> \in doubtful'
    BY DEF AwaitedLater
  <2>1. /\ Awaits(r, o, x) /\ ~(o = p /\ x \in purposes)
        /\ reader'[r].answer = reader[r].answer
    BY <1>2, ForgetReader, PurposesAre DEF Awaits
  <2> QED BY <1>1, <1>4, <2>1 DEF Later, AwaitedLater
<1>6. ApisCurrent'
  <2> SUFFICES ASSUME NEW o \in Procs, NEW x \in Kinds, kept'[o][x] \in Versions
               PROVE  kept'[o][x] >= told'[o] \/ <<o, x>> \in doubtful'
    BY DEF ApisCurrent
  <2>1. kept'[o][x] = kept[o][x] /\ ~(o = p /\ x \in purposes)
    BY <1>2, ForgetKept, ChainNumbers, PurposesAre
  <2> QED BY <1>1, <1>4, <2>1 DEF Later, ApisCurrent
<1> QED BY <1>3, <1>5, <1>6 DEF Later

\* A read ends: its promise becomes a client that AwaitedLater speaks of, or nothing.
LEMMA SettleLater ==
  ASSUME ChainsBase, Later, NEW r \in Readers, NEW answer \in {Error, reader[r].answer},
         Settle(r, answer), UNCHANGED <<config, seen>>,
         \/ UNCHANGED <<cached, slipped>>
         \/ cached' = None
         \/ /\ reader[r].at = "write" /\ cached' = reader[r].answer
            /\ slipped' = reader[r].overtaken
  PROVE  Later'
<1> DEFINE p == reader[r].proc  x == reader[r].promise
<1>1. /\ kept' = IF x = NoPromise THEN kept ELSE [kept EXCEPT ![p][x] = Result(x, answer)]
      /\ reader' = [reader EXCEPT ![r] = NoReader] /\ UNCHANGED <<told, doubtful>>
  BY DEF Settle
<1>2. p \in Procs /\ x \in Purposes \union {NoPromise} /\ Reading
  BY DEF ChainsBase, Reading, Reads
<1>3. x \in Purposes => Awaits(r, p, x)
  BY DEF Awaits
<1>4. answer \in Versions => answer = reader[r].answer
  BY ChainNumbers
<1> HIDE DEF p, x
<1>5. /\ reader'[r] = NoReader /\ \A q \in Readers \ {r} : reader'[q] = reader[q]
  BY <1>1, <1>2 DEF Reading
<1>6. CachedLater' /\ AnsweredLater'
  <2>1. \A q \in Readers : reader'[q].answer = None \/ reader'[q] = reader[q]
    BY <1>5, NoReaderIs
  <2> QED BY <1>1, <2>1, AnswersStay
<1>7. AwaitedLater'
  <2>1. ~\E y \in Kinds, o \in Procs : Awaits(r, o, y)'
    BY <1>5, NoReaderIs, PurposesAre DEF Awaits
  <2>2. \A q \in Readers \ {r}, o \in Procs, y \in Kinds : Awaits(q, o, y)' <=> Awaits(q, o, y)
    BY <1>5 DEF Awaits
  <2> QED BY <1>1, <1>5, <2>1, <2>2 DEF Later, AwaitedLater
<1>8. ApisCurrent'
  <2> SUFFICES ASSUME NEW o \in Procs, NEW y \in Kinds, kept'[o][y] \in Versions
               PROVE  kept'[o][y] >= told'[o] \/ <<o, y>> \in doubtful'
    BY DEF ApisCurrent
  <2>1. y \in Purposes /\ y # "memo"
    BY PurposesAre
  <2>2. CASE o = p /\ y = x
    <3>1. kept'[o][y] = Result(x, answer)
      BY <1>1, <1>2, <2>1, <2>2, PurposesAre DEF Reading, Kept
    <3>2. answer \in Versions /\ kept'[o][y] = answer
      BY <2>1, <2>2, <3>1, ChainNumbers DEF Result
    <3> QED BY <1>1, <1>3, <1>4, <2>1, <2>2, <3>2 DEF Later, AwaitedLater
  <2>3. CASE ~(o = p /\ y = x)
    <3>1. kept'[o][y] = kept[o][y]
      BY <1>1, <1>2, <2>1, <2>3 DEF Reading, Kept
    <3> QED BY <1>1, <3>1 DEF Later, ApisCurrent
  <2> QED BY <2>2, <2>3
<1> QED BY <1>6, <1>7, <1>8 DEF Later

\* What is kept and awaited, where promises, answers and what was told stay.
LEMMA ClientsStay ==
  ASSUME Later, UNCHANGED memory,
         \A r \in Readers :
           /\ reader'[r].proc = reader[r].proc /\ reader'[r].promise = reader[r].promise
           /\ reader'[r].answer = reader[r].answer
  PROVE  AwaitedLater' /\ ApisCurrent'
BY DEF memory, Later, AwaitedLater, ApisCurrent, Awaits

LEMMA UnmarkedLater ==
  ASSUME ChainsBase, Later, reader' = Unmarked, UNCHANGED <<cache, memory>>,
         \A p \in Procs : seen'[p] \in {seen[p], None}
  PROVE  Later'
<1>1. UNCHANGED <<cached, slipped, told>> /\ Reading
  BY DEF cache, memory, ChainsBase
<1>2. \A r \in Readers :
        /\ reader'[r].answer = reader[r].answer
        /\ reader'[r].overtaken \/ ~Old(reader[r].answer)
           \/ (reader'[r].outdated = reader[r].outdated
               /\ reader'[r].overtaken = reader[r].overtaken)
  <2> SUFFICES ASSUME NEW r \in Readers
               PROVE  /\ reader'[r].answer = reader[r].answer
                      /\ reader'[r].overtaken \/ ~Old(reader[r].answer)
                         \/ (reader'[r].outdated = reader[r].outdated
                             /\ reader'[r].overtaken = reader[r].overtaken)
    OBVIOUS
  <2>1. reader[r].outdated \in BOOLEAN
    BY <1>1 DEF Reading, Reads
  <2>2. CASE reader[r].outdated = TRUE
    <3>1. reader'[r].overtaken = Old(reader[r].answer)
      BY <1>1, <2>2, UnmarkedReader
    <3> QED BY <1>1, <3>1, UnmarkedReader
  <2>3. CASE reader[r].outdated = FALSE
    BY <1>1, <2>3, UnmarkedReader
  <2> QED BY <2>1, <2>2, <2>3
<1>3. CachedLater' /\ AnsweredLater'
  BY <1>1, <1>2, AnswersStay
<1>4. AwaitedLater' /\ ApisCurrent'
  BY <1>1, UnmarkedReader, ClientsStay
<1> QED BY <1>3, <1>4 DEF Later

\* UNLINK: who is not overtaken by it has the current version, if any.
LEMMA UnlinkLater ==
  ASSUME ChainsBase, Later, NEW p \in Procs, UnlinkChain(p)
  PROVE  Later'
<1>1. cached' = None /\ UNCHANGED <<config, memory, told>> /\ Reading
  BY DEF UnlinkChain, Uncache, memory, upstreamConfig, ChainsBase
<1>2. seen' = [seen EXCEPT ![p] = config]
  BY DEF UnlinkChain
<1>3. \A o \in Procs : seen'[o] \in {seen[o], config} /\ told'[o] = told[o]
  BY <1>1, <1>2 DEF ChainsBase, ChainsTypes
<1>4. \A o \in Procs : config >= seen'[o] /\ config >= told'[o]
  BY <1>3, ChainNumbers DEF Versions
<1>5. CachedLater'
  BY <1>1, ChainNumbers DEF CachedLater
<1>6. AnsweredLater'
  <2> SUFFICES ASSUME NEW r \in Readers, reader'[r].answer \in Versions,
                      ~reader'[r].outdated, ~reader'[r].overtaken
               PROVE  \A o \in Procs : /\ reader'[r].answer >= seen'[o]
                                       /\ reader'[r].answer >= told'[o]
    BY DEF AnsweredLater, NotBefore
  <2>1. reader'[r].answer = reader[r].answer /\ ~Old(reader[r].answer)
    BY <1>1, UnlinkedReader
  <2>2. reader[r].answer \in 1 .. config
    BY <2>1, ChainNumbers
  <2>3. reader[r].answer = config
    BY <2>1, <2>2, ChainNumbers
  <2> QED BY <1>4, <2>1, <2>3
<1>7. AwaitedLater' /\ ApisCurrent'
  BY <1>1, UnlinkedReader, ClientsStay
<1> QED BY <1>5, <1>6, <1>7 DEF Later

LEMMA StampLater ==
  ASSUME ChainsBase, Later, NEW p \in Procs, StampChain(p)
  PROVE  Later'
<1>1. UNCHANGED <<cached, slipped, seen, told, memory>> /\ Reading
  BY DEF StampChain, cache, memory, ChainsBase
<1>2. \A r \in Readers : /\ reader'[r].answer = reader[r].answer
                         /\ reader'[r].outdated \/ reader'[r] = reader[r]
  BY <1>1, StampedReader
<1>3. CachedLater' /\ AnsweredLater'
  BY <1>1, <1>2, AnswersStay
<1>4. AwaitedLater' /\ ApisCurrent'
  BY <1>1, StampedReader, ClientsStay
<1> QED BY <1>3, <1>4 DEF Later

LEMMA DoubtIs ==
  ASSUME NEW p \in Procs, NEW x, NEW b \in BOOLEAN, Doubt(p, x, b)
  PROVE  \A o \in Procs, y \in Kinds :
           <<o, y>> \in doubtful' <=> IF o = p /\ y = x THEN b ELSE <<o, y>> \in doubtful
<1> SUFFICES ASSUME NEW o \in Procs, NEW y \in Kinds
             PROVE  <<o, y>> \in doubtful' <=>
                      IF o = p /\ y = x THEN b ELSE <<o, y>> \in doubtful
  OBVIOUS
<1>1. CASE b /\ x \in Kinds
  BY <1>1 DEF Doubt
<1>2. CASE ~(b /\ x \in Kinds)
  BY <1>2 DEF Doubt
<1> QED BY <1>1, <1>2

LEMMA GetLater ==
  ASSUME ChainsBase, Later, NEW p \in Procs, NEW x \in Purposes, Get(p, x)
  PROVE  Later'
<1>1. /\ UNCHANGED <<cached, slipped, seen, told, reader>> /\ Reading
      /\ kept[p][x] = None /\ kept' = [kept EXCEPT ![p][x] = Result(x, cached)]
      /\ slipped \in BOOLEAN /\ Doubt(p, x, slipped)
  BY DEF Get, cache, ChainsBase, ChainsTypes
<1>2. CachedLater' /\ AnsweredLater'
  BY <1>1, AnswersStay
<1>3. \A o \in Procs, y \in Kinds :
        <<o, y>> \in doubtful' <=> IF o = p /\ y = x THEN slipped ELSE <<o, y>> \in doubtful
  BY <1>1, DoubtIs
<1>4. AwaitedLater'
  <2>1. \A r \in Readers : ~Awaits(r, p, x)
    BY <1>1 DEF Reading, Promises, None, Pending
  <2> QED BY <1>1, <1>3, <2>1 DEF Later, AwaitedLater, Awaits
<1>5. ApisCurrent'
  <2> SUFFICES ASSUME NEW o \in Procs, NEW y \in Kinds, kept'[o][y] \in Versions
               PROVE  kept'[o][y] >= told'[o] \/ <<o, y>> \in doubtful'
    BY DEF ApisCurrent
  <2>1. y \in Purposes /\ y # "memo"
    BY PurposesAre
  <2>2. CASE o = p /\ y = x
    <3>1. kept'[o][y] = Result(x, cached)
      BY <1>1, <2>1, <2>2 DEF Reading, Kept
    <3>2. cached \in Versions /\ kept'[o][y] = cached
      BY <2>1, <2>2, <3>1, ChainNumbers DEF Result
    <3> QED BY <1>1, <1>3, <2>2, <3>2 DEF Later, CachedLater, NotBefore
  <2>3. CASE ~(o = p /\ y = x)
    <3>1. kept'[o][y] = kept[o][y]
      BY <1>1, <2>1, <2>3 DEF Reading, Kept
    <3> QED BY <1>1, <1>3, <2>3, <3>1 DEF Later, ApisCurrent
  <2> QED BY <2>2, <2>3
<1> QED BY <1>2, <1>4, <1>5 DEF Later

\* A read starts with an answer or without one: old only if it is known to be.
LEMMA StartLater ==
  ASSUME ChainsBase, Later, NEW p \in Procs, NEW x \in Purposes, NEW r \in Readers,
         UNCHANGED <<cached, slipped, seen, told>>, NEW old \in BOOLEAN,
         reader' = [reader EXCEPT ![r] = reader'[r]], Awaits(r, p, x)',
         reader'[r].overtaken = old, Doubt(p, x, old),
         reader'[r].answer \in Versions /\ ~old => NotBefore(reader'[r].answer),
         reader[r].at = "idle", kept[p][x] = None, kept' = [kept EXCEPT ![p][x] = Pending]
  PROVE  Later'
<1>1. Reading /\ \A q \in Readers \ {r} : reader'[q] = reader[q]
  BY DEF ChainsBase, Reading
<1>2. CachedLater' /\ AnsweredLater'
  <2>1. CachedLater'
    BY DEF Later, CachedLater, NotBefore
  <2>2. AnsweredLater'
    BY <1>1 DEF Later, AnsweredLater, NotBefore
  <2> QED BY <2>1, <2>2
<1>3. \A o \in Procs, y \in Kinds :
        <<o, y>> \in doubtful' <=> IF o = p /\ y = x THEN old ELSE <<o, y>> \in doubtful
  BY DoubtIs
<1>4. AwaitedLater'
  <2> SUFFICES ASSUME NEW q \in Readers, NEW o \in Procs, NEW y \in Kinds,
                      Awaits(q, o, y)', reader'[q].answer \in Versions
               PROVE  reader'[q].answer >= told'[o] \/ <<o, y>> \in doubtful'
    BY DEF AwaitedLater
  <2>1. CASE q = r
    <3>1. o = p /\ y = x
      BY <2>1 DEF Awaits
    <3> QED BY <1>3, <2>1, <3>1 DEF NotBefore
  <2>2. CASE q # r
    <3>1. Awaits(q, o, y) /\ reader'[q] = reader[q]
      BY <1>1, <2>2 DEF Awaits
    <3>2. ~(o = p /\ y = x)
      BY <1>1, <3>1 DEF Reading, Promises, None, Pending
    <3> QED BY <1>3, <3>1, <3>2 DEF Later, AwaitedLater
  <2> QED BY <2>1, <2>2
<1>5. ApisCurrent'
  <2> SUFFICES ASSUME NEW o \in Procs, NEW y \in Kinds, kept'[o][y] \in Versions
               PROVE  kept'[o][y] >= told'[o] \/ <<o, y>> \in doubtful'
    BY DEF ApisCurrent
  <2>1. y \in Purposes
    BY PurposesAre
  <2>2. kept'[o][y] = IF o = p /\ y = x THEN Pending ELSE kept[o][y]
    BY <1>1, <2>1 DEF Reading, Kept
  <2>3. kept'[o][y] = kept[o][y] /\ ~(o = p /\ y = x)
    BY <2>2, ChainNumbers
  <2> QED BY <1>3, <2>3 DEF Later, ApisCurrent
<1> QED BY <1>2, <1>4, <1>5 DEF Later

LEMMA StartFetchLater ==
  ASSUME ChainsBase, Later, NEW p \in Procs, NEW x \in Purposes, NEW r \in Readers,
         StartFetch(p, x, r)
  PROVE  Later'
<1>1. /\ UNCHANGED <<cached, slipped, seen, told>>
      /\ kept[p][x] = None /\ kept' = [kept EXCEPT ![p][x] = Pending]
      /\ reader[r].at = "idle" /\ reader' = [reader EXCEPT ![r] = NewReader(p, x)]
      /\ Doubt(p, x, FALSE)
  BY DEF StartFetch, cache
<1>2. reader'[r] = NewReader(p, x)
  BY <1>1 DEF ChainsBase, Reading
<1>3. /\ NewReader(p, x).proc = p /\ NewReader(p, x).promise = x
      /\ NewReader(p, x).answer = None /\ NewReader(p, x).overtaken = FALSE
  BY NewReaderIs
<1>4. /\ Awaits(r, p, x)' /\ reader'[r].overtaken = FALSE /\ reader'[r].answer \notin Versions
  BY <1>2, <1>3, ChainNumbers DEF Awaits
<1> QED BY <1>1, <1>2, <1>4, StartLater

LEMMA JoinFetchLater ==
  ASSUME ChainsBase, Later, NEW p \in Procs, NEW x \in Purposes, NEW r \in Readers,
         NEW q \in Readers, JoinFetch(p, x, r, q)
  PROVE  Later'
<1>1. /\ UNCHANGED <<cached, slipped, seen, told>>
      /\ kept[p][x] = None /\ kept' = [kept EXCEPT ![p][x] = Pending]
      /\ reader[r].at = "idle"
      /\ reader' = [reader EXCEPT ![r] = Joins(p, x, q, JoinsOld(q))]
      /\ Doubt(p, x, JoinsOld(q))
  BY DEF JoinFetch, Joins, JoinsOld, cache
<1>2. JoinsOld(q) \in BOOLEAN /\ Reading
  BY DEF JoinsOld, ChainsBase
<1>3. reader'[r] = Joins(p, x, q, JoinsOld(q))
  BY <1>1, <1>2 DEF Reading
<1>4. /\ Awaits(r, p, x)' /\ reader'[r].overtaken = JoinsOld(q)
      /\ reader'[r].answer = reader[q].answer
  BY <1>2, <1>3, JoinedReader DEF Awaits
<1>5. reader[q].answer \in Versions /\ ~JoinsOld(q) => NotBefore(reader[q].answer)
  <2> SUFFICES ASSUME reader[q].answer \in Versions, ~JoinsOld(q)
               PROVE  NotBefore(reader[q].answer)
    OBVIOUS
  <2>1. CASE Old(reader[q].answer)
    BY <2>1 DEF JoinsOld, Later, AnsweredLater
  <2>2. CASE ~Old(reader[q].answer)
    <3>1. reader[q].answer \in 1 .. config
      BY ChainNumbers
    <3> QED BY <2>2, <3>1, ChainNumbers, ConfigLater
  <2> QED BY <2>1, <2>2
<1>6. reader' = [reader EXCEPT ![r] = reader'[r]]
  BY <1>1, <1>3
<1> QED BY <1>1, <1>2, <1>4, <1>5, <1>6, StartLater

LEMMA FetchLater ==
  ASSUME ChainsBase, Later, NEW r \in Readers, Fetch(r)
  PROVE  Later'
<1>1. UNCHANGED <<cached, slipped, seen, kept, told, doubtful>>
  BY DEF Fetch, cache, memory
<1>2. CachedLater' /\ ApisCurrent'
  BY <1>1 DEF Later, CachedLater, NotBefore, ApisCurrent
<1>3. reader'[r].answer \in Versions => reader'[r].answer = config
  BY FetchedReader, ChainNumbers
<1>4. \A p \in Procs : config >= seen[p] /\ config >= told[p]
  BY ConfigLater DEF NotBefore
<1>5. AnsweredLater' /\ AwaitedLater'
  <2>1. \A q \in Readers : q = r \/ reader'[q] = reader[q]
    BY FetchedReader
  <2>2. AnsweredLater'
    BY <1>1, <1>3, <1>4, <2>1 DEF Later, AnsweredLater, NotBefore
  <2>3. AwaitedLater'
    BY <1>1, <1>3, <1>4, <2>1 DEF Later, AwaitedLater, Awaits
  <2> QED BY <2>2, <2>3
<1> QED BY <1>2, <1>5 DEF Later

LEMMA CheckLater ==
  ASSUME ChainsBase, Later, NEW r \in Readers, Check(r)
  PROVE  Later'
<1>1. UNCHANGED <<config, seen, cached, slipped>> /\ Reading
  BY DEF Check, upstreamConfig, cache, ChainsBase
<1>2. ASSUME UNCHANGED memory, reader[r].answer = Missing \/ ~reader[r].outdated,
             reader' = [reader EXCEPT ![r].at = "write", ![r].outdated = FALSE]
      PROVE  Later'
  <2>1. /\ reader'[r].proc = reader[r].proc /\ reader'[r].promise = reader[r].promise
        /\ reader'[r].answer = reader[r].answer
        /\ reader'[r].outdated = FALSE /\ reader'[r].overtaken = reader[r].overtaken
        /\ \A q \in Readers \ {r} : reader'[q] = reader[q]
    BY <1>1, <1>2, PassedReader
  <2>2. \A q \in Readers : q = r \/ reader'[q] = reader[q]
    BY <2>1
  <2>3. AwaitedLater' /\ ApisCurrent'
    BY <1>2, <2>1, <2>2, ClientsStay
  <2>4. UNCHANGED told
    BY <1>2 DEF memory
  <2>5. CachedLater'
    BY <1>1, <2>4 DEF Later, CachedLater, NotBefore
  <2>6. AnsweredLater'
    BY <1>1, <1>2, <2>1, <2>2, <2>4, ChainNumbers DEF Later, AnsweredLater, NotBefore
  <2> QED BY <2>3, <2>5, <2>6 DEF Later
<1>3. CASE Settle(r, reader[r].answer)
  BY <1>1, <1>3, SettleLater
<1> QED BY <1>2, <1>3 DEF Check

LEMMA EndReadLater ==
  ASSUME ChainsBase, Later, NEW r \in Readers, Write(r) \/ FetchFails(r) \/ WriteFails(r)
  PROVE  Later'
<1>1. UNCHANGED <<config, seen>>
  BY DEF Write, FetchFails, WriteFails, upstreamConfig
<1>2. CASE Write(r)
  BY <1>1, <1>2, SettleLater DEF Write
<1>3. CASE FetchFails(r)
  BY <1>1, <1>3, SettleLater DEF FetchFails, cache
<1>4. CASE WriteFails(r)
  BY <1>1, <1>4, SettleLater DEF WriteFails, Uncache, HalfWrite
<1> QED BY <1>2, <1>3, <1>4

LEMMA CrashLater ==
  ASSUME ChainsBase, Later, NEW p \in Procs, Crash(p)
  PROVE  Later'
<1>1. /\ seen' = [seen EXCEPT ![p] = None] /\ told' = [told EXCEPT ![p] = None]
      /\ kept' = [kept EXCEPT ![p] = [x \in Purposes |-> None]]
      /\ doubtful' = doubtful \ ({p} \X Kinds)
      /\ reader' = [r \in Readers |-> IF reader[r].proc = p THEN NoReader ELSE reader[r]]
      /\ Reading
  BY DEF Crash, ChainsBase
<1>2. \A o \in Procs : /\ seen'[o] \in {seen[o], None} /\ told'[o] \in {told[o], None}
                       /\ o # p => told'[o] = told[o]
  BY <1>1 DEF ChainsBase, ChainsTypes
<1>3. \A r \in Readers : reader'[r] = IF reader[r].proc = p THEN NoReader ELSE reader[r]
  BY <1>1
<1>4. CachedLater' /\ AnsweredLater'
  <2>1. \A r \in Readers : reader'[r].answer = None \/ reader'[r] = reader[r]
    BY <1>3, NoReaderIs
  <2>2. \/ UNCHANGED <<cached, slipped>>
        \/ \E r \in Readers : /\ reader[r].at = "write" /\ cached' = reader[r].answer
                              /\ slipped' = reader[r].overtaken
    BY DEF Crash, HalfWrite, cache
  <2> QED BY <1>2, <2>1, <2>2, AnswersStay
<1>5. \A o \in Procs, x \in Kinds : o # p /\ <<o, x>> \in doubtful => <<o, x>> \in doubtful'
  BY <1>1
<1>6. AwaitedLater'
  <2> SUFFICES ASSUME NEW r \in Readers, NEW o \in Procs, NEW x \in Kinds,
                      Awaits(r, o, x)', reader'[r].answer \in Versions
               PROVE  reader'[r].answer >= told'[o] \/ <<o, x>> \in doubtful'
    BY DEF AwaitedLater
  <2>1. reader[r].proc # p /\ reader'[r] = reader[r]
    BY <1>3, NoReaderIs, ChainNumbers
  <2>2. Awaits(r, o, x) /\ o # p
    BY <2>1 DEF Awaits
  <2> QED BY <1>2, <1>5, <2>1, <2>2 DEF Later, AwaitedLater
<1>7. ApisCurrent'
  <2> SUFFICES ASSUME NEW o \in Procs, NEW x \in Kinds, kept'[o][x] \in Versions
               PROVE  kept'[o][x] >= told'[o] \/ <<o, x>> \in doubtful'
    BY DEF ApisCurrent
  <2>1. kept'[o][x] = IF o = p THEN None ELSE kept[o][x]
    BY <1>1, PurposesAre DEF Reading, Kept
  <2>2. o # p /\ kept'[o][x] = kept[o][x]
    BY <2>1, ChainNumbers
  <2> QED BY <1>2, <1>5, <2>2 DEF Later, ApisCurrent
<1> QED BY <1>4, <1>6, <1>7 DEF Later

LEMMA LaterStep ==
  ASSUME Kinds \subseteq ClearedKinds, ChainsBase, Later, [ChainsNext]_chainsVars
  PROVE  Later'
<1>1. ASSUME UNCHANGED <<seen, memory, reader>>,
             UNCHANGED <<cached, slipped>> \/ cached' = None
      PROVE  Later'
  <2>1. CachedLater' /\ AnsweredLater'
    BY <1>1, AnswersStay DEF memory
  <2> QED BY <1>1, <2>1, ClientsStay DEF Later
<1>2. CASE UNCHANGED chainsVars
  BY <1>1, <1>2 DEF chainsVars, cache
<1>3. CASE Change \/ ExpireChain
  BY <1>1, <1>3 DEF Change, ExpireChain, Uncache, cache
<1>4. CASE ExpireMarker
  <2>1. reader' = Unmarked /\ UNCHANGED <<cache, memory, seen>>
    BY <1>4 DEF ExpireMarker
  <2> QED BY <2>1, UnmarkedLater
<1>5. ASSUME NEW p \in Procs, Tick(p) \/ TakeUpdate(p) PROVE Later'
  <2>1. UNCHANGED <<cache, seen, told>> /\ Forget(p, {"memo"})
    BY <1>5 DEF Tick, TakeUpdate
  <2> QED BY <2>1, ForgetLater
<1>6. ASSUME NEW p \in Procs, ClearApis(p) PROVE Later'
  <2>1. Kinds \intersect ClearedKinds = Kinds
    OBVIOUS
  <2>2. /\ UNCHANGED cache /\ Forget(p, Kinds)
        /\ seen' = [seen EXCEPT ![p] = None] /\ told' = [told EXCEPT ![p] = seen[p]]
    BY <1>6, <2>1 DEF ClearApis
  <2> QED BY <2>2, ForgetLater
<1>7. ASSUME NEW p \in Procs, ClearChainFails(p) PROVE Later'
  <2>1. /\ UNCHANGED <<cache, memory>> /\ seen' = [seen EXCEPT ![p] = None]
        /\ UNCHANGED reader \/ reader' = Unmarked
    BY <1>7 DEF ClearChainFails
  <2>2. \A o \in Procs : seen'[o] \in {seen[o], None}
    BY <2>1 DEF ChainsBase, ChainsTypes
  <2>3. CASE UNCHANGED reader
    <3>1. UNCHANGED <<cached, slipped, told>>
      BY <2>1 DEF cache, memory
    <3>2. CachedLater' /\ AnsweredLater'
      BY <2>2, <2>3, <3>1, AnswersStay
    <3> QED BY <2>1, <2>3, <3>2, ClientsStay DEF Later
  <2> QED BY <2>1, <2>2, <2>3, UnmarkedLater
<1> QED BY <1>2, <1>3, <1>4, <1>5, <1>6, <1>7, UnlinkLater, StampLater, GetLater,
           StartFetchLater, JoinFetchLater, FetchLater, CheckLater, EndReadLater, CrashLater
        DEF ChainsNext, ReadStep

LEMMA LaterInvariant ==
  ASSUME Kinds \subseteq ClearedKinds
  PROVE  ChainsSpec => [](ChainsBase /\ Later)
<1>1. ChainsInit => ChainsBase /\ Later
  BY ChainsBaseInit, LaterInit
<1>2. ChainsBase /\ Later /\ [ChainsNext]_chainsVars => (ChainsBase /\ Later)'
  BY ChainsBaseStep, LaterStep
<1> QED BY <1>1, <1>2, PTL DEF ChainsSpec

\* A replica that has handled an announcement to the end has no client from before that
\* change and gets none, provided its kinds of clients are among those that the handler
\* lets go, and unless the client is of a read that was overtaken: one that was there
\* at an UNLINK and passed the check, or was joined afterwards (onConfigEventChainUpdate,
\* getOrCreateApi, _shouldBeCached, deleteByKey).
THEOREM ClientsCurrent ==
  ASSUME Kinds \subseteq ClearedKinds
  PROVE  ChainsSpec => []ApisCurrent
<1>1. Later => ApisCurrent
  BY DEF Later
<1> QED BY <1>1, LaterInvariant, PTL

-----------------------------------------------------------------------------
(* Devices: types, and what a request or a job under way can be.             *)

Asks == [at : {"find", "delete", "remove", "clear", "begin", "commit"},
         device : Devices, signer : Signers \union {Nobody}, token : Tokens,
         found : SUBSET Signers, delivery : {{}} \union {{m} : m \in Deliveries}]

\* Who registers has a token and is not the deletion of a device for a delivery; such a
\* deletion is of the device that the delivery was for.
Sound(q) ==
  /\ q.signer # Nobody => q.token # NoToken /\ q.delivery = {}
  /\ q.at \in {"begin", "commit"} => q.signer # Nobody
  /\ \A m \in q.delivery : m.device = q.device

Asked == {Idle} \union {q \in Asks : Sound(q)}

JobRecords == [at : {"queued", "store", "fan", "done"}, private : BOOLEAN,
               rows : SUBSET Rows, todo : SUBSET Rows, run : 0 .. MaxFaults + 1,
               lost : SUBSET Devices, queued : [Devices -> Nat]]

\* After f faults a job was started again f times at most, each time with a fault.
\* It has rows to do while it fans out only.
RunsCounted(j, f) ==
  /\ j.at # "fan" => j.todo = {}
  /\ j.at = "queued" => j.run <= f
  /\ j.at \in {"store", "fan"} => j.run \in 1 .. f + 1

\* What a job has queued for a device, and what it has to queue yet in this run.
Queues(j, d) ==
  /\ j.queued[d] <= j.run
  /\ j.at = "store" => j.queued[d] < j.run
  /\ j.at = "fan" =>
       /\ \A x, y \in j.todo : x.device = d /\ y.device = d => x = y
       /\ \A x \in j.todo : x.device = d => j.queued[d] < j.run
       /\ \/ \A x \in j.rows : x.device # d
          \/ d \in j.lost
          \/ j.private /\ \E x \in j.rows : x.device = d /\ x.signer \notin Owners
          \/ j.queued[d] > 0
          \/ \E x \in j.todo : x.device = d

Jobs(f) == {j \in JobRecords : /\ j.todo \subseteq j.rows /\ RunsCounted(j, f)
                               /\ \A d \in Devices : Queues(j, d)}

RegistryBase ==
  /\ live \in [Devices -> Tokens \ {NoToken}] /\ token \in [Devices -> Tokens]
  /\ subs \in [Devices -> SUBSET Signers]
  /\ \A d \in Devices : token[d] = NoToken => subs[d] = {}
  /\ entry = NotCached \/ entry \subseteq Rows
  /\ req \in [Requests -> Asked]
  /\ job \in [Events -> Jobs(faults)]
  /\ outbox \subseteq Deliveries
  /\ late \in BOOLEAN /\ settled \in [Devices -> Signers \union {Nobody}]
  /\ faults \in 0 .. MaxFaults

LEMMA IdleIsNoAsk == \A q \in Asks : q # Idle /\ q.at # "idle"
BY DEF Asks, Idle

LEMMA RegistryBaseTypes == RegistryBase => TypeOK
<1> SUFFICES ASSUME RegistryBase PROVE TypeOK
  OBVIOUS
<1>1. ASSUME NEW r \in Requests
      PROVE  req[r] = Idle \/
               /\ req[r].at \in {"find", "delete", "remove", "clear", "begin", "commit"}
               /\ req[r].device \in Devices /\ req[r].signer \in Signers \union {Nobody}
               /\ req[r].token \in Tokens /\ req[r].found \subseteq Signers
               /\ req[r].delivery \in {{}} \union {{m} : m \in Deliveries}
  <2>1. req[r] = Idle \/ req[r] \in Asks
    BY DEF RegistryBase, Asked
  <2> QED BY <2>1 DEF Asks
<1>2. ASSUME NEW e \in Events
      PROVE  /\ job[e].private \in BOOLEAN /\ job[e].at \in {"queued", "store", "fan", "done"}
             /\ job[e].todo \subseteq job[e].rows /\ job[e].rows \subseteq Rows
             /\ job[e].run \in 0 .. MaxFaults + 1 /\ job[e].lost \subseteq Devices
  <2>1. job[e] \in JobRecords /\ job[e].todo \subseteq job[e].rows
    BY DEF RegistryBase, Jobs
  <2> QED BY <2>1 DEF JobRecords
<1> QED BY <1>1, <1>2 DEF RegistryBase, TypeOK

LEMMA NewJobSound ==
  ASSUME NEW private \in BOOLEAN, NEW f \in 0 .. MaxFaults
  PROVE  NewJob(private) \in Jobs(f) /\ [NewJob(FALSE) EXCEPT !.at = "done"] \in Jobs(f)
<1> DEFINE none == [d \in Devices |-> 0]
<1>1. 0 \in 0 .. MaxFaults + 1 /\ f \in Nat
  BY RegistryAssumption
<1>2. none \in [Devices -> Nat] /\ \A d \in Devices : none[d] = 0
  OBVIOUS
<1> HIDE DEF none
<1>3. ASSUME NEW j \in JobRecords, j.at \in {"queued", "done"}, j.todo = {}, j.rows = {},
             j.run = 0, j.queued = none
      PROVE  j \in Jobs(f)
  <2>1. RunsCounted(j, f) /\ j.todo \subseteq j.rows
    BY <1>1, <1>3 DEF RunsCounted
  <2>2. \A d \in Devices : Queues(j, d)
    BY <1>2, <1>3 DEF Queues
  <2> QED BY <2>1, <2>2 DEF Jobs
<1>4. ASSUME NEW p \in BOOLEAN
      PROVE  /\ NewJob(p) \in JobRecords
             /\ NewJob(p).at = "queued" /\ NewJob(p).todo = {} /\ NewJob(p).rows = {}
             /\ NewJob(p).run = 0 /\ NewJob(p).queued = none
  <2>1. NewJob(p) = [at |-> "queued", private |-> p, rows |-> {}, todo |-> {},
                     run |-> 0, lost |-> {}, queued |-> none]
    BY DEF NewJob, none
  <2> QED BY <1>1, <1>2, <2>1 DEF JobRecords
<1>5. NewJob(private) \in Jobs(f)
  BY <1>3, <1>4
<1>6. PICK new \in JobRecords : new = NewJob(FALSE)
  BY <1>4
<1>7. /\ [new EXCEPT !.at = "done"] \in JobRecords
      /\ [new EXCEPT !.at = "done"].at = "done" /\ [new EXCEPT !.at = "done"].todo = new.todo
      /\ [new EXCEPT !.at = "done"].rows = new.rows /\ [new EXCEPT !.at = "done"].run = new.run
      /\ [new EXCEPT !.at = "done"].queued = new.queued
  BY DEF JobRecords
<1>8. [new EXCEPT !.at = "done"] \in Jobs(f)
  BY <1>3, <1>4, <1>6, <1>7
<1> QED BY <1>5, <1>6, <1>8

LEMMA RegistryBaseInit == Init => RegistryBase
<1> SUFFICES ASSUME Init PROVE RegistryBase
  OBVIOUS
<1>1. 0 \in 0 .. MaxFaults /\ 1 \in Tokens \ {NoToken} /\ NoToken \in Tokens
  BY RegistryAssumption DEF Tokens, NoToken
<1>2. req \in [Requests -> Asked]
  BY DEF Init, Asked
<1>3. \A private \in BOOLEAN : NewJob(private) \in Jobs(0)
  BY <1>1, NewJobSound
<1>4. job \in [Events -> Jobs(0)]
  BY <1>3 DEF Init
<1>5. faults = 0
  BY DEF Init
<1> QED BY <1>1, <1>2, <1>4, <1>5 DEF Init, RegistryBase

\* A fault more leaves the other jobs what they are.
LEMMA JobsGrow ==
  ASSUME NEW f \in 0 .. MaxFaults, NEW g \in {f, f + 1}, NEW j \in Jobs(f)
  PROVE  j \in Jobs(g)
<1>1. j.run \in Int
  BY RegistryAssumption DEF Jobs, JobRecords
<1>2. RunsCounted(j, g)
  BY <1>1, RegistryAssumption DEF Jobs, RunsCounted
<1> QED BY <1>2 DEF Jobs

\* The steps of a job.  It has read the subscribers, and chooses a row for each device.
LEMMA FansOut ==
  ASSUME NEW f \in 0 .. MaxFaults, NEW j \in Jobs(f), j.at \in {"queued", "store"},
         NEW rows \in SUBSET Rows, NEW first \in OnePerToken(rows),
         NEW k, k = [j EXCEPT !.at = "fan", !.rows = rows, !.todo = first,
                              !.run = IF j.at = "queued" THEN @ + 1 ELSE @]
  PROVE  k \in Jobs(f)
<1>1. /\ j \in JobRecords /\ RunsCounted(j, f) /\ \A d \in Devices : Queues(j, d)
      /\ f \in Nat /\ MaxFaults \in Nat /\ f <= MaxFaults
  BY RegistryAssumption DEF Jobs
<1>2. /\ j.run \in Int /\ j.private \in BOOLEAN /\ j.lost \subseteq Devices
      /\ j.queued \in [Devices -> Nat]
  BY <1>1 DEF JobRecords
<1>3. /\ k.at = "fan" /\ k.rows = rows /\ k.todo = first /\ k.lost = j.lost
      /\ k.private = j.private /\ k.queued = j.queued
      /\ k.run = IF j.at = "queued" THEN j.run + 1 ELSE j.run
  BY <1>1 DEF JobRecords
<1>4. /\ first \subseteq rows
      /\ \A x \in rows : \E y \in first : /\ y.device = x.device
                                         /\ \A z \in first : z.device = x.device => z = y
  BY DEF OnePerToken
<1>5. k.run \in 1 .. f + 1 /\ k.run \in 0 .. MaxFaults + 1
  <2>1. CASE j.at = "queued"
    <3>1. j.run \in Nat /\ j.run <= f
      BY <1>1, <2>1 DEF RunsCounted, JobRecords
    <3> QED BY <1>1, <1>3, <2>1, <3>1
  <2>2. CASE j.at = "store"
    BY <1>1, <1>3, <2>2 DEF RunsCounted
  <2> QED BY <2>1, <2>2
<1>6. ASSUME NEW d \in Devices PROVE j.queued[d] < k.run /\ j.queued[d] \in Nat
  <2>1. Queues(j, d)
    BY <1>1
  <2> QED BY <1>2, <1>3, <2>1 DEF Queues
<1>7. k \in JobRecords
  <2>1. first \in SUBSET Rows
    BY <1>4
  <2> QED BY <1>1, <1>5, <2>1 DEF JobRecords
<1>8. RunsCounted(k, f) /\ k.todo \subseteq k.rows
  BY <1>3, <1>4, <1>5 DEF RunsCounted
<1>9. ASSUME NEW d \in Devices PROVE Queues(k, d)
  <2>1. k.queued[d] < k.run /\ k.queued[d] <= k.run
    BY <1>2, <1>3, <1>5, <1>6
  <2>2. \A x, y \in k.todo : x.device = d /\ y.device = d => x = y
    BY <1>3, <1>4
  <2>3. (\A x \in k.rows : x.device # d) \/ \E x \in k.todo : x.device = d
    BY <1>3, <1>4
  <2> QED BY <1>3, <2>1, <2>2, <2>3 DEF Queues
<1> QED BY <1>7, <1>8, <1>9 DEF Jobs

\* It reads them from the database.
LEMMA ReadsRows ==
  ASSUME NEW f \in 0 .. MaxFaults, NEW j \in Jobs(f), j.at = "queued",
         NEW rows \in SUBSET Rows,
         NEW k, k = [j EXCEPT !.at = "store", !.rows = rows, !.run = @ + 1]
  PROVE  k \in Jobs(f)
<1>1. /\ j \in JobRecords /\ j.todo \subseteq j.rows /\ RunsCounted(j, f)
      /\ \A d \in Devices : Queues(j, d)
      /\ f \in Nat /\ MaxFaults \in Nat /\ f <= MaxFaults
  BY RegistryAssumption DEF Jobs
<1>2. /\ j.run \in 0 .. f /\ j.queued \in [Devices -> Nat]
      /\ j.private \in BOOLEAN /\ j.lost \subseteq Devices /\ j.todo \in SUBSET Rows
  BY <1>1 DEF JobRecords, RunsCounted
<1>3. /\ k.at = "store" /\ k.rows = rows /\ k.todo = j.todo /\ k.lost = j.lost
      /\ k.private = j.private /\ k.queued = j.queued /\ k.run = j.run + 1
  BY <1>1 DEF JobRecords
<1>4. k.run \in 1 .. f + 1 /\ k.run \in 0 .. MaxFaults + 1
  BY <1>1, <1>2, <1>3
<1>5. k \in JobRecords
  BY <1>1, <1>4, <1>3 DEF JobRecords
<1>6. RunsCounted(k, f) /\ k.todo \subseteq k.rows
  BY <1>1, <1>3, <1>4 DEF RunsCounted
<1>7. ASSUME NEW d \in Devices PROVE Queues(k, d)
  <2>1. j.queued[d] <= j.run /\ j.queued[d] \in Nat
    BY <1>1, <1>2 DEF Queues
  <2> QED BY <1>2, <1>3, <2>1 DEF Queues
<1> QED BY <1>5, <1>6, <1>7 DEF Jobs

\* It passes over a row: another signer's, of a private event.
LEMMA PassesOver ==
  ASSUME NEW f \in 0 .. MaxFaults, NEW j \in Jobs(f), j.at = "fan", NEW row \in j.todo,
         j.private, row.signer \notin Owners,
         NEW k, k = [j EXCEPT !.todo = @ \ {row}]
  PROVE  k \in Jobs(f)
<1>1. /\ j \in JobRecords /\ j.todo \subseteq j.rows /\ RunsCounted(j, f)
      /\ \A d \in Devices : Queues(j, d)
  BY DEF Jobs
<1>2. /\ k.at = j.at /\ k.rows = j.rows /\ k.todo = j.todo \ {row} /\ k.lost = j.lost
      /\ k.private = j.private /\ k.queued = j.queued /\ k.run = j.run /\ k \in JobRecords
  BY <1>1 DEF JobRecords
<1>3. RunsCounted(k, f)
  BY <1>1, <1>2 DEF RunsCounted
<1>4. ASSUME NEW d \in Devices PROVE Queues(k, d)
  <2>1. Queues(j, d)
    BY <1>1
  <2>2. CASE row.device = d
    <3>1. k.private /\ \E x \in k.rows : x.device = d /\ x.signer \notin Owners
      BY <1>1, <1>2, <2>2
    <3> QED BY <1>2, <2>1, <3>1 DEF Queues
  <2>3. CASE row.device # d
    BY <1>2, <2>1, <2>3 DEF Queues
  <2> QED BY <2>2, <2>3
<1> QED BY <1>1, <1>2, <1>3, <1>4 DEF Jobs

\* It queues a delivery, or fails to.
LEMMA QueuesOne ==
  ASSUME NEW f \in 0 .. MaxFaults, NEW j \in Jobs(f), j.at = "fan", NEW row \in j.todo,
         NEW queued \in [Devices -> Nat], queued = [j.queued EXCEPT ![row.device] = @ + 1],
         NEW k, k = [j EXCEPT !.todo = @ \ {row}, !.queued = queued]
  PROVE  k \in Jobs(f)
<1>1. /\ j \in JobRecords /\ j.todo \subseteq j.rows /\ RunsCounted(j, f)
      /\ \A d \in Devices : Queues(j, d)
  BY DEF Jobs
<1>2. row.device \in Devices /\ j.queued \in [Devices -> Nat] /\ j.run \in Int
  BY <1>1, RegistryAssumption DEF JobRecords, Rows
<1>3. \A d \in Devices :
        queued[d] = IF d = row.device THEN j.queued[d] + 1 ELSE j.queued[d]
  BY <1>2
<1>4. /\ k.at = j.at /\ k.rows = j.rows /\ k.todo = j.todo \ {row} /\ k.lost = j.lost
      /\ k.private = j.private /\ k.queued = queued /\ k.run = j.run /\ k \in JobRecords
  BY <1>1 DEF JobRecords
<1>5. RunsCounted(k, f)
  BY <1>1, <1>4 DEF RunsCounted
<1>6. ASSUME NEW d \in Devices PROVE Queues(k, d)
  <2>1. Queues(j, d) /\ j.queued[d] \in Nat
    BY <1>1, <1>2
  <2>2. CASE row.device = d
    <3>1. /\ j.queued[d] < j.run /\ k.queued[d] = j.queued[d] + 1
          /\ \A x \in k.todo : x.device # d
      BY <1>1, <1>3, <1>4, <2>1, <2>2 DEF Queues
    <3> QED BY <1>2, <1>4, <2>1, <3>1 DEF Queues
  <2>3. CASE row.device # d
    BY <1>3, <1>4, <2>1, <2>3 DEF Queues
  <2> QED BY <2>2, <2>3
<1> QED BY <1>1, <1>4, <1>5, <1>6 DEF Jobs

LEMMA LosesOne ==
  ASSUME NEW f \in 0 .. MaxFaults, NEW j \in Jobs(f), j.at = "fan", NEW row \in j.todo,
         NEW k, k = [j EXCEPT !.todo = @ \ {row}, !.lost = @ \union {row.device}]
  PROVE  k \in Jobs(f)
<1>1. /\ j \in JobRecords /\ j.todo \subseteq j.rows /\ RunsCounted(j, f)
      /\ \A d \in Devices : Queues(j, d)
  BY DEF Jobs
<1>2. row.device \in Devices
  BY <1>1 DEF JobRecords, Rows
<1>3. /\ k.at = j.at /\ k.rows = j.rows /\ k.todo = j.todo \ {row}
      /\ k.lost = j.lost \union {row.device}
      /\ k.private = j.private /\ k.queued = j.queued /\ k.run = j.run /\ k \in JobRecords
  BY <1>1, <1>2 DEF JobRecords
<1>4. RunsCounted(k, f)
  BY <1>1, <1>3 DEF RunsCounted
<1>5. ASSUME NEW d \in Devices PROVE Queues(k, d)
  <2>1. Queues(j, d)
    BY <1>1
  <2>2. CASE row.device = d
    BY <1>3, <2>1, <2>2 DEF Queues
  <2>3. CASE row.device # d
    BY <1>3, <2>1, <2>3 DEF Queues
  <2> QED BY <2>2, <2>3
<1> QED BY <1>1, <1>3, <1>4, <1>5 DEF Jobs

\* It is interrupted, and will be run again.
LEMMA RunsAgain ==
  ASSUME NEW f \in 0 .. MaxFaults - 1, NEW j \in Jobs(f), j.at \in {"store", "fan"},
         NEW k, k = [j EXCEPT !.at = "queued", !.rows = {}, !.todo = {}]
  PROVE  k \in Jobs(f + 1)
<1>1. /\ j \in JobRecords /\ RunsCounted(j, f) /\ \A d \in Devices : Queues(j, d)
  BY DEF Jobs
<1>2. /\ k.at = "queued" /\ k.rows = {} /\ k.todo = {} /\ k.lost = j.lost
      /\ k.private = j.private /\ k.queued = j.queued /\ k.run = j.run /\ k \in JobRecords
  BY <1>1 DEF JobRecords
<1>3. RunsCounted(k, f + 1)
  BY <1>1, <1>2 DEF RunsCounted
<1>4. \A d \in Devices : Queues(k, d)
  BY <1>1, <1>2 DEF Queues
<1> QED BY <1>2, <1>3, <1>4 DEF Jobs

\* The steps of a request.
LEMMA AskMoves ==
  ASSUME NEW q \in Asked, q # Idle, NEW found \in SUBSET Signers,
         NEW at \in {"find", "delete", "remove", "clear", "begin", "commit"},
         at \in {"begin", "commit"} => q.signer # Nobody
  PROVE  /\ [q EXCEPT !.at = at] \in Asked
         /\ [q EXCEPT !.at = at, !.found = found] \in Asked
         /\ [q EXCEPT !.found = found] \in Asked
<1>1. q \in Asks /\ Sound(q)
  BY DEF Asked
<1>2. ASSUME NEW k \in Asks, k.signer = q.signer, k.token = q.token, k.delivery = q.delivery,
             k.device = q.device, k.at \in {q.at, at}
      PROVE  k \in Asked
  BY <1>1, <1>2 DEF Sound, Asked
<1>3. /\ [q EXCEPT !.at = at] \in Asks
      /\ [q EXCEPT !.at = at, !.found = found] \in Asks
      /\ [q EXCEPT !.found = found] \in Asks
  BY <1>1 DEF Asks
<1>4. ASSUME NEW k, k = [q EXCEPT !.at = at] \/ k = [q EXCEPT !.at = at, !.found = found]
                    \/ k = [q EXCEPT !.found = found]
      PROVE  /\ k.signer = q.signer /\ k.token = q.token /\ k.delivery = q.delivery
             /\ k.device = q.device /\ k.at \in {q.at, at}
  BY <1>1, <1>4 DEF Asks
<1> QED BY <1>2, <1>3, <1>4

LEMMA AskFields ==
  ASSUME NEW q \in Asked, q # Idle
  PROVE  /\ q \in Asks /\ Sound(q) /\ q.at \in {"find", "delete", "remove", "clear", "begin", "commit"}
         /\ q.device \in Devices /\ q.signer \in Signers \union {Nobody} /\ q.token \in Tokens
         /\ q.found \in SUBSET Signers /\ q.delivery \in {{}} \union {{m} : m \in Deliveries}
BY DEF Asked, Asks

LEMMA NoAskIsIdle == ASSUME NEW q, q.at # "idle" PROVE q # Idle
BY DEF Idle

LEMMA AskBegins ==
  ASSUME RegistryBase, NEW d \in Devices
  PROVE  /\ \A s \in Signers : Registering(d, s) \in Asked
         /\ \A s \in Signers \union {Nobody} : Removing("find", d, s, {}, {}) \in Asked
         /\ \A found \in SUBSET Signers : Removing("remove", d, Nobody, found, {}) \in Asked
         /\ \A m \in Deliveries : m.device = d => Removing("find", d, Nobody, {}, {m}) \in Asked
<1>1. live[d] \in Tokens /\ live[d] # NoToken /\ NoToken \in Tokens /\ Nobody \notin Signers
  BY RegistryAssumption DEF RegistryBase, Tokens, NoToken
<1>2. ASSUME NEW s \in Signers PROVE Registering(d, s) \in Asked
  <2>1. Registering(d, s) \in Asks
    BY <1>1 DEF Registering, Asks
  <2>2. Sound(Registering(d, s))
    BY <1>1 DEF Registering, Sound
  <2> QED BY <2>1, <2>2 DEF Asked
<1>3. ASSUME NEW at \in {"find", "remove"}, NEW s \in Signers \union {Nobody},
             NEW found \in SUBSET Signers, NEW delivery \in {{}} \union {{m} : m \in Deliveries},
             s # Nobody => delivery = {}, \A m \in delivery : m.device = d
      PROVE  Removing(at, d, s, found, delivery) \in Asked
  <2> DEFINE t == IF s = Nobody THEN NoToken ELSE live[d]
  <2>1. t \in Tokens /\ (s # Nobody => t # NoToken)
    BY <1>1
  <2> HIDE DEF t
  <2>2. Removing(at, d, s, found, delivery)
          = [at |-> at, device |-> d, signer |-> s, found |-> found, delivery |-> delivery,
             token |-> t]
    BY DEF Removing, t
  <2>3. Removing(at, d, s, found, delivery) \in Asks
    BY <2>1, <2>2 DEF Asks
  <2>4. Sound(Removing(at, d, s, found, delivery))
    BY <1>3, <2>1, <2>2 DEF Sound
  <2> QED BY <2>3, <2>4 DEF Asked
<1> QED BY <1>2, <1>3

LEMMA RegistrationAsked ==
  ASSUME RegistryBase, NEW r \in Requests, req[r] # Idle
  PROVE  Registration(r) \in Asked
<1>1. req[r] \in Asked
  BY DEF RegistryBase
<1>2. req[r].signer # Nobody => [req[r] EXCEPT !.at = "begin", !.found = {}] \in Asked
  BY <1>1, AskMoves
<1> QED BY <1>2 DEF Registration, Asked

LEMMA RequestsBase ==
  ASSUME RegistryBase, NEW r \in Requests,
         \/ BeginAgain(r) \/ CommitRegister(r) \/ RollBack(r) \/ FindSubscriptions(r)
         \/ DeleteDevice(r) \/ RemoveSubscriptions(r) \/ ClearCached(r) \/ CrashRequest(r)
  PROVE  RegistryBase'
<1>a. req \in [Requests -> Asked] /\ req[r] \in Asked /\ Idle \in Asked
  BY DEF RegistryBase, Asked
<1>1. CASE BeginAgain(r)
  <2>1. req[r] # Idle /\ req[r].at = "begin"
    BY <1>1, NoAskIsIdle DEF BeginAgain
  <2>2. req[r].signer # Nobody
    BY <1>a, <2>1, AskFields DEF Sound
  <2>3. [req[r] EXCEPT !.at = "commit"] \in Asked
    BY <1>a, <2>1, <2>2, AskMoves
  <2>4. req' \in [Requests -> Asked]
    BY <1>1, <1>a, <2>3 DEF BeginAgain
  <2> QED BY <1>1, <2>4 DEF BeginAgain, RemoveCached, RegistryBase, devices
<1>2. CASE CommitRegister(r)
  <2> DEFINE d == req[r].device  s == req[r].signer
  <2>1. req[r] # Idle /\ req[r].at = "commit"
    BY <1>2, NoAskIsIdle DEF CommitRegister
  <2>2. /\ d \in Devices /\ s \in Signers /\ Sound(req[r])
        /\ req[r].token \in Tokens \ {NoToken}
    BY <1>a, <2>1, AskFields DEF Sound
  <2>3. /\ token' = [token EXCEPT ![d] = req[r].token]
        /\ subs' = [subs EXCEPT ![d] = (@ \ {Anyone}) \union {s}]
        /\ late' = (late \/ entry # NotCached)
        /\ settled' = [settled EXCEPT ![d] =
             IF req[r].token = live[d] /\ NoTrace(d, r) THEN s ELSE Nobody]
        /\ UNCHANGED <<live, entry, job, outbox, faults>>
        /\ req' = [q \in Requests |->
             IF q = r THEN Idle
             ELSE IF req[q].at = "remove" /\ req[q].device = d
             THEN [req[q] EXCEPT !.found = @ \ {s, Anyone}] ELSE req[q]]
    BY <1>2 DEF CommitRegister, UpsertDevice
  <2>4. ASSUME NEW q \in Requests, req[q].at = "remove"
        PROVE  [req[q] EXCEPT !.found = @ \ {s, Anyone}] \in Asked
    <3>1. req[q] \in Asked /\ req[q] # Idle
      BY <1>a, <2>4, NoAskIsIdle
    <3>2. req[q].found \ {s, Anyone} \in SUBSET Signers
      BY <3>1, AskFields
    <3> QED BY <3>1, <3>2, AskMoves
  <2> HIDE DEF d, s
  <2>5. req' \in [Requests -> Asked]
    BY <1>a, <2>3, <2>4
  <2>6. /\ token' \in [Devices -> Tokens] /\ subs' \in [Devices -> SUBSET Signers]
        /\ \A o \in Devices : token'[o] = NoToken => subs'[o] = {}
    BY <2>2, <2>3 DEF RegistryBase
  <2>7. settled' \in [Devices -> Signers \union {Nobody}] /\ late' \in BOOLEAN
    BY <2>2, <2>3 DEF RegistryBase
  <2> QED BY <2>3, <2>5, <2>6, <2>7 DEF RegistryBase
<1>3. CASE RollBack(r)
  <2>1. /\ UNCHANGED <<live, token, subs, entry, job, outbox, late, settled>>
        /\ faults < MaxFaults /\ faults' = faults + 1
        /\ req' = [req EXCEPT ![r] = Idle]
    BY <1>3 DEF RollBack, Fault, devices
  <2>2. faults' \in 0 .. MaxFaults /\ job' \in [Events -> Jobs(faults')]
    BY <2>1, JobsGrow, RegistryAssumption DEF RegistryBase
  <2>3. req' \in [Requests -> Asked]
    BY <1>a, <2>1
  <2> QED BY <2>1, <2>2, <2>3 DEF RegistryBase
<1>4. CASE FindSubscriptions(r)
  <2>1. req[r] # Idle /\ req[r].at = "find"
    BY <1>4, NoAskIsIdle DEF FindSubscriptions
  <2>2. subs[req[r].device] \in SUBSET Signers
    BY <1>a, <2>1, AskFields DEF RegistryBase
  <2>3. [req[r] EXCEPT !.at = "delete", !.found = subs[req[r].device]] \in Asked
    BY <1>a, <2>1, <2>2, AskMoves
  <2>4. req' \in [Requests -> Asked]
    BY <1>4, <1>a, <2>3 DEF FindSubscriptions
  <2> QED BY <1>4, <2>4 DEF FindSubscriptions, RegistryBase, devices
<1>5. CASE DeleteDevice(r)
  <2> DEFINE d == req[r].device
  <2>1. req[r] # Idle /\ req[r].at = "delete"
    BY <1>5, NoAskIsIdle DEF DeleteDevice
  <2>2. d \in Devices
    BY <1>a, <2>1, AskFields
  <2>3. /\ token' = [token EXCEPT ![d] = NoToken] /\ subs' = [subs EXCEPT ![d] = {}]
        /\ late' = (late \/ (req[r].found = {} /\ subs[d] # {} /\ entry # NotCached))
        /\ UNCHANGED <<live, entry, job, outbox, settled, faults>>
        /\ req' = [q \in Requests |->
             IF q = r
             THEN IF token[d] = NoToken THEN Idle
                  ELSE IF req[r].found = {} THEN Registration(r)
                       ELSE [req[r] EXCEPT !.at = "clear", !.found = {}]
             ELSE IF req[q].at = "remove" /\ req[q].device = d
             THEN [req[q] EXCEPT !.found = {}] ELSE req[q]]
    BY <1>5 DEF DeleteDevice
  <2>4. ASSUME NEW q \in Requests, req[q].at = "remove"
        PROVE  [req[q] EXCEPT !.found = {}] \in Asked
    <3>1. req[q] \in Asked /\ req[q] # Idle
      BY <1>a, <2>4, NoAskIsIdle
    <3> QED BY <3>1, AskMoves
  <2>5. [req[r] EXCEPT !.at = "clear", !.found = {}] \in Asked /\ Registration(r) \in Asked
    BY <1>a, <2>1, AskMoves, RegistrationAsked
  <2> HIDE DEF d
  <2>6. req' \in [Requests -> Asked]
    BY <1>a, <2>3, <2>4, <2>5
  <2>7. NoToken \in Tokens
    BY RegistryAssumption DEF Tokens, NoToken
  <2>8. /\ token' \in [Devices -> Tokens] /\ subs' \in [Devices -> SUBSET Signers]
        /\ \A o \in Devices : token'[o] = NoToken => subs'[o] = {}
    BY <2>2, <2>3, <2>7 DEF RegistryBase
  <2>9. late' \in BOOLEAN
    BY <2>3 DEF RegistryBase
  <2> QED BY <2>3, <2>6, <2>8, <2>9 DEF RegistryBase
<1>6. CASE RemoveSubscriptions(r)
  <2>1. req[r] # Idle /\ req[r].at = "remove"
    BY <1>6, NoAskIsIdle DEF RemoveSubscriptions
  <2>2. req[r].device \in Devices
    BY <1>a, <2>1, AskFields
  <2>3. [req[r] EXCEPT !.at = "clear", !.found = {}] \in Asked
    BY <1>a, <2>1, AskMoves
  <2>4. req' \in [Requests -> Asked]
    BY <1>6, <1>a, <2>3 DEF RemoveSubscriptions
  <2>5. /\ subs' \in [Devices -> SUBSET Signers]
        /\ \A o \in Devices : token[o] = NoToken => subs'[o] = {}
    BY <1>6, <2>2 DEF RemoveSubscriptions, RegistryBase
  <2> QED BY <1>6, <2>4, <2>5 DEF RemoveSubscriptions, RegistryBase
<1>7. CASE ClearCached(r)
  <2>1. req[r] # Idle
    BY <1>7, NoAskIsIdle DEF ClearCached
  <2>2. req' \in [Requests -> Asked]
    BY <1>7, <1>a, <2>1, RegistrationAsked DEF ClearCached
  <2> QED BY <1>7, <2>2 DEF ClearCached, RemoveCached, RegistryBase, devices
<1>8. CASE CrashRequest(r)
  <2>1. /\ UNCHANGED <<live, token, subs, entry, job, settled>>
        /\ faults < MaxFaults /\ faults' = faults + 1
        /\ req[r] # Idle /\ req' = [req EXCEPT ![r] = Idle]
        /\ outbox' = outbox \union req[r].delivery
        /\ late' = (late \/ (req[r].at = "clear" /\ entry # NotCached))
    BY <1>8 DEF CrashRequest, Fault, devices
  <2>2. faults' \in 0 .. MaxFaults /\ job' \in [Events -> Jobs(faults')]
    BY <2>1, JobsGrow, RegistryAssumption DEF RegistryBase
  <2>3. req' \in [Requests -> Asked]
    BY <1>a, <2>1
  <2>4. outbox' \subseteq Deliveries
    BY <1>a, <2>1, AskFields DEF RegistryBase
  <2>5. late' \in BOOLEAN
    BY <2>1 DEF RegistryBase
  <2> QED BY <2>1, <2>2, <2>3, <2>4, <2>5 DEF RegistryBase
<1> QED BY <1>1, <1>2, <1>3, <1>4, <1>5, <1>6, <1>7, <1>8

LEMMA BegunBase ==
  ASSUME RegistryBase, NEW r \in Requests,
         \/ \E d \in Devices :
              \/ \E s \in Signers : BeginRegister(r, d, s)
              \/ \E s \in Signers \union {Nobody} : Unregister(r, d, s)
              \/ \E found \in SUBSET Signers : FindToRemove(r, d, found)
         \/ \E m \in outbox : Unregistered(m, r)
  PROVE  RegistryBase'
<1>a. req \in [Requests -> Asked]
  BY DEF RegistryBase
<1>1. ASSUME NEW d \in Devices, NEW s \in Signers, BeginRegister(r, d, s) PROVE RegistryBase'
  <2>1. req' \in [Requests -> Asked]
    BY <1>1, <1>a, AskBegins DEF BeginRegister
  <2> QED BY <1>1, <2>1 DEF BeginRegister, RemoveCached, RegistryBase, devices
<1>2. ASSUME NEW d \in Devices, NEW s \in Signers \union {Nobody}, Unregister(r, d, s)
      PROVE  RegistryBase'
  <2>1. req' \in [Requests -> Asked]
    BY <1>2, <1>a, AskBegins DEF Unregister
  <2> QED BY <1>2, <2>1 DEF Unregister, RegistryBase, devices
<1>3. ASSUME NEW d \in Devices, NEW found \in SUBSET Signers, FindToRemove(r, d, found)
      PROVE  RegistryBase'
  <2>1. req' \in [Requests -> Asked]
    BY <1>3, <1>a, AskBegins DEF FindToRemove
  <2> QED BY <1>3, <2>1 DEF FindToRemove, RegistryBase, devices
<1>4. ASSUME NEW m \in outbox, Unregistered(m, r) PROVE RegistryBase'
  <2>1. m \in Deliveries /\ m.device \in Devices
    BY DEF RegistryBase, Deliveries
  <2>2. Removing("find", m.device, Nobody, {}, {m}) \in Asked
    BY <2>1, AskBegins
  <2>3. req' \in [Requests -> Asked]
    BY <1>4, <1>a, <2>2 DEF Unregistered
  <2> QED BY <1>4, <2>3 DEF Unregistered, RegistryBase, devices
<1> QED BY <1>1, <1>2, <1>3, <1>4

LEMMA DevicesBase ==
  ASSUME RegistryBase,
         Expire \/ (\E d \in Devices : Rotate(d)) \/ \E m \in outbox : Deliver(m)
  PROVE  RegistryBase'
<1>1. CASE Expire
  BY <1>1 DEF Expire, RemoveCached, RegistryBase, devices
<1>2. ASSUME NEW d \in Devices, Rotate(d) PROVE RegistryBase'
  <2>1. live[d] \in Tokens \ {NoToken}
    BY DEF RegistryBase
  <2>2. live[d] + 1 \in Tokens \ {NoToken}
    BY <1>2, <2>1, RegistryAssumption DEF Rotate, Tokens, NoToken
  <2>3. live' \in [Devices -> Tokens \ {NoToken}]
    BY <1>2, <2>2 DEF Rotate, RegistryBase
  <2> QED BY <1>2, <2>3 DEF Rotate, RegistryBase, devices
<1>3. ASSUME NEW m \in outbox, Deliver(m) PROVE RegistryBase'
  BY <1>3 DEF Deliver, RegistryBase, devices
<1> QED BY <1>1, <1>2, <1>3

LEMMA JobsBase ==
  ASSUME RegistryBase, NEW e \in Events,
         \/ ReadCached(e) \/ ReadDatabase(e) \/ StoreRows(e) \/ FinishEvent(e) \/ CrashJob(e)
         \/ \E row \in job[e].todo : EnqueueDelivery(e, row)
  PROVE  RegistryBase'
<1>a. /\ job \in [Events -> Jobs(faults)] /\ job[e] \in Jobs(faults) /\ faults \in 0 .. MaxFaults
  BY DEF RegistryBase
<1>b. Subscribers \subseteq Rows
  BY DEF Subscribers
<1>1. ASSUME NEW rows \in SUBSET Rows, FanOut(e, rows), job[e].at \in {"queued", "store"}
      PROVE  job' \in [Events -> Jobs(faults)]
  <2>1. PICK first \in OnePerToken(rows) :
          job' = [job EXCEPT ![e].at = "fan", ![e].rows = rows, ![e].todo = first,
                       ![e].run = IF job[e].at = "queued" THEN @ + 1 ELSE @]
    BY <1>1 DEF FanOut
  <2>2. [job[e] EXCEPT !.at = "fan", !.rows = rows, !.todo = first,
                       !.run = IF job[e].at = "queued" THEN @ + 1 ELSE @] \in Jobs(faults)
    BY <1>a, <1>1, FansOut
  <2> QED BY <1>a, <2>1, <2>2
<1>2. CASE ReadCached(e)
  <2>1. entry \in SUBSET Rows
    BY <1>2 DEF ReadCached, RegistryBase
  <2>2. job' \in [Events -> Jobs(faults)]
    BY <1>1, <1>2, <2>1 DEF ReadCached
  <2> QED BY <1>2, <2>2 DEF ReadCached, RegistryBase, devices
<1>3. CASE ReadDatabase(e)
  <2>1. [job[e] EXCEPT !.at = "store", !.rows = Subscribers, !.run = @ + 1] \in Jobs(faults)
    BY <1>a, <1>b, <1>3, ReadsRows DEF ReadDatabase
  <2>2. job' \in [Events -> Jobs(faults)]
    BY <1>a, <1>3, <2>1 DEF ReadDatabase
  <2> QED BY <1>3, <2>2 DEF ReadDatabase, RegistryBase, devices
<1>4. CASE StoreRows(e)
  <2>1. job[e].rows \in SUBSET Rows
    BY <1>a DEF Jobs, JobRecords
  <2>2. job' \in [Events -> Jobs(faults)]
    BY <1>1, <1>4, <2>1 DEF StoreRows
  <2>3. entry' \subseteq Rows /\ late' \in BOOLEAN
    BY <1>4, <2>1 DEF StoreRows
  <2> QED BY <1>4, <2>2, <2>3 DEF StoreRows, RegistryBase, devices
<1>5. CASE FinishEvent(e)
  <2>1. [NewJob(FALSE) EXCEPT !.at = "done"] \in Jobs(faults)
    BY <1>a, NewJobSound
  <2>2. job' \in [Events -> Jobs(faults)]
    BY <1>a, <1>5, <2>1 DEF FinishEvent
  <2> QED BY <1>5, <2>2 DEF FinishEvent, RegistryBase, devices
<1>6. CASE CrashJob(e)
  <2>1. faults < MaxFaults /\ faults' = faults + 1 /\ job[e].at \in {"store", "fan"}
    BY <1>6 DEF CrashJob, Fault
  <2>2. faults \in 0 .. MaxFaults - 1 /\ faults' \in 0 .. MaxFaults
    BY <1>a, <2>1, RegistryAssumption
  <2>3. [job[e] EXCEPT !.at = "queued", !.rows = {}, !.todo = {}] \in Jobs(faults')
    BY <1>a, <2>1, <2>2, RunsAgain
  <2>4. \A i \in Events : job[i] \in Jobs(faults')
    BY <1>a, <2>1, <2>2, JobsGrow
  <2>5. job' \in [Events -> Jobs(faults')]
    BY <1>a, <1>6, <2>3, <2>4 DEF CrashJob
  <2> QED BY <1>6, <2>2, <2>5 DEF CrashJob, RegistryBase, devices
<1>7. ASSUME NEW row \in job[e].todo, EnqueueDelivery(e, row) PROVE RegistryBase'
  <2>1. /\ job[e].at = "fan" /\ UNCHANGED <<live, token, subs, entry, req, late, settled>>
    BY <1>7 DEF EnqueueDelivery, devices
  <2>2. /\ row \in Rows /\ row.device \in Devices /\ row.token \in Tokens
        /\ job[e].run \in 1 .. MaxFaults + 1 /\ job[e].queued \in [Devices -> Nat]
    <3>1. job[e].run \in 1 .. faults + 1 /\ row \in Rows /\ job[e].queued \in [Devices -> Nat]
      BY <1>a, <2>1 DEF Jobs, RunsCounted, JobRecords
    <3>2. row.device \in Devices /\ row.token \in Tokens
      BY <3>1 DEF Rows
    <3> QED BY <1>a, <3>1, <3>2, RegistryAssumption
  <2>3. CASE job[e].private /\ row.signer \notin Owners
    <3>1. job' = [job EXCEPT ![e].todo = @ \ {row}] /\ UNCHANGED <<outbox, faults>>
      BY <1>7, <2>3 DEF EnqueueDelivery
    <3>2. [job[e] EXCEPT !.todo = @ \ {row}] \in Jobs(faults)
      BY <1>a, <2>1, <2>3, PassesOver
    <3>3. job' \in [Events -> Jobs(faults)]
      BY <1>a, <3>1, <3>2
    <3> QED BY <2>1, <3>1, <3>3 DEF RegistryBase
  <2>4. ASSUME outbox' = outbox \union {[event |-> e, device |-> row.device,
                                         token |-> row.token, run |-> job[e].run]},
               job' = [job EXCEPT ![e].todo = @ \ {row}, ![e].queued[row.device] = @ + 1],
               UNCHANGED faults
        PROVE  RegistryBase'
    <3>1. outbox' \subseteq Deliveries
      BY <2>2, <2>4 DEF Deliveries, RegistryBase
    <3>2. PICK queued \in [Devices -> Nat] : queued = [job[e].queued EXCEPT ![row.device] = @ + 1]
      <4>1. ASSUME NEW before \in [Devices -> Nat], NEW d \in Devices
            PROVE  [before EXCEPT ![d] = @ + 1] \in [Devices -> Nat]
        OBVIOUS
      <4> QED BY <2>2, <4>1
    <3>3. [job[e] EXCEPT !.todo = @ \ {row}, !.queued = queued] \in Jobs(faults)
      BY <1>a, <2>1, <3>2, QueuesOne
    <3>4. job' = [job EXCEPT ![e] = [job[e] EXCEPT !.todo = @ \ {row}, !.queued = queued]]
      BY <2>4, <3>2
    <3>5. job' \in [Events -> Jobs(faults)]
      BY <1>a, <3>3, <3>4
    <3> QED BY <2>1, <2>4, <3>1, <3>5 DEF RegistryBase
  <2>5. ASSUME Fault, UNCHANGED outbox,
               job' = [job EXCEPT ![e].todo = @ \ {row}, ![e].lost = @ \union {row.device}]
        PROVE  RegistryBase'
    <3>1. faults < MaxFaults /\ faults' = faults + 1 /\ faults' \in 0 .. MaxFaults
      BY <1>a, <2>5, RegistryAssumption DEF Fault
    <3>2. [job[e] EXCEPT !.todo = @ \ {row}, !.lost = @ \union {row.device}] \in Jobs(faults)
      BY <1>a, <2>1, LosesOne
    <3>3. job' \in [Events -> Jobs(faults)]
      BY <1>a, <2>5, <3>2
    <3>4. job' \in [Events -> Jobs(faults')]
      BY <1>a, <3>1, <3>3, JobsGrow
    <3> QED BY <2>1, <2>5, <3>1, <3>4 DEF RegistryBase
  <2> QED BY <1>7, <2>3, <2>4, <2>5 DEF EnqueueDelivery
<1> QED BY <1>2, <1>3, <1>4, <1>5, <1>6, <1>7

LEMMA RegistryBaseStep == RegistryBase /\ [Next]_vars => RegistryBase'
<1> SUFFICES ASSUME RegistryBase, [Next]_vars PROVE RegistryBase'
  OBVIOUS
<1>1. CASE UNCHANGED vars
  BY <1>1 DEF vars, devices, RegistryBase
<1>2. CASE Next
  BY <1>2, RequestsBase, BegunBase, DevicesBase, JobsBase DEF Next
<1> QED BY <1>1, <1>2

LEMMA RegistryInvariant == Spec => []RegistryBase
<1> QED BY RegistryBaseInit, RegistryBaseStep, PTL DEF Spec

\* Type correctness of the devices: in particular that a device which is deleted has no
\* subscriptions, whoever deletes, registers and removes at once.
THEOREM RegistryTypeCorrect == Spec => []TypeOK
<1> QED BY RegistryInvariant, RegistryBaseTypes, PTL

-----------------------------------------------------------------------------
(* What a job has delivered, whom the cache lists, who stays registered.     *)

\* Each device is delivered to once in a run, unless its delivery was lost or not for its
\* signers (processEvent): `Queues` is part of what a job can be.
THEOREM DeliveriesOnce == Spec => []DeliveriesAsSubscribed
<1>1. RegistryBase => DeliveriesAsSubscribed
  <2> SUFFICES ASSUME RegistryBase, NEW e \in Events, NEW d \in Devices
               PROVE  LET signers == {row.signer : row \in {x \in job[e].rows : x.device = d}}
                      IN  /\ job[e].queued[d] <= job[e].run
                          /\ (job[e].at = "fan" /\ job[e].todo = {} /\ signers # {}
                              /\ d \notin job[e].lost
                              /\ (job[e].private => signers \subseteq Owners))
                             => job[e].queued[d] > 0
    BY DEF DeliveriesAsSubscribed
  <2>1. Queues(job[e], d)
    BY DEF RegistryBase, Jobs
  <2> DEFINE signers == {row.signer : row \in {x \in job[e].rows : x.device = d}}
  <2>2. signers # {} => \E x \in job[e].rows : x.device = d
    OBVIOUS
  <2>3. signers \subseteq Owners => \A x \in job[e].rows : x.device = d => x.signer \in Owners
    OBVIOUS
  <2> HIDE DEF signers
  <2>4. /\ job[e].queued[d] <= job[e].run
        /\ (job[e].at = "fan" /\ job[e].todo = {} /\ signers # {} /\ d \notin job[e].lost
            /\ (job[e].private => signers \subseteq Owners)) => job[e].queued[d] > 0
    BY <2>1, <2>2, <2>3 DEF Queues
  <2> QED BY <2>4 DEF signers
<1> QED BY <1>1, RegistryInvariant, PTL

\* Rows of a device without subscriptions are none, whatever its token.
LEMMA SubscribersStay ==
  ASSUME NEW d \in Devices, subs[d] = {}, subs'[d] = {},
         \A o \in Devices \ {d} : token'[o] = token[o] /\ subs'[o] = subs[o]
  PROVE  Subscribers' = Subscribers
<1>1. ASSUME NEW row \in Rows
      PROVE  (row.signer \in subs'[row.device] /\ row.token = token'[row.device])
               <=> (row.signer \in subs[row.device] /\ row.token = token[row.device])
  <2>1. row.device \in Devices
    BY DEF Rows
  <2> QED BY <2>1
<1> QED BY <1>1 DEF Subscribers

LEMMA SubscribersStep ==
  RegistryBase /\ CachedSubscribersCurrent /\ [Next]_vars => CachedSubscribersCurrent'
<1> SUFFICES ASSUME RegistryBase, CachedSubscribersCurrent, [Next]_vars
             PROVE  CachedSubscribersCurrent'
  OBVIOUS
<1>a. req \in [Requests -> Asked]
  BY DEF RegistryBase
<1>b. entry = NotCached \/ entry = Subscribers \/ late \/ \E r \in Requests : req[r].at = "clear"
  BY DEF CachedSubscribersCurrent
<1> SUFFICES \/ entry' = NotCached \/ entry' = Subscribers' \/ late'
             \/ \E r \in Requests : req'[r].at = "clear"
  BY DEF CachedSubscribersCurrent
<1>1. CASE RemoveCached
  BY <1>1 DEF RemoveCached
<1>2. ASSUME UNCHANGED <<token, subs, entry, late>>,
             \A r \in Requests : req[r].at = "clear" => req'[r].at = "clear"
      PROVE  \/ entry' = NotCached \/ entry' = Subscribers' \/ late'
             \/ \E r \in Requests : req'[r].at = "clear"
  <2>1. Subscribers' = Subscribers
    BY <1>2 DEF Subscribers
  <2> QED BY <1>2, <1>b, <2>1
<1>3. ASSUME NEW r \in Requests,
             \/ RollBack(r) \/ FindSubscriptions(r)
             \/ \E d \in Devices :
                  \/ \E s \in Signers \union {Nobody} : Unregister(r, d, s)
                  \/ \E found \in SUBSET Signers : FindToRemove(r, d, found)
             \/ \E m \in outbox : Unregistered(m, r)
      PROVE  \/ entry' = NotCached \/ entry' = Subscribers' \/ late'
             \/ \E q \in Requests : req'[q].at = "clear"
  <2>1. UNCHANGED <<token, subs, entry, late>>
    BY <1>3 DEF RollBack, FindSubscriptions, Unregister, FindToRemove, Unregistered, devices
  <2>3. req[r].at # "clear"
    <3>1. req[r] = Idle \/ req[r].at \in {"commit", "find"}
      BY <1>3 DEF RollBack, FindSubscriptions, Unregister, FindToRemove, Unregistered
    <3> QED BY <3>1 DEF Idle
  <2>2. \A q \in Requests \ {r} : req'[q] = req[q]
    BY <1>3, <1>a DEF RollBack, FindSubscriptions, Unregister, FindToRemove, Unregistered
  <2> QED BY <1>2, <2>1, <2>2, <2>3
<1>4. ASSUME NEW r \in Requests, CommitRegister(r)
      PROVE  entry' = NotCached \/ late'
  BY <1>4 DEF CommitRegister
<1>5. ASSUME NEW r \in Requests, DeleteDevice(r)
      PROVE  \/ entry' = NotCached \/ entry' = Subscribers' \/ late'
             \/ \E q \in Requests : req'[q].at = "clear"
  <2> DEFINE d == req[r].device
  <2>1. req[r] # Idle /\ req[r].at = "delete" /\ req[r] \in Asks
    BY <1>5, <1>a, NoAskIsIdle DEF DeleteDevice, Asked
  <2>2. d \in Devices
    BY <2>1 DEF Asks
  <2>3. /\ token' = [token EXCEPT ![d] = NoToken] /\ subs' = [subs EXCEPT ![d] = {}]
        /\ late' = (late \/ (req[r].found = {} /\ subs[d] # {} /\ entry # NotCached))
        /\ entry' = entry
    BY <1>5 DEF DeleteDevice
  <2>4. req[r].found # {} /\ token[d] # NoToken => req'[r].at = "clear"
    <3>1. ASSUME req[r].found # {}, token[d] # NoToken
          PROVE  req'[r] = [req[r] EXCEPT !.at = "clear", !.found = {}]
      BY <1>5, <3>1 DEF DeleteDevice
    <3> QED BY <2>1, <3>1 DEF Asks
  <2>5. \A q \in Requests : req[q].at = "clear" => req'[q].at = "clear"
    BY <1>5, <2>1 DEF DeleteDevice
  <2> HIDE DEF d
  <2>6. CASE subs[d] # {}
    <3>1. token[d] # NoToken
      BY <2>2, <2>6 DEF RegistryBase
    <3> QED BY <2>3, <2>4, <2>6, <3>1
  <2>7. CASE subs[d] = {}
    <3>1. /\ subs'[d] = {}
          /\ \A o \in Devices \ {d} : token'[o] = token[o] /\ subs'[o] = subs[o]
      BY <2>2, <2>3 DEF RegistryBase
    <3>2. Subscribers' = Subscribers
      BY <2>2, <2>7, <3>1, SubscribersStay
    <3> QED BY <1>b, <2>3, <2>5, <3>2
  <2> QED BY <2>6, <2>7
<1>6. ASSUME NEW r \in Requests, RemoveSubscriptions(r) PROVE req'[r].at = "clear"
  <2>1. req[r] # Idle /\ req[r] \in Asks
    BY <1>6, <1>a, NoAskIsIdle DEF RemoveSubscriptions, Asked
  <2>2. req'[r] = [req[r] EXCEPT !.at = "clear", !.found = {}]
    BY <1>6, <1>a DEF RemoveSubscriptions
  <2> QED BY <2>1, <2>2 DEF Asks
<1>7. ASSUME NEW r \in Requests, CrashRequest(r)
      PROVE  \/ entry' = NotCached \/ entry' = Subscribers' \/ late'
             \/ \E q \in Requests : req'[q].at = "clear"
  <2>1. /\ UNCHANGED <<token, subs, entry>>
        /\ late' = (late \/ (req[r].at = "clear" /\ entry # NotCached))
        /\ \A q \in Requests \ {r} : req'[q] = req[q]
    BY <1>7, <1>a DEF CrashRequest, devices
  <2>2. Subscribers' = Subscribers
    BY <2>1 DEF Subscribers
  <2> QED BY <1>b, <2>1, <2>2
<1>8. ASSUME NEW e \in Events, StoreRows(e)
      PROVE  entry' = Subscribers' \/ late'
  <2>1. Subscribers' = Subscribers
    BY <1>8 DEF StoreRows, Subscribers, devices
  <2> QED BY <1>8, <2>1 DEF StoreRows
<1>9. ASSUME NEW e \in Events,
             \/ ReadCached(e) \/ ReadDatabase(e) \/ FinishEvent(e) \/ CrashJob(e)
             \/ \E row \in job[e].todo : EnqueueDelivery(e, row)
      PROVE  UNCHANGED <<token, subs, entry, late, req>>
  BY <1>9 DEF ReadCached, ReadDatabase, FinishEvent, CrashJob, EnqueueDelivery, devices
<1>10. ASSUME (\E d \in Devices : Rotate(d)) \/ (\E m \in outbox : Deliver(m)) \/ UNCHANGED vars
       PROVE  UNCHANGED <<token, subs, entry, late, req>>
  BY <1>10 DEF Rotate, Deliver, vars, devices
<1>11. ASSUME NEW r \in Requests,
              BeginAgain(r) \/ ClearCached(r) \/ \E d \in Devices, s \in Signers : BeginRegister(r, d, s)
       PROVE  RemoveCached
  BY <1>11 DEF BeginAgain, ClearCached, BeginRegister
<1>12. ASSUME Expire PROVE RemoveCached
  BY <1>12 DEF Expire
<1> QED
  BY <1>1, <1>2, <1>3, <1>4, <1>5, <1>6, <1>7, <1>8, <1>9, <1>10, <1>11, <1>12 DEF Next

\* Outdated subscribers are cached only in the four ways the property excepts
\* (getSubscribersBySafe, removeGetSubscribersBySafeCache).
THEOREM SubscribersCurrent == Spec => []CachedSubscribersCurrent
<1>1. Init => CachedSubscribersCurrent
  BY DEF Init, CachedSubscribersCurrent
<1> QED BY <1>1, SubscribersStep, RegistryInvariant, PTL DEF Spec

-----------------------------------------------------------------------------
(* Devices: a settled registration.  Nothing under way knows another token of  *)
(* the device, and what its apps have under way registers it again.           *)

UpToDate(rows, d) == \A x \in rows : x.device = d => x.token = live[d]

Settled(d) ==
  /\ token[d] = live[d] /\ settled[d] \in subs[d]
  /\ UpToDate(outbox, d)
  /\ entry = NotCached \/ UpToDate(entry, d)
  /\ \A e \in Events : job[e].at \in {"store", "fan"} => UpToDate(job[e].rows, d)
  /\ \A r \in Requests : req[r] # Idle /\ req[r].device = d => req[r].at = "commit"

AllSettled == \A d \in Devices : settled[d] # Nobody => Settled(d)

\* What a step may do to a settled device, and leave it settled.
LEMMA StaysSettled ==
  ASSUME NEW d \in Devices, Settled(d),
         live'[d] = live[d], token'[d] = token[d], settled'[d] = settled[d],
         subs'[d] = subs[d],
         entry' = entry \/ entry' = NotCached \/ UpToDate(entry, d)',
         \A m \in outbox' : m \in outbox \/ m.device # d \/ m.token = live[d],
         \A e \in Events : \/ job'[e] = job[e] \/ job'[e].at \in {"queued", "done"}
                           \/ UpToDate(job[e].rows, d)',
         \A r \in Requests : \/ req'[r] = req[r] \/ req'[r] = Idle
                             \/ req'[r].device # d \/ req'[r].at = "commit"
  PROVE  Settled(d)'
<1>1. UpToDate(outbox, d)'
  BY DEF Settled, UpToDate
<1>2. entry' = NotCached \/ UpToDate(entry, d)'
  BY DEF Settled, UpToDate
<1>3. ASSUME NEW e \in Events, job'[e].at \in {"store", "fan"}
      PROVE  UpToDate(job[e].rows, d)'
  BY <1>3 DEF Settled, UpToDate
<1>4. ASSUME NEW r \in Requests, req'[r] # Idle, req'[r].device = d
      PROVE  req'[r].at = "commit"
  BY <1>4 DEF Settled
<1>5. token'[d] = live'[d] /\ settled'[d] \in subs'[d]
  BY DEF Settled
<1> QED BY <1>1, <1>2, <1>3, <1>4, <1>5 DEF Settled

\* A registration that finds no trace of another token settles its device.
LEMMA CommitSettles ==
  ASSUME RegistryBase, NEW r \in Requests, CommitRegister(r), NEW d \in Devices,
         req[r].device = d, settled'[d] # Nobody
  PROVE  Settled(d)'
<1>1. /\ token' = [token EXCEPT ![d] = req[r].token]
      /\ subs' = [subs EXCEPT ![d] = (@ \ {Anyone}) \union {req[r].signer}]
      /\ settled' = [settled EXCEPT ![d] =
           IF req[r].token = live[d] /\ NoTrace(d, r) THEN req[r].signer ELSE Nobody]
      /\ UNCHANGED <<live, entry, job, outbox>>
      /\ req' = [q \in Requests |->
           IF q = r THEN Idle
           ELSE IF req[q].at = "remove" /\ req[q].device = d
           THEN [req[q] EXCEPT !.found = @ \ {req[r].signer, Anyone}] ELSE req[q]]
  BY DEF CommitRegister, UpsertDevice
<1>2. settled'[d] = IF req[r].token = live[d] /\ NoTrace(d, r) THEN req[r].signer ELSE Nobody
  BY <1>1 DEF RegistryBase
<1>3. req[r].token = live[d] /\ NoTrace(d, r) /\ settled'[d] = req[r].signer
  BY <1>2
<1>4. token'[d] = live'[d] /\ settled'[d] \in subs'[d]
  BY <1>1, <1>3 DEF RegistryBase
<1>5. UpToDate(outbox, d)' /\ (entry' = NotCached \/ UpToDate(entry, d)')
  BY <1>1, <1>3 DEF NoTrace, UpToDate
<1>6. \A e \in Events : job'[e].at \in {"store", "fan"} => UpToDate(job[e].rows, d)'
  BY <1>1, <1>3 DEF NoTrace, UpToDate
<1>7. ASSUME NEW q \in Requests, req'[q] # Idle, req'[q].device = d
      PROVE  FALSE
  <2>1. q # r
    BY <1>1, <1>7
  <2>2. req[q] = Idle \/ req[q].device # d
    BY <1>3, <2>1 DEF NoTrace
  <2>3. req[q] = Idle => req[q].at # "remove"
    BY DEF Idle
  <2>4. req'[q] = req[q]
    BY <1>1, <2>1, <2>2, <2>3
  <2> QED BY <1>7, <2>2, <2>4
<1> QED BY <1>4, <1>5, <1>6, <1>7 DEF Settled

\* The steps of requests.  Those of a settled device are all at their commit.
LEMMA RequestsSettled ==
  ASSUME RegistryBase, AllSettled, NEW d \in Devices, settled'[d] # Nobody, NEW r \in Requests,
         \/ BeginAgain(r) \/ CommitRegister(r) \/ RollBack(r) \/ FindSubscriptions(r)
         \/ DeleteDevice(r) \/ RemoveSubscriptions(r) \/ ClearCached(r) \/ CrashRequest(r)
  PROVE  Settled(d)'
<1>a. req \in [Requests -> Asked] /\ req[r] \in Asked
  BY DEF RegistryBase
<1>b. ASSUME NEW q \in Requests, req[q] # Idle, NEW found, NEW at
      PROVE  /\ [req[q] EXCEPT !.at = at].device = req[q].device
             /\ [req[q] EXCEPT !.found = found].device = req[q].device
             /\ [req[q] EXCEPT !.at = at, !.found = found].device = req[q].device
  BY <1>a, <1>b DEF Asked, Asks
<1>c. ASSUME req[r] # Idle, settled' = settled, req[r].at # "commit"
      PROVE  Settled(d) /\ req[r].device # d
  BY <1>c DEF AllSettled, Settled
<1>1. CASE BeginAgain(r)
  <2>1. /\ req[r] # Idle /\ req[r].at = "begin"
        /\ req' = [req EXCEPT ![r] = [req[r] EXCEPT !.at = "commit"]] /\ entry' = NotCached
        /\ UNCHANGED <<live, token, subs, job, outbox, settled>>
    BY <1>1, NoAskIsIdle DEF BeginAgain, RemoveCached, devices
  <2>2. Settled(d) /\ req[r].device # d
    BY <1>c, <2>1
  <2>3. \A q \in Requests : req'[q] = req[q] \/ req'[q].device # d
    BY <1>a, <1>b, <2>1, <2>2
  <2> QED BY <2>1, <2>2, <2>3, StaysSettled
<1>2. CASE CommitRegister(r)
  <2> DEFINE o == req[r].device
  <2>1. CASE o = d
    BY <1>2, <2>1, CommitSettles
  <2>2. CASE o # d
    <3>1. /\ req[r] # Idle
          /\ \E t : token' = [token EXCEPT ![o] = t]
          /\ \E new : subs' = [subs EXCEPT ![o] = new]
          /\ \E s : settled' = [settled EXCEPT ![o] = s]
          /\ UNCHANGED <<live, entry, job, outbox>>
      BY <1>2, NoAskIsIdle DEF CommitRegister, UpsertDevice
    <3>2. /\ token'[d] = token[d] /\ subs'[d] = subs[d] /\ settled'[d] = settled[d]
      BY <2>2, <3>1 DEF RegistryBase
    <3>3. Settled(d)
      BY <3>2 DEF AllSettled
    <3>4. req' = [q \in Requests |->
             IF q = r THEN Idle
             ELSE IF req[q].at = "remove" /\ req[q].device = o
             THEN [req[q] EXCEPT !.found = @ \ {req[r].signer, Anyone}] ELSE req[q]]
      BY <1>2 DEF CommitRegister
    <3>5. ASSUME NEW q \in Requests
          PROVE  req'[q] = req[q] \/ req'[q] = Idle \/ req'[q].device # d
      <4>1. CASE q # r /\ req[q].at = "remove" /\ req[q].device = o
        <5>1. req[q] # Idle
          BY <4>1, NoAskIsIdle
        <5>2. req'[q] = [req[q] EXCEPT !.found = @ \ {req[r].signer, Anyone}]
          BY <3>4, <4>1
        <5> QED BY <1>b, <2>2, <4>1, <5>1, <5>2
      <4> QED BY <3>4, <4>1
    <3> QED BY <3>1, <3>2, <3>3, <3>5, StaysSettled
  <2> QED BY <2>1, <2>2
<1>3. CASE RollBack(r)
  <2>1. /\ req' = [req EXCEPT ![r] = Idle]
        /\ UNCHANGED <<live, token, subs, entry, job, outbox, settled>>
    BY <1>3 DEF RollBack, devices
  <2>2. Settled(d)
    BY <2>1 DEF AllSettled
  <2>3. \A q \in Requests : req'[q] = req[q] \/ req'[q] = Idle
    BY <1>a, <2>1
  <2> QED BY <2>1, <2>2, <2>3, StaysSettled
<1>4. CASE FindSubscriptions(r)
  <2>1. /\ req[r] # Idle /\ req[r].at = "find"
        /\ req' = [req EXCEPT ![r] = [req[r] EXCEPT !.at = "delete",
                                                    !.found = subs[req[r].device]]]
        /\ UNCHANGED <<live, token, subs, entry, job, outbox, settled>>
    BY <1>4, <1>a, NoAskIsIdle DEF FindSubscriptions, devices
  <2>2. Settled(d) /\ req[r].device # d
    BY <1>c, <2>1
  <2>3. \A q \in Requests : req'[q] = req[q] \/ req'[q].device # d
    BY <1>a, <1>b, <2>1, <2>2
  <2> QED BY <2>1, <2>2, <2>3, StaysSettled
<1>5. CASE DeleteDevice(r)
  <2> DEFINE o == req[r].device
  <2>1. /\ req[r] # Idle /\ req[r].at = "delete"
        /\ token' = [token EXCEPT ![o] = NoToken] /\ subs' = [subs EXCEPT ![o] = {}]
        /\ UNCHANGED <<live, entry, job, outbox, settled>>
        /\ req' = [q \in Requests |->
             IF q = r
             THEN IF token[o] = NoToken THEN Idle
                  ELSE IF req[r].found = {} THEN Registration(r)
                       ELSE [req[r] EXCEPT !.at = "clear", !.found = {}]
             ELSE IF req[q].at = "remove" /\ req[q].device = o
             THEN [req[q] EXCEPT !.found = {}] ELSE req[q]]
    BY <1>5, NoAskIsIdle DEF DeleteDevice
  <2>2. Settled(d) /\ o # d
    BY <1>c, <2>1
  <2>3. token'[d] = token[d] /\ subs'[d] = subs[d]
    BY <2>1, <2>2 DEF RegistryBase
  <2>4. Registration(r) = Idle \/ Registration(r).device = o
    BY <1>b, <2>1 DEF Registration
  <2>5. ASSUME NEW q \in Requests
        PROVE  req'[q] = req[q] \/ req'[q] = Idle \/ req'[q].device # d
    <3>1. CASE q = r
      BY <1>b, <2>1, <2>2, <2>4, <3>1
    <3>2. CASE q # r /\ req[q].at = "remove" /\ req[q].device = o
      <4>1. req[q] # Idle /\ req'[q] = [req[q] EXCEPT !.found = {}]
        BY <2>1, <3>2, NoAskIsIdle
      <4> QED BY <1>b, <2>2, <3>2, <4>1
    <3> QED BY <2>1, <3>1, <3>2
  <2> QED BY <2>1, <2>2, <2>3, <2>5, StaysSettled
<1>6. CASE RemoveSubscriptions(r)
  <2>1. /\ req[r] # Idle /\ req[r].at = "remove"
        /\ subs' = [subs EXCEPT ![req[r].device] = @ \ req[r].found]
        /\ req' = [req EXCEPT ![r] = [req[r] EXCEPT !.at = "clear", !.found = {}]]
        /\ UNCHANGED <<live, token, entry, job, outbox, settled>>
    BY <1>6, <1>a, NoAskIsIdle DEF RemoveSubscriptions
  <2>2. Settled(d) /\ req[r].device # d
    BY <1>c, <2>1
  <2>3. \A q \in Requests : req'[q] = req[q] \/ req'[q].device # d
    BY <1>a, <1>b, <2>1, <2>2
  <2>4. subs'[d] = subs[d]
    BY <2>1, <2>2 DEF RegistryBase
  <2> QED BY <2>1, <2>2, <2>3, <2>4, StaysSettled
<1>7. CASE ClearCached(r)
  <2>1. /\ req[r] # Idle /\ req[r].at = "clear" /\ entry' = NotCached
        /\ req' = [req EXCEPT ![r] = Registration(r)]
        /\ UNCHANGED <<live, token, subs, job, outbox, settled>>
    BY <1>7, NoAskIsIdle DEF ClearCached, RemoveCached, devices
  <2>2. Settled(d) /\ req[r].device # d
    BY <1>c, <2>1
  <2>3. Registration(r) = Idle \/ Registration(r).device # d
    BY <1>b, <2>1, <2>2 DEF Registration
  <2>4. \A q \in Requests : req'[q] = req[q] \/ req'[q] = Idle \/ req'[q].device # d
    BY <1>a, <2>1, <2>3
  <2> QED BY <2>1, <2>2, <2>4, StaysSettled
<1>8. CASE CrashRequest(r)
  <2>1. /\ req[r] # Idle /\ req' = [req EXCEPT ![r] = Idle]
        /\ outbox' = outbox \union req[r].delivery
        /\ UNCHANGED <<live, token, subs, entry, job, settled>>
    BY <1>8 DEF CrashRequest, devices
  <2>2. Settled(d)
    BY <2>1 DEF AllSettled
  <2>3. Sound(req[r])
    BY <1>a, <2>1, AskFields
  <2>4. \A m \in req[r].delivery : m.device # d
    <3>1. CASE req[r].device = d
      <4>1. req[r].at = "commit"
        BY <2>1, <2>2, <3>1 DEF Settled
      <4> QED BY <2>3, <4>1 DEF Sound
    <3>2. CASE req[r].device # d
      BY <2>3, <3>2 DEF Sound
    <3> QED BY <3>1, <3>2
  <2>5. \A q \in Requests : req'[q] = req[q] \/ req'[q] = Idle
    BY <1>a, <2>1
  <2> QED BY <2>1, <2>2, <2>4, <2>5, StaysSettled
<1> QED BY <1>1, <1>2, <1>3, <1>4, <1>5, <1>6, <1>7, <1>8

\* What begins for a settled device is a registration; and the cache, the tokens and the
\* deliveries.
LEMMA BegunSettled ==
  ASSUME RegistryBase, AllSettled, NEW d \in Devices, settled'[d] # Nobody,
         \/ Expire \/ (\E o \in Devices : Rotate(o)) \/ \E m \in outbox : Deliver(m)
         \/ \E r \in Requests :
              \/ \E o \in Devices :
                   \/ \E s \in Signers : BeginRegister(r, o, s)
                   \/ \E s \in Signers \union {Nobody} : Unregister(r, o, s)
                   \/ \E found \in SUBSET Signers : FindToRemove(r, o, found)
              \/ \E m \in outbox : Unregistered(m, r)
  PROVE  Settled(d)'
<1>a. req \in [Requests -> Asked] /\ settled \in [Devices -> Signers \union {Nobody}]
  BY DEF RegistryBase
<1>b. ASSUME settled' = settled PROVE Settled(d)
  BY <1>b DEF AllSettled
<1>c. ASSUME NEW o \in Devices, settled' = [settled EXCEPT ![o] = Nobody]
      PROVE  Settled(d) /\ o # d /\ settled'[d] = settled[d]
  BY <1>a, <1>c DEF AllSettled
<1>1. CASE Expire
  BY <1>1, <1>b, StaysSettled DEF Expire, RemoveCached, devices
<1>2. ASSUME NEW o \in Devices, Rotate(o) PROVE Settled(d)'
  <2>1. Settled(d) /\ o # d /\ settled'[d] = settled[d]
    BY <1>2, <1>c DEF Rotate
  <2>2. live'[d] = live[d]
    BY <1>2, <2>1 DEF Rotate, RegistryBase
  <2> QED BY <1>2, <2>1, <2>2, StaysSettled DEF Rotate, devices
<1>3. ASSUME NEW m \in outbox, Deliver(m) PROVE Settled(d)'
  BY <1>3, <1>b, StaysSettled DEF Deliver, devices
<1>4. ASSUME NEW r \in Requests, NEW o \in Devices, NEW s \in Signers, BeginRegister(r, o, s)
      PROVE  Settled(d)'
  <2>1. Registering(o, s).at = "commit"
    BY DEF Registering
  <2>2. \A q \in Requests : req'[q] = req[q] \/ req'[q].at = "commit"
    BY <1>4, <1>a, <2>1 DEF BeginRegister
  <2> QED BY <1>4, <1>b, <2>2, StaysSettled DEF BeginRegister, RemoveCached, devices
<1>5. ASSUME NEW r \in Requests, NEW o \in Devices,
             NEW at, NEW s, NEW found, NEW delivery,
             req' = [req EXCEPT ![r] = Removing(at, o, s, found, delivery)],
             UNCHANGED <<live, token, subs, entry, job>>, outbox' \subseteq outbox,
             Settled(d), o # d, settled'[d] = settled[d]
      PROVE  Settled(d)'
  <2>1. Removing(at, o, s, found, delivery).device = o
    BY DEF Removing
  <2>2. \A q \in Requests : req'[q] = req[q] \/ req'[q].device # d
    BY <1>5, <1>a, <2>1
  <2> QED BY <1>5, <2>2, StaysSettled
<1>6. ASSUME NEW r \in Requests, NEW o \in Devices, NEW s \in Signers \union {Nobody},
             Unregister(r, o, s)
      PROVE  Settled(d)'
  BY <1>5, <1>6, <1>c DEF Unregister, devices
<1>7. ASSUME NEW r \in Requests, NEW o \in Devices, NEW found \in SUBSET Signers,
             FindToRemove(r, o, found)
      PROVE  Settled(d)'
  BY <1>5, <1>7, <1>c DEF FindToRemove, devices
<1>8. ASSUME NEW r \in Requests, NEW m \in outbox, Unregistered(m, r) PROVE Settled(d)'
  <2>1. m.token # live[m.device] /\ settled' = settled
    BY <1>8 DEF Unregistered
  <2>2. Settled(d) /\ m.device # d
    BY <1>b, <2>1 DEF Settled, UpToDate
  <2>3. m.device \in Devices
    BY DEF RegistryBase, Deliveries
  <2> QED BY <1>5, <1>8, <2>1, <2>2, <2>3 DEF Unregistered, devices
<1> QED BY <1>1, <1>2, <1>3, <1>4, <1>6, <1>7, <1>8

\* The steps of jobs.  The token that they read for a settled device is the right one.
LEMMA JobsSettled ==
  ASSUME RegistryBase, AllSettled, NEW d \in Devices, settled'[d] # Nobody, NEW e \in Events,
         \/ ReadCached(e) \/ ReadDatabase(e) \/ StoreRows(e) \/ FinishEvent(e) \/ CrashJob(e)
         \/ \E row \in job[e].todo : EnqueueDelivery(e, row)
  PROVE  Settled(d)'
<1>1. UNCHANGED <<live, token, subs, req, settled>>
  BY DEF ReadCached, ReadDatabase, StoreRows, FinishEvent, CrashJob, EnqueueDelivery, devices
<1>2. Settled(d)
  BY <1>1 DEF AllSettled
<1>3. job \in [Events -> Jobs(faults)] /\ job[e] \in JobRecords /\ job[e].todo \subseteq job[e].rows
  BY DEF RegistryBase, Jobs
<1>4. ASSUME NEW rows, FanOut(e, rows), UpToDate(rows, d), outbox' = outbox,
             entry' = entry \/ entry' = rows
      PROVE  Settled(d)'
  <2>1. PICK first : job' = [job EXCEPT ![e].at = "fan", ![e].rows = rows, ![e].todo = first,
                               ![e].run = IF job[e].at = "queued" THEN @ + 1 ELSE @]
    BY <1>4 DEF FanOut
  <2>2. job'[e].rows = rows /\ \A f \in Events \ {e} : job'[f] = job[f]
    BY <1>3, <2>1 DEF JobRecords
  <2>3. \A f \in Events : job'[f] = job[f] \/ UpToDate(job[f].rows, d)'
    BY <1>1, <1>4, <2>2 DEF UpToDate
  <2>4. entry' = entry \/ UpToDate(entry, d)'
    BY <1>1, <1>4 DEF UpToDate
  <2> QED BY <1>1, <1>2, <1>4, <2>3, <2>4, StaysSettled
<1>5. CASE ReadCached(e)
  <2>1. UpToDate(entry, d)
    BY <1>2, <1>5 DEF ReadCached, Settled
  <2> QED BY <1>4, <1>5, <2>1 DEF ReadCached
<1>6. CASE ReadDatabase(e)
  <2>1. UpToDate(Subscribers, d)
    BY <1>2 DEF UpToDate, Subscribers, Settled
  <2>2. /\ job' = [job EXCEPT ![e].at = "store", ![e].rows = Subscribers, ![e].run = @ + 1]
        /\ UNCHANGED <<entry, outbox>>
    BY <1>6 DEF ReadDatabase
  <2> DEFINE rows == Subscribers
  <2> HIDE DEF rows
  <2>3. job' = [job EXCEPT ![e].at = "store", ![e].rows = rows, ![e].run = @ + 1]
    BY <2>2 DEF rows
  <2>4. job'[e].rows = rows /\ \A f \in Events \ {e} : job'[f] = job[f]
    BY <1>3, <2>3 DEF JobRecords
  <2>5. \A x \in rows : x.device = d => x.token = live[d]
    BY <2>1 DEF rows, UpToDate
  <2>6. \A f \in Events : job'[f] = job[f] \/ UpToDate(job[f].rows, d)'
    BY <1>1, <2>4, <2>5 DEF UpToDate
  <2> QED BY <1>1, <1>2, <2>2, <2>6, StaysSettled
<1>7. CASE StoreRows(e)
  <2>1. UpToDate(job[e].rows, d)
    BY <1>2, <1>7 DEF StoreRows, Settled
  <2> QED BY <1>4, <1>7, <2>1 DEF StoreRows
<1>8. CASE FinishEvent(e)
  <2>1. /\ job' = [job EXCEPT ![e] = [NewJob(FALSE) EXCEPT !.at = "done"]]
        /\ UNCHANGED <<entry, outbox>>
    BY <1>8 DEF FinishEvent
  <2>2. [NewJob(FALSE) EXCEPT !.at = "done"].at = "done"
    BY DEF NewJob
  <2>3. \A f \in Events : job'[f] = job[f] \/ job'[f].at = "done"
    BY <1>3, <2>1, <2>2
  <2> QED BY <1>1, <1>2, <2>1, <2>3, StaysSettled
<1>9. CASE CrashJob(e)
  <2>1. /\ job' = [job EXCEPT ![e].at = "queued", ![e].rows = {}, ![e].todo = {}]
        /\ UNCHANGED <<entry, outbox>>
    BY <1>9 DEF CrashJob
  <2>2. \A f \in Events : job'[f] = job[f] \/ job'[f].at = "queued"
    BY <1>3, <2>1 DEF JobRecords
  <2> QED BY <1>1, <1>2, <2>1, <2>2, StaysSettled
<1>10. ASSUME NEW row \in job[e].todo, EnqueueDelivery(e, row) PROVE Settled(d)'
  <2>1. job[e].at = "fan" /\ UpToDate(job[e].rows, d)
    BY <1>2, <1>10 DEF EnqueueDelivery, Settled
  <2>2. row.device = d => row.token = live[d]
    BY <1>3, <2>1 DEF UpToDate
  <2>3. /\ entry' = entry
        /\ \A m \in outbox' : m \in outbox \/ m.device # d \/ m.token = live[d]
    BY <1>10, <2>2 DEF EnqueueDelivery
  <2>4. \/ job' = [job EXCEPT ![e].todo = @ \ {row}]
        \/ job' = [job EXCEPT ![e].todo = @ \ {row}, ![e].queued[row.device] = @ + 1]
        \/ job' = [job EXCEPT ![e].todo = @ \ {row}, ![e].lost = @ \union {row.device}]
    BY <1>10 DEF EnqueueDelivery
  <2>5. job'[e].rows = job[e].rows /\ \A f \in Events \ {e} : job'[f] = job[f]
    BY <1>3, <2>4 DEF JobRecords
  <2>6. \A f \in Events : job'[f] = job[f] \/ UpToDate(job[f].rows, d)'
    BY <1>1, <2>1, <2>5 DEF UpToDate
  <2> QED BY <1>1, <1>2, <2>3, <2>6, StaysSettled
<1> QED BY <1>5, <1>6, <1>7, <1>8, <1>9, <1>10

LEMMA SettledStep == RegistryBase /\ AllSettled /\ [Next]_vars => AllSettled'
<1> SUFFICES ASSUME RegistryBase, AllSettled, [Next]_vars,
                    NEW d \in Devices, settled'[d] # Nobody
             PROVE  Settled(d)'
  BY DEF AllSettled
<1>1. CASE UNCHANGED vars
  BY <1>1 DEF vars, devices, AllSettled, Settled, UpToDate
<1>2. CASE Next
  BY <1>2, RequestsSettled, BegunSettled, JobsSettled DEF Next
<1> QED BY <1>1, <1>2

\* A registration that no trace of another token disturbs stays: no delivery deletes the
\* device (processDelivery, upsertSubscriptions, deleteDevice).
THEOREM RegistrationsStay == Spec => []RegistrationsLast
<1>1. Init => AllSettled
  BY DEF Init, AllSettled
<1>2. AllSettled => RegistrationsLast
  BY DEF AllSettled, Settled, RegistrationsLast
<1> QED BY <1>1, <1>2, SettledStep, RegistryInvariant, PTL DEF Spec
=============================================================================
