-------------------------- MODULE AddressBook_proofs --------------------------
(***************************************************************************)
(* Proofs about AddressBook, for any members, any finite set of addresses, *)
(* any number of requests served at a time and any limits.                 *)
(***************************************************************************)
EXTENDS AddressBook, FiniteSetTheorems, TLAPS

\* What an approval knows of its request: whatever it was when it was read, while
\* the row is held it is pending, for this address, and nobody else holds it.
Holding == {"find", "update", "count", "insert"}
ApprovalKnows(s) ==
  /\ s.at = "claim" => s.id # 0
  /\ s.at # "idle" /\ s.id # 0 =>
       s.id <= asked /\ (requests[s.id] # Absent => requests[s.id].address = s.address)
  /\ s.id # 0 /\ s.at \in Holding => requests[s.id].status = "PENDING"
ApprovalsKnow == \A w \in Writers : ApprovalKnows(writer[w])
HeldByOne == \A v, w \in Writers : \A i \in RequestIds :
               v # w /\ Holds(v, i) => ~Holds(w, i)

\* What a writer has read of the book is still so, unless its address is contested.
RowKnown(s) ==
  /\ s.at \in {"claim", "find", "count", "insert"} => s.row = 0
  /\ s.at \in {"update", "remove"} =>
       s.row # 0 /\ (book[s.address] = s.row \/ s.address \in contested)
RowsKnown == \A w \in Writers : RowKnown(writer[w])

Inv == /\ TypeOK /\ ApprovalsKnow /\ HeldByOne /\ RowsKnown
       /\ LimitsHoldButForOverlap /\ BookAsLogged

PendingLimit == \A m \in Members : Cardinality(Pending(m)) + Cardinality(AskingFor(m))
                                     <= MaxPending + Cardinality(Askers) - 1
ItemsLimit == Cardinality(Items) + Cardinality(Inserting)
                <= MaxItems + Cardinality(Writers) - 1

-----------------------------------------------------------------------------
\* Parts of finite sets are finite and no larger.
LEMMA Parts ==
  ASSUME NEW S, IsFiniteSet(S), NEW T, T \subseteq S
  PROVE  /\ IsFiniteSet(T) /\ Cardinality(T) \in Nat /\ Cardinality(S) \in Nat
         /\ Cardinality(T) <= Cardinality(S)
BY FS_Subset, FS_CardinalityType

LEMMA FiniteIds == IsFiniteSet(RequestIds)
BY BookAssumption, FS_Interval DEF RequestIds

LEMMA SetsFinite ==
  /\ \A m \in Members : /\ IsFiniteSet(Pending(m)) /\ Cardinality(Pending(m)) \in Nat
                        /\ IsFiniteSet(AskingFor(m)) /\ Cardinality(AskingFor(m)) \in Nat
                        /\ Cardinality(AskingFor(m)) <= Cardinality(Askers)
  /\ IsFiniteSet(Items) /\ Cardinality(Items) \in Nat
  /\ IsFiniteSet(Inserting) /\ Cardinality(Inserting) \in Nat
  /\ Cardinality(Inserting) <= Cardinality(Writers)
  /\ Cardinality(Askers) \in Nat /\ Cardinality(Writers) \in Nat
<1>1. ASSUME NEW m \in Members
      PROVE  Pending(m) \subseteq RequestIds /\ AskingFor(m) \subseteq Askers
  BY DEF Pending, AskingFor
<1>2. Items \subseteq Addresses /\ Inserting \subseteq Writers
  BY DEF Items, Inserting
<1> QED
  BY <1>1, <1>2, FiniteIds, BookAssumption, Parts, FS_CardinalityType

\* Fewer requests, or entries, than before are within the limits as well.
LEMMA FewerPending ==
  ASSUME PendingLimit,
         \A m \in Members : /\ Pending(m)' \subseteq Pending(m)
                            /\ AskingFor(m)' \subseteq AskingFor(m)
  PROVE  PendingLimit'
<1> SUFFICES ASSUME NEW m \in Members
             PROVE  Cardinality(Pending(m)') + Cardinality(AskingFor(m)')
                      <= MaxPending + Cardinality(Askers) - 1
  BY DEF PendingLimit
<1>1. /\ Cardinality(Pending(m)) + Cardinality(AskingFor(m))
           <= MaxPending + Cardinality(Askers) - 1
  BY DEF PendingLimit
<1>2. /\ Cardinality(Pending(m)') \in Nat /\ Cardinality(Pending(m)) \in Nat
      /\ Cardinality(Pending(m)') <= Cardinality(Pending(m))
  BY SetsFinite, Parts
<1>3. /\ Cardinality(AskingFor(m)') \in Nat /\ Cardinality(AskingFor(m)) \in Nat
      /\ Cardinality(AskingFor(m)') <= Cardinality(AskingFor(m))
  BY SetsFinite, Parts
<1>4. MaxPending \in Nat /\ Cardinality(Askers) \in Nat
  BY SetsFinite, BookAssumption
<1> QED
  BY <1>1, <1>2, <1>3, <1>4

LEMMA FewerItems ==
  ASSUME ItemsLimit, Items' \subseteq Items, Inserting' \subseteq Inserting
  PROVE  ItemsLimit'
<1>1. /\ Cardinality(Items') \in Nat /\ Cardinality(Items) \in Nat
      /\ Cardinality(Items') <= Cardinality(Items)
  BY SetsFinite, Parts
<1>2. /\ Cardinality(Inserting') \in Nat /\ Cardinality(Inserting) \in Nat
      /\ Cardinality(Inserting') <= Cardinality(Inserting)
  BY SetsFinite, Parts
<1>3. MaxItems \in Nat /\ Cardinality(Writers) \in Nat
  BY SetsFinite, BookAssumption
<1> QED
  BY <1>1, <1>2, <1>3 DEF ItemsLimit

LEMMA LimitParts == LimitsHoldButForOverlap <=> PendingLimit /\ ItemsLimit
BY DEF LimitsHoldButForOverlap, PendingLimit, ItemsLimit

LEMMA InitInv == Init => Inv
<1> SUFFICES ASSUME Init PROVE Inv
  OBVIOUS
<1> USE BookAssumption DEF Init
<1>1. TypeOK
  BY DEF TypeOK, Absent, Idle, Nothing, RequestIds
<1>2. ApprovalsKnow /\ HeldByOne /\ RowsKnown
  BY DEF ApprovalsKnow, ApprovalKnows, HeldByOne, Holds, RowsKnown, RowKnown, Idle, Holding
<1>3. Cardinality({}) = 0
  BY FS_EmptySet
<1>4. PendingLimit
  <2> SUFFICES ASSUME NEW m \in Members
               PROVE  Cardinality(Pending(m)) + Cardinality(AskingFor(m))
                        <= MaxPending + Cardinality(Askers) - 1
    BY DEF PendingLimit
  <2>1. Pending(m) = {}
    BY DEF Pending, Absent
  <2>2. Cardinality(AskingFor(m)) <= Cardinality(Askers)
        /\ Cardinality(AskingFor(m)) \in Nat /\ Cardinality(Askers) \in Nat
    BY SetsFinite
  <2> QED
    BY <1>3, <2>1, <2>2
<1>5. ItemsLimit
  <2>1. Items = {} /\ Inserting = {}
    BY DEF Items, Inserting, Idle
  <2>2. Cardinality(Writers) \in Nat
    BY SetsFinite
  <2> QED
    BY <1>3, <2>1, <2>2 DEF ItemsLimit
<1>6. BookAsLogged
  BY DEF BookAsLogged, Items
<1> QED
  BY <1>1, <1>2, <1>4, <1>5, <1>6, LimitParts DEF Inv

-----------------------------------------------------------------------------
\* A writer that reads, or gives up, goes on with what it has to know there.
LEMMA EnterStep ==
  ASSUME Inv, NEW w \in Writers, NEW s \in Busy \union {Idle}, Enter(w, s),
         ApprovalKnows(s), RowKnown(s),
         s.at \in Holding => \A i \in RequestIds : s.id = i => Holds(w, i) \/ ~Locked(i),
         s.at = "insert" => Cardinality(Items) + 1 <= MaxItems
  PROVE  Inv'
<1> USE DEF Inv
<1>1. /\ UNCHANGED <<accounts, requests, asked, book, inserted, asking, logged, contested>>
      /\ writer' = [writer EXCEPT ![w] = s] /\ writer'[w] = s
      /\ \A v \in Writers : v # w => writer'[v] = writer[v]
      /\ writer' \in [Writers -> Busy \union {Idle}]
  BY DEF Enter, TypeOK
<1>2. TypeOK'
  BY <1>1 DEF TypeOK
<1>3. ApprovalsKnow' /\ RowsKnown'
  BY <1>1 DEF ApprovalsKnow, ApprovalKnows, RowsKnown, RowKnown
<1>4. HeldByOne'
  <2> SUFFICES ASSUME NEW u \in Writers, NEW v \in Writers, NEW i \in RequestIds, u # v,
                      Holds(u, i)', Holds(v, i)'
               PROVE  FALSE
    BY DEF HeldByOne
  <2>1. \A x \in Writers : Holds(x, i)' =>
          IF x = w THEN Holds(w, i) \/ ~Locked(i) ELSE Holds(x, i)
    BY <1>1 DEF Holds, Holding
  <2>2. \A x \in Writers : Holds(x, i) => Locked(i)
    BY DEF Locked
  <2>3. Holds(u, i) /\ Holds(v, i)
    BY <2>1, <2>2
  <2> QED
    BY <2>3 DEF HeldByOne
<1>5. PendingLimit'
  BY <1>1, FewerPending, LimitParts DEF Pending, AskingFor
<1>6. ItemsLimit'
  <2>1. Items' = Items
    BY <1>1 DEF Items
  <2>2. CASE s.at = "insert"
    <3>1. /\ Cardinality(Inserting') \in Nat /\ Cardinality(Inserting') <= Cardinality(Writers)
          /\ Cardinality(Writers) \in Nat
      <4>1. Inserting' \subseteq Writers
        BY DEF Inserting
      <4> QED
        BY <4>1, BookAssumption, Parts
    <3>2. Cardinality(Items') \in Nat /\ Cardinality(Items') + 1 <= MaxItems
      BY <2>1, <2>2, SetsFinite
    <3> QED
      BY <3>1, <3>2, BookAssumption DEF ItemsLimit
  <2>3. CASE s.at # "insert"
    <3>1. Inserting' \subseteq Inserting
      BY <1>1, <2>3 DEF Inserting
    <3> QED
      BY <2>1, <3>1, FewerItems, LimitParts
  <2> QED
    BY <2>2, <2>3
<1>7. BookAsLogged'
  BY <1>1 DEF BookAsLogged, Items
<1>8. LimitsHoldButForOverlap'
  BY <1>5, <1>6 DEF LimitsHoldButForOverlap, PendingLimit, ItemsLimit
<1> QED
  BY <1>2, <1>3, <1>4, <1>7, <1>8 DEF Inv

\* Nobody is idle and busy at once; what is known of who is idle is nothing.
LEMMA IdleKnows ==
  /\ ApprovalKnows(Idle) /\ RowKnown(Idle) /\ Idle.at \notin Holding /\ Idle.at = "idle"
BY DEF Idle, ApprovalKnows, RowKnown, Holding

LEMMA BusyWriter ==
  ASSUME TypeOK, NEW w \in Writers, writer[w].at # "idle"
  PROVE  writer[w] \in Busy
BY DEF TypeOK, Idle

LEMMA FindRequestKeeps ==
  ASSUME Inv, NEW w \in Writers, NEW i \in RequestIds, FindRequest(w, i)
  PROVE  Inv'
<1> DEFINE s == [at |-> "claim", id |-> i, address |-> requests[i].address, row |-> 0]
<1>1. requests[i] # Absent /\ requests[i] \in Stored /\ i <= asked /\ i # 0
      /\ i \in 0 .. MaxRequests /\ Enter(w, s)
  BY BookAssumption DEF FindRequest, Inv, TypeOK, RequestIds
<1>2. s \in Busy /\ s.at = "claim" /\ s.id = i /\ s.address = requests[i].address /\ s.row = 0
  BY <1>1, BookAssumption DEF Busy, Stored
<1> HIDE DEF s
<1>3. ApprovalKnows(s) /\ RowKnown(s)
  BY <1>1, <1>2 DEF ApprovalKnows, RowKnown, Holding
<1> QED
  BY <1>1, <1>2, <1>3, EnterStep DEF Holding

LEMMA ClaimKeeps ==
  ASSUME Inv, NEW w \in Writers, Claim(w)
  PROVE  Inv'
<1> USE DEF Inv
<1> DEFINE s == [writer[w] EXCEPT !.at = "find"]
           i == writer[w].id
<1>1. writer[w] \in Busy /\ writer[w].at = "claim" /\ ~Locked(i)
  BY BusyWriter DEF Claim
<1>2. i # 0 /\ i \in RequestIds /\ i <= asked /\ writer[w].row = 0
      /\ (requests[i] # Absent => requests[i].address = writer[w].address)
  BY <1>1, BookAssumption
     DEF ApprovalsKnow, ApprovalKnows, RowsKnown, RowKnown, Busy, RequestIds
<1>3. CASE requests[i].status = "PENDING" /\ Enter(w, s)
  <2>1. s \in Busy /\ s.at = "find" /\ s.id = i /\ s.address = writer[w].address
        /\ s.row = writer[w].row
    BY <1>1 DEF Busy, Reading
  <2> HIDE DEF s
  <2>2. ApprovalKnows(s) /\ RowKnown(s)
    BY <1>2, <1>3, <2>1 DEF ApprovalKnows, RowKnown, Holding
  <2> QED
    BY <1>1, <1>3, <2>1, <2>2, EnterStep
<1>4. CASE Enter(w, Idle)
  BY <1>4, IdleKnows, EnterStep
<1> QED
  BY <1>3, <1>4 DEF Claim

\* What is found of an address, for a writer that was looking for it.
LEMMA FoundKnows ==
  ASSUME Inv, NEW s \in Busy, s.at = "find", s.row = 0, ApprovalKnows(s)
  PROVE  /\ Found(s) \in Busy /\ Found(s).at \in {"update", "count"} /\ Found(s).id = s.id
         /\ ApprovalKnows(Found(s)) /\ RowKnown(Found(s))
<1>1. s.address \in Addresses /\ book[s.address] \in 0 .. MaxRows
  BY DEF Inv, TypeOK, Busy
<1>2. /\ Found(s) \in Busy /\ Found(s).id = s.id /\ Found(s).address = s.address
      /\ Found(s).row = book[s.address]
      /\ Found(s).at = IF book[s.address] # 0 THEN "update" ELSE "count"
  BY <1>1 DEF Found, Busy, Reading
<1>3. ApprovalKnows(Found(s))
  BY <1>2 DEF ApprovalKnows, Holding
<1>4. RowKnown(Found(s))
  BY <1>1, <1>2 DEF RowKnown
<1> QED
  BY <1>2, <1>3, <1>4

LEMMA FindItemKeeps ==
  ASSUME Inv, NEW w \in Writers, FindItem(w)
  PROVE  Inv'
<1> DEFINE s == writer[w]
<1>1. s \in Busy /\ s.at = "find" /\ s.row = 0 /\ ApprovalKnows(s) /\ Enter(w, Found(s))
  BY BusyWriter DEF FindItem, Inv, ApprovalsKnow, RowsKnown, RowKnown
<1>2. /\ Found(s) \in Busy /\ Found(s).at \in {"update", "count"} /\ Found(s).id = s.id
      /\ ApprovalKnows(Found(s)) /\ RowKnown(Found(s))
  BY <1>1, FoundKnows
<1>3. \A i \in RequestIds : Found(s).id = i => Holds(w, i)
  BY <1>1, <1>2 DEF Holds
<1> QED
  BY <1>1, <1>2, <1>3, EnterStep

LEMMA UpsertKeeps ==
  ASSUME Inv, NEW w \in Writers, NEW a \in Addresses, Upsert(w, a)
  PROVE  Inv'
<1> DEFINE s == [at |-> "find", id |-> 0, address |-> a, row |-> 0]
<1>1. s \in Busy /\ s.at = "find" /\ s.row = 0 /\ s.id = 0 /\ ApprovalKnows(s)
  BY BookAssumption DEF Busy, Reading, ApprovalKnows
<1>2. Enter(w, Found(s))
  BY DEF Upsert
<1> HIDE DEF s
<1>3. /\ Found(s) \in Busy /\ Found(s).at \in {"update", "count"} /\ Found(s).id = 0
      /\ ApprovalKnows(Found(s)) /\ RowKnown(Found(s))
  BY <1>1, FoundKnows
<1>4. 0 \notin RequestIds
  BY DEF RequestIds
<1> QED
  BY <1>2, <1>3, <1>4, EnterStep

LEMMA CheckItemsLimitKeeps ==
  ASSUME Inv, NEW w \in Writers, CheckItemsLimit(w)
  PROVE  Inv'
<1> DEFINE s == [writer[w] EXCEPT !.at = "insert"]
<1>1. writer[w] \in Busy /\ writer[w].at = "count" /\ writer[w].row = 0
      /\ ApprovalKnows(writer[w])
  BY BusyWriter DEF CheckItemsLimit, Inv, ApprovalsKnow, RowsKnown, RowKnown
<1>2. CASE Cardinality(Items) + 1 <= MaxItems /\ Enter(w, s)
  <2>1. s \in Busy /\ s.at = "insert" /\ s.id = writer[w].id /\ s.row = 0
        /\ s.address = writer[w].address
    BY <1>1 DEF Busy, Reading
  <2> HIDE DEF s
  <2>2. ApprovalKnows(s) /\ RowKnown(s)
    BY <1>1, <2>1 DEF ApprovalKnows, RowKnown, Holding
  <2>3. \A i \in RequestIds : s.id = i => Holds(w, i)
    BY <1>1, <2>1 DEF Holds
  <2> QED
    BY <1>2, <2>1, <2>2, <2>3, EnterStep
<1>3. CASE Enter(w, Idle)
  BY <1>3, IdleKnows, EnterStep
<1> QED
  BY <1>2, <1>3 DEF CheckItemsLimit

LEMMA FindItemToDeleteKeeps ==
  ASSUME Inv, NEW w \in Writers, NEW a \in Addresses, FindItemToDelete(w, a)
  PROVE  Inv'
<1> DEFINE s == [at |-> "remove", id |-> 0, address |-> a, row |-> book[a]]
<1>1. book[a] # 0 /\ book[a] \in 0 .. MaxRows /\ Enter(w, s)
  BY DEF FindItemToDelete, Inv, TypeOK
<1>2. s \in Busy /\ s.at = "remove" /\ s.id = 0 /\ s.row = book[a] /\ s.address = a
  BY <1>1, BookAssumption DEF Busy, Reading
<1> HIDE DEF s
<1>3. ApprovalKnows(s) /\ RowKnown(s) /\ s.at \notin Holding
  BY <1>1, <1>2 DEF ApprovalKnows, RowKnown, Holding
<1> QED
  BY <1>1, <1>2, <1>3, EnterStep DEF Holding

LEMMA RollBackKeeps ==
  ASSUME Inv, NEW w \in Writers, RollBack(w)
  PROVE  Inv'
BY IdleKnows, EnterStep DEF RollBack

-----------------------------------------------------------------------------
\* What becomes of requests while no writer moves: nothing of those that are held.
LEMMA HeldStay ==
  ASSUME Inv, UNCHANGED <<book, writer, contested>>, asked <= asked', asked' \in Nat,
         \A i \in RequestIds : Locked(i) => requests'[i] = requests[i],
         \A i \in RequestIds : i <= asked /\ requests'[i] # Absent =>
           requests[i] # Absent /\ requests'[i].address = requests[i].address
  PROVE  ApprovalsKnow' /\ HeldByOne' /\ RowsKnown'
<1> USE DEF Inv
<1>1. ApprovalsKnow'
  <2> SUFFICES ASSUME NEW w \in Writers, writer[w] \in Busy
               PROVE  ApprovalKnows(writer[w])'
    BY IdleKnows DEF ApprovalsKnow, ApprovalKnows, TypeOK, Holding
  <2>1. ApprovalKnows(writer[w])
    BY DEF ApprovalsKnow
  <2>2. writer[w].id \in 0 .. MaxRequests /\ asked \in Nat
    BY BookAssumption DEF Busy, TypeOK
  <2>3. writer[w].id # 0 => writer[w].id \in RequestIds
    BY <2>2, BookAssumption DEF RequestIds
  <2>4. writer[w].id # 0 /\ writer[w].at \in Holding => Locked(writer[w].id)
    BY DEF Locked, Holds, Holding
  <2>5. writer[w].at # "idle" /\ writer[w].id # 0 => writer[w].id <= asked'
    BY <2>1, <2>2 DEF ApprovalKnows
  <2> QED
    BY <2>1, <2>2, <2>3, <2>4, <2>5 DEF ApprovalKnows
<1>2. HeldByOne'
  BY DEF HeldByOne, Holds
<1>3. RowsKnown'
  BY DEF RowsKnown, RowKnown
<1> QED
  BY <1>1, <1>2, <1>3

\* A member is counted with what is about to be asked.
LEMMA CountPendingKeeps ==
  ASSUME Inv, NEW k \in Askers, NEW m \in Members, NEW a \in Addresses, CountPending(k, m, a)
  PROVE  Inv'
<1> USE DEF Inv
<1>1. /\ UNCHANGED <<accounts, requests, asked, book, inserted, writer, logged, contested>>
      /\ asking' = [asking EXCEPT ![k] = [by |-> m, address |-> a]]
      /\ Cardinality(Pending(m)) < MaxPending
  BY DEF CountPending
<1>2. TypeOK'
  BY <1>1 DEF TypeOK
<1>3. ApprovalsKnow' /\ HeldByOne' /\ RowsKnown'
  <2>1. asked' \in Nat /\ asked <= asked'
    BY <1>1, BookAssumption DEF TypeOK
  <2> QED
    BY <1>1, <2>1, HeldStay
<1>4. PendingLimit'
  <2> SUFFICES ASSUME NEW n \in Members
               PROVE  Cardinality(Pending(n)) + Cardinality(AskingFor(n)')
                        <= MaxPending + Cardinality(Askers) - 1
    BY <1>1 DEF PendingLimit, Pending
  <2>1. Cardinality(Pending(n)) \in Nat /\ Cardinality(Askers) \in Nat
        /\ Cardinality(AskingFor(n)) \in Nat
    BY SetsFinite
  <2>2. CASE n = m
    <3>1. AskingFor(n)' \subseteq Askers
      BY DEF AskingFor
    <3>2. Cardinality(AskingFor(n)') \in Nat /\ Cardinality(AskingFor(n)') <= Cardinality(Askers)
      BY <3>1, BookAssumption, Parts
    <3> QED
      BY <1>1, <2>1, <2>2, <3>2, BookAssumption
  <2>3. CASE n # m
    <3>1. AskingFor(n)' \subseteq AskingFor(n)
      BY <1>1, <2>3 DEF AskingFor, TypeOK
    <3>2. /\ Cardinality(AskingFor(n)') \in Nat
          /\ Cardinality(AskingFor(n)') <= Cardinality(AskingFor(n))
      BY <3>1, SetsFinite, Parts
    <3>3. Cardinality(Pending(n)) + Cardinality(AskingFor(n))
            <= MaxPending + Cardinality(Askers) - 1
      BY LimitParts DEF PendingLimit
    <3> QED
      BY <2>1, <3>2, <3>3, BookAssumption
  <2> QED
    BY <2>2, <2>3
<1>5. ItemsLimit'
  BY <1>1, FewerItems, LimitParts DEF Items, Inserting
<1>6. LimitsHoldButForOverlap'
  BY <1>4, <1>5 DEF LimitsHoldButForOverlap, PendingLimit, ItemsLimit
<1>7. BookAsLogged'
  BY <1>1 DEF BookAsLogged, Items
<1> QED
  BY <1>2, <1>3, <1>6, <1>7

\* What was about to be asked is a request.
LEMMA CreateRequestKeeps ==
  ASSUME Inv, NEW k \in Askers, CreateRequest(k)
  PROVE  Inv'
<1> USE DEF Inv
<1> DEFINE q == [status |-> "PENDING", by |-> asking[k].by, address |-> asking[k].address]
<1>1. /\ UNCHANGED <<accounts, book, inserted, writer, logged, contested>>
      /\ asked \in Nat /\ asked' = asked + 1 /\ asked' \in RequestIds
      /\ asked' \in 0 .. MaxRequests
      /\ asking' = [asking EXCEPT ![k] = Nothing]
      /\ asking[k] \in [by : Members, address : Addresses] /\ asking[k] # Nothing
  BY BookAssumption DEF CreateRequest, TypeOK, RequestIds
<1>2. q \in Stored /\ q.status = "PENDING" /\ q.by = asking[k].by /\ q.address = asking[k].address
      /\ q # Absent
  BY <1>1 DEF Stored, Statuses, Absent
<1>3. requests' = [requests EXCEPT ![asked'] = q] /\ requests[asked'] = Absent
  BY <1>1 DEF CreateRequest, TypeOK
<1> HIDE DEF q
<1>4. requests'[asked'] = q /\ \A i \in RequestIds : i # asked' => requests'[i] = requests[i]
  BY <1>1, <1>3 DEF TypeOK
<1>5. TypeOK'
  <2>1. \A i \in RequestIds : requests'[i] # Absent => i <= asked'
    BY <1>1, <1>4 DEF TypeOK, RequestIds
  <2>2. \A i \in RequestIds : i # asked' /\ requests[i].status = "PENDING" => requests[i] # q
    BY <1>2 DEF CreateRequest, Pending
  <2>3. \A i, j \in RequestIds : requests'[i] = requests'[j] /\ requests'[i].status = "PENDING"
                                 => i = j
    BY <1>4, <2>2 DEF TypeOK
  <2>4. requests' \in [RequestIds -> Stored \union {Absent}]
    BY <1>1, <1>2, <1>3 DEF TypeOK
  <2>5. asking' \in [Askers -> [by : Members, address : Addresses] \union {Nothing}]
    BY <1>1 DEF TypeOK
  <2> QED
    BY <1>1, <2>1, <2>3, <2>4, <2>5 DEF TypeOK
<1>6. ApprovalsKnow' /\ HeldByOne' /\ RowsKnown'
  <2>1. ~Locked(asked')
    <3> SUFFICES ASSUME NEW w \in Writers, Holds(w, asked') PROVE FALSE
      BY DEF Locked
    <3>1. writer[w].id <= asked /\ writer[w].id = asked'
      BY <1>1 DEF ApprovalsKnow, ApprovalKnows, Holds, RequestIds
    <3> QED
      BY <1>1, <3>1
  <2>2. asked <= asked' /\ asked' \in Nat /\ \A i \in RequestIds : i <= asked => i # asked'
    BY <1>1 DEF RequestIds
  <2>3. \A i \in RequestIds : Locked(i) => requests'[i] = requests[i]
    BY <1>4, <2>1
  <2>4. \A i \in RequestIds : i <= asked /\ requests'[i] # Absent =>
          requests[i] # Absent /\ requests'[i].address = requests[i].address
    BY <1>4, <2>2
  <2> QED
    BY <1>1, <2>2, <2>3, <2>4, HeldStay
<1>7. PendingLimit'
  <2> SUFFICES ASSUME NEW m \in Members
               PROVE  Cardinality(Pending(m)') + Cardinality(AskingFor(m)')
                        <= MaxPending + Cardinality(Askers) - 1
    BY DEF PendingLimit
  <2>1. /\ Cardinality(Pending(m)) + Cardinality(AskingFor(m))
             <= MaxPending + Cardinality(Askers) - 1
        /\ IsFiniteSet(Pending(m)) /\ Cardinality(Pending(m)) \in Nat
        /\ IsFiniteSet(AskingFor(m)) /\ Cardinality(AskingFor(m)) \in Nat
        /\ Cardinality(Askers) \in Nat /\ MaxPending \in Nat
    BY SetsFinite, LimitParts, BookAssumption DEF PendingLimit
  <2>2. CASE m = asking[k].by
    <3>1. Pending(m)' = Pending(m) \union {asked'} /\ asked' \notin Pending(m)
      BY <1>1, <1>2, <1>3, <1>4, <2>2 DEF Pending, Absent
    <3>2. Cardinality(Pending(m)') = Cardinality(Pending(m)) + 1
      BY <2>1, <3>1, FS_AddElement
    <3>3. AskingFor(m)' \subseteq AskingFor(m) \ {k} /\ k \in AskingFor(m)
      BY <1>1, <2>2, BookAssumption DEF AskingFor, TypeOK, Nothing
    <3>4. Cardinality(AskingFor(m) \ {k}) = Cardinality(AskingFor(m)) - 1
          /\ IsFiniteSet(AskingFor(m) \ {k})
      BY <2>1, <3>3, FS_RemoveElement
    <3>5. Cardinality(AskingFor(m)') \in Nat
          /\ Cardinality(AskingFor(m)') <= Cardinality(AskingFor(m) \ {k})
      BY <3>3, <3>4, Parts
    <3> QED
      BY <2>1, <3>2, <3>4, <3>5
  <2>3. CASE m # asking[k].by
    <3>1. Pending(m)' \subseteq Pending(m)
      BY <1>2, <1>4, <2>3 DEF Pending
    <3>2. AskingFor(m)' \subseteq AskingFor(m)
      BY <1>1, <2>3, BookAssumption DEF AskingFor, TypeOK, Nothing
    <3>3. Cardinality(Pending(m)') \in Nat /\ Cardinality(Pending(m)') <= Cardinality(Pending(m))
      BY <2>1, <3>1, Parts
    <3>4. /\ Cardinality(AskingFor(m)') \in Nat
          /\ Cardinality(AskingFor(m)') <= Cardinality(AskingFor(m))
      BY <2>1, <3>2, Parts
    <3> QED
      BY <2>1, <3>3, <3>4
  <2> QED
    BY <2>2, <2>3
<1>8. ItemsLimit'
  BY <1>1, FewerItems, LimitParts DEF Items, Inserting
<1>9. LimitsHoldButForOverlap'
  BY <1>7, <1>8 DEF LimitsHoldButForOverlap, PendingLimit, ItemsLimit
<1>10. BookAsLogged'
  BY <1>1 DEF BookAsLogged, Items
<1> QED
  BY <1>5, <1>6, <1>9, <1>10

\* Steps that take requests away, or askers.
LEMMA FewerStep ==
  ASSUME Inv, TypeOK', UNCHANGED <<asked, book, inserted, writer, logged, contested>>,
         \A i \in RequestIds : Locked(i) => requests'[i] = requests[i],
         \A i \in RequestIds : requests'[i] # Absent =>
           /\ requests[i] # Absent
           /\ requests'[i].address = requests[i].address /\ requests'[i].by = requests[i].by
           /\ requests'[i].status = "PENDING" => requests[i].status = "PENDING",
         \A m \in Members : AskingFor(m)' \subseteq AskingFor(m)
  PROVE  Inv'
<1> USE DEF Inv
<1>1. ApprovalsKnow' /\ HeldByOne' /\ RowsKnown'
  <2>1. asked' \in Nat /\ asked <= asked'
    BY BookAssumption DEF TypeOK
  <2> QED
    BY <2>1, HeldStay
<1>2. PendingLimit'
  <2>1. \A m \in Members : Pending(m)' \subseteq Pending(m)
    BY DEF Pending, Absent
  <2> QED
    BY <2>1, FewerPending, LimitParts
<1>3. ItemsLimit'
  BY FewerItems, LimitParts DEF Items, Inserting
<1>4. LimitsHoldButForOverlap'
  BY <1>2, <1>3 DEF LimitsHoldButForOverlap, PendingLimit, ItemsLimit
<1>5. BookAsLogged'
  BY DEF BookAsLogged, Items
<1> QED
  BY <1>1, <1>4, <1>5

LEMMA NotCreatedKeeps ==
  ASSUME Inv, NEW k \in Askers, NotCreated(k)
  PROVE  Inv'
<1> USE DEF Inv
<1>1. /\ UNCHANGED <<accounts, requests, asked, book, inserted, writer, logged, contested>>
      /\ asking' = [asking EXCEPT ![k] = Nothing]
  BY DEF NotCreated
<1>2. TypeOK'
  BY <1>1 DEF TypeOK
<1>3. \A m \in Members : AskingFor(m)' \subseteq AskingFor(m)
  BY <1>1, BookAssumption DEF AskingFor, TypeOK, Nothing
<1> QED
  BY <1>1, <1>2, <1>3, FewerStep

LEMMA RejectKeeps ==
  ASSUME Inv, NEW i \in RequestIds, Reject(i)
  PROVE  Inv'
<1> USE DEF Inv
<1>1. /\ UNCHANGED <<accounts, asked, book, inserted, asking, writer, logged, contested>>
      /\ requests[i].status = "PENDING" /\ ~Locked(i)
      /\ requests' = [requests EXCEPT ![i].status = "REJECTED"]
  BY DEF Reject
<1>2. requests[i] \in Stored /\ requests[i] # Absent
  BY <1>1 DEF TypeOK, Absent
<1>3. /\ requests'[i] \in Stored /\ requests'[i].status = "REJECTED"
      /\ requests'[i].by = requests[i].by /\ requests'[i].address = requests[i].address
      /\ \A j \in RequestIds : j # i => requests'[j] = requests[j]
  BY <1>1, <1>2 DEF TypeOK, Stored, Statuses
<1>4. TypeOK'
  <2>1. requests' \in [RequestIds -> Stored \union {Absent}]
    BY <1>1, <1>3 DEF TypeOK
  <2>2. \A j \in RequestIds : requests'[j] # Absent => j <= asked
    BY <1>2, <1>3 DEF TypeOK
  <2>3. \A j, k \in RequestIds : requests'[j] = requests'[k] /\ requests'[j].status = "PENDING"
                                 => j = k
    BY <1>3 DEF TypeOK
  <2> QED
    BY <1>1, <2>1, <2>2, <2>3 DEF TypeOK
<1>5. \A m \in Members : AskingFor(m)' \subseteq AskingFor(m)
  BY <1>1 DEF AskingFor
<1>6. \A j \in RequestIds : Locked(j) => requests'[j] = requests[j]
  BY <1>1, <1>3
<1>7. \A j \in RequestIds : requests'[j] # Absent =>
        /\ requests[j] # Absent
        /\ requests'[j].address = requests[j].address /\ requests'[j].by = requests[j].by
        /\ requests'[j].status = "PENDING" => requests[j].status = "PENDING"
  BY <1>1, <1>2, <1>3
<1> QED
  BY <1>1, <1>4, <1>5, <1>6, <1>7, FewerStep

LEMMA DeleteAccountKeeps ==
  ASSUME Inv, NEW m \in Members, DeleteAccount(m)
  PROVE  Inv'
<1> USE DEF Inv
<1>1. /\ UNCHANGED <<asked, book, inserted, asking, writer, logged, contested>>
      /\ accounts' \subseteq accounts
      /\ \A i \in RequestIds : requests[i].by = m => ~Locked(i)
      /\ requests' = [i \in RequestIds |-> IF requests[i].by = m THEN Absent ELSE requests[i]]
  BY DEF DeleteAccount
<1>2. \A i \in RequestIds : requests'[i] = requests[i] \/ requests'[i] = Absent
  BY <1>1
<1>3. TypeOK'
  <2>1. requests' \in [RequestIds -> Stored \union {Absent}]
    BY <1>1 DEF TypeOK
  <2>2. \A i, j \in RequestIds : requests'[i] = requests'[j] /\ requests'[i].status = "PENDING"
                                 => i = j
    BY <1>2 DEF TypeOK, Absent
  <2>3. \A i \in RequestIds : requests'[i] # Absent => i <= asked
    BY <1>2 DEF TypeOK
  <2> QED
    BY <1>1, <2>1, <2>2, <2>3 DEF TypeOK
<1>4. \A n \in Members : AskingFor(n)' \subseteq AskingFor(n)
  BY <1>1 DEF AskingFor
<1>5. \A i \in RequestIds : Locked(i) => requests'[i] = requests[i]
  BY <1>1
<1> QED
  BY <1>1, <1>2, <1>3, <1>4, <1>5, FewerStep

-----------------------------------------------------------------------------
\* What an approval decides, with the entry it stands for.
LEMMA DecidedKnows ==
  ASSUME Inv, NEW w \in Writers, writer[w] \in Busy, writer[w].at \in Holding
  PROVE  /\ Decided(w) \in [RequestIds -> Stored \union {Absent}]
         /\ \A i \in RequestIds : i # writer[w].id => Decided(w)[i] = requests[i]
         /\ writer[w].id = 0 => Decided(w) = requests
         /\ writer[w].id # 0 =>
              LET i == writer[w].id IN
              /\ i \in RequestIds /\ requests[i] \in Stored /\ requests[i] # Absent
              /\ requests[i].status = "PENDING" /\ Decided(w)[i].status = "APPROVED"
              /\ Decided(w)[i].by = requests[i].by /\ Decided(w)[i] \in Stored
              /\ Decided(w)[i].address = requests[i].address
              /\ requests[i].address = writer[w].address
<1> USE DEF Inv
<1> DEFINE i == writer[w].id
<1>1. \A j \in RequestIds : j # i => Decided(w)[j] = requests[j]
  BY DEF Decided
<1>2. i # 0 => i \in RequestIds
  BY BookAssumption DEF Busy, RequestIds
<1>3. ASSUME i # 0
      PROVE  /\ requests[i] \in Stored /\ requests[i] # Absent
             /\ requests[i].status = "PENDING" /\ requests[i].address = writer[w].address
  <2>1. requests[i].status = "PENDING" /\ requests[i] # Absent
    BY <1>3 DEF ApprovalsKnow, ApprovalKnows, Absent
  <2>2. requests[i].address = writer[w].address
    BY <1>3, <2>1 DEF ApprovalsKnow, ApprovalKnows, Holding
  <2> QED
    BY <1>2, <1>3, <2>1, <2>2 DEF TypeOK
<1>4. ASSUME i # 0
      PROVE  /\ Decided(w)[i] \in Stored /\ Decided(w)[i].status = "APPROVED"
             /\ Decided(w)[i].by = requests[i].by
             /\ Decided(w)[i].address = requests[i].address
  BY <1>2, <1>3, <1>4 DEF Decided, Stored, Statuses
<1>5. Decided(w) \in [RequestIds -> Stored \union {Absent}]
  <2>1. \A j \in RequestIds : Decided(w)[j] \in Stored \union {Absent}
    BY <1>1, <1>2, <1>4 DEF TypeOK, RequestIds
  <2>2. Decided(w) = [j \in RequestIds |-> Decided(w)[j]]
    BY DEF Decided
  <2> QED
    BY <2>1, <2>2
<1>6. ASSUME i = 0 PROVE Decided(w) = requests
  <2>1. \A j \in RequestIds : Decided(w)[j] = requests[j]
    BY <1>1, <1>6 DEF RequestIds
  <2>2. requests = [j \in RequestIds |-> requests[j]]
    BY DEF TypeOK
  <2>3. Decided(w) = [j \in RequestIds |-> Decided(w)[j]]
    BY DEF Decided
  <2> QED
    BY <2>1, <2>2, <2>3
<1> QED
  BY <1>1, <1>2, <1>3, <1>4, <1>5, <1>6

\* A writer that commits, with what it has decided, leaves the others what they know.
LEMMA CommitStep ==
  ASSUME Inv, NEW w \in Writers, writer[w] \in Busy, writer[w].at \in Holding,
         requests' = Decided(w), writer' = [writer EXCEPT ![w] = Idle],
         UNCHANGED <<accounts, asked, asking, contested>>,
         book' \in [Addresses -> 0 .. MaxRows], inserted' \in 0 .. MaxRows,
         \A a \in Addresses : book'[a] <= inserted',
         \A a \in Addresses : book[a] # 0 => book'[a] = book[a],
         logged' = logged \union {writer[w].address}
  PROVE  /\ TypeOK' /\ ApprovalsKnow' /\ HeldByOne' /\ RowsKnown' /\ PendingLimit'
         /\ Inserting' = Inserting \ {w}
<1> USE DEF Inv
<1> DEFINE i == writer[w].id
<1>1. /\ Decided(w) \in [RequestIds -> Stored \union {Absent}]
      /\ \A j \in RequestIds : j # i => requests'[j] = requests[j]
      /\ i # 0 => /\ i \in RequestIds /\ requests[i] \in Stored /\ requests[i] # Absent
                  /\ requests[i].status = "PENDING" /\ requests'[i].status = "APPROVED"
                  /\ requests'[i].address = requests[i].address
  BY DecidedKnows
<1>2. 0 \notin RequestIds
  BY DEF RequestIds
<1>3. writer'[w] = Idle /\ (\A v \in Writers : v # w => writer'[v] = writer[v])
  BY DEF TypeOK
<1>4. TypeOK'
  <2>1. \A j, k \in RequestIds : requests'[j] = requests'[k] /\ requests'[j].status = "PENDING"
                                 => j = k
    BY <1>1, <1>2 DEF TypeOK
  <2>2. \A j \in RequestIds : requests'[j] # Absent => j <= asked
    BY <1>1, <1>2 DEF TypeOK
  <2>3. writer[w].address \in Addresses
    BY DEF Busy
  <2> QED
    BY <1>1, <2>1, <2>2, <2>3 DEF TypeOK
<1>5. ApprovalsKnow'
  <2> SUFFICES ASSUME NEW v \in Writers, v # w, writer[v] \in Busy
               PROVE  ApprovalKnows(writer[v])'
    BY <1>3, IdleKnows DEF ApprovalsKnow, ApprovalKnows, TypeOK, Holding
  <2>1. ApprovalKnows(writer[v]) /\ writer'[v] = writer[v]
    BY <1>3 DEF ApprovalsKnow
  <2>2. writer[v].id # 0 => writer[v].id \in RequestIds
    BY BookAssumption DEF Busy, RequestIds
  <2>3. ASSUME writer[v].id # 0, writer[v].at \in Holding PROVE writer[v].id # i
    BY <2>2, <2>3 DEF HeldByOne, Holds, Holding
  <2>4. ASSUME writer[v].id # 0, requests'[writer[v].id] # Absent
        PROVE  /\ requests[writer[v].id] # Absent
               /\ requests'[writer[v].id].address = requests[writer[v].id].address
    BY <1>1, <1>2, <2>2, <2>4
  <2> QED
    BY <1>1, <2>1, <2>2, <2>3, <2>4 DEF ApprovalKnows
<1>6. HeldByOne'
  <2>1. \A v \in Writers, j \in RequestIds : Holds(v, j)' => Holds(v, j)
    BY <1>3 DEF Holds, Idle
  <2> QED
    BY <2>1 DEF HeldByOne
<1>7. RowsKnown'
  <2> SUFFICES ASSUME NEW v \in Writers, v # w, writer[v] \in Busy
               PROVE  RowKnown(writer[v])'
    BY <1>3, IdleKnows DEF RowsKnown, RowKnown, TypeOK
  <2>1. RowKnown(writer[v]) /\ writer'[v] = writer[v] /\ writer[v].address \in Addresses
    BY <1>3 DEF RowsKnown, Busy
  <2> QED
    BY <2>1 DEF RowKnown
<1>8. PendingLimit'
  <2>1. \A m \in Members : Pending(m)' \subseteq Pending(m)
    BY <1>1, <1>2 DEF Pending
  <2>2. \A m \in Members : AskingFor(m)' \subseteq AskingFor(m)
    BY DEF AskingFor
  <2> QED
    BY <2>1, <2>2, FewerPending, LimitParts
<1>9. Inserting' = Inserting \ {w}
  BY <1>3 DEF Inserting, Idle
<1> QED
  BY <1>4, <1>5, <1>6, <1>7, <1>8, <1>9

LEMMA UpdateItemKeeps ==
  ASSUME Inv, NEW w \in Writers, UpdateItem(w)
  PROVE  Inv'
<1> USE DEF Inv
<1>1. /\ writer[w].at = "update" /\ requests' = Decided(w)
      /\ logged' = logged \union {writer[w].address}
      /\ writer' = [writer EXCEPT ![w] = Idle]
      /\ UNCHANGED <<accounts, asked, book, inserted, asking, contested>>
  BY DEF UpdateItem
<1>2. writer[w] \in Busy /\ writer[w].at \in Holding
  BY <1>1, BusyWriter DEF Holding
<1>3. /\ book' \in [Addresses -> 0 .. MaxRows] /\ inserted' \in 0 .. MaxRows
      /\ \A a \in Addresses : book'[a] <= inserted'
  BY <1>1 DEF TypeOK
<1>4. /\ TypeOK' /\ ApprovalsKnow' /\ HeldByOne' /\ RowsKnown' /\ PendingLimit'
      /\ Inserting' = Inserting \ {w}
  BY <1>1, <1>2, <1>3, CommitStep
<1>5. ItemsLimit'
  BY <1>1, <1>4, FewerItems, LimitParts DEF Items
<1>6. LimitsHoldButForOverlap'
  BY <1>4, <1>5 DEF LimitsHoldButForOverlap, PendingLimit, ItemsLimit
<1>7. BookAsLogged'
  <2>1. book[writer[w].address] # 0 \/ writer[w].address \in contested
    BY <1>1 DEF RowsKnown, RowKnown
  <2> QED
    BY <1>1, <2>1 DEF BookAsLogged, Items
<1> QED
  BY <1>4, <1>6, <1>7

LEMMA InsertItemKeeps ==
  ASSUME Inv, NEW w \in Writers, InsertItem(w)
  PROVE  Inv'
<1> USE DEF Inv
<1> DEFINE a == writer[w].address
<1>1. /\ writer[w].at = "insert" /\ requests' = Decided(w)
      /\ book[a] = 0 /\ inserted < MaxRows /\ inserted' = inserted + 1
      /\ book' = [book EXCEPT ![a] = inserted']
      /\ logged' = logged \union {a} /\ writer' = [writer EXCEPT ![w] = Idle]
      /\ UNCHANGED <<accounts, asked, asking, contested>>
  BY DEF InsertItem
<1>2. writer[w] \in Busy /\ writer[w].at \in Holding /\ a \in Addresses
  BY <1>1, BusyWriter DEF Holding, Busy
<1>3. inserted \in Nat /\ inserted' \in 0 .. MaxRows /\ inserted' # 0 /\ inserted <= inserted'
  BY <1>1, BookAssumption DEF TypeOK
<1>4. /\ book' \in [Addresses -> 0 .. MaxRows] /\ book'[a] = inserted'
      /\ \A b \in Addresses : b # a => book'[b] = book[b]
  BY <1>1, <1>2, <1>3 DEF TypeOK
<1>5. \A b \in Addresses : book'[b] <= inserted'
  <2>1. \A b \in Addresses : book[b] <= inserted /\ book[b] \in Nat
    BY BookAssumption DEF TypeOK
  <2> QED
    BY <1>3, <1>4, <2>1
<1>6. \A b \in Addresses : book[b] # 0 => book'[b] = book[b]
  BY <1>1, <1>4
<1>7. /\ TypeOK' /\ ApprovalsKnow' /\ HeldByOne' /\ RowsKnown' /\ PendingLimit'
      /\ Inserting' = Inserting \ {w}
  BY <1>1, <1>2, <1>3, <1>4, <1>5, <1>6, CommitStep
<1>8. ItemsLimit'
  <2>1. Items' = Items \union {a} /\ a \notin Items
    BY <1>1, <1>2, <1>3, <1>4 DEF Items
  <2>2. Cardinality(Items') = Cardinality(Items) + 1
    BY <2>1, SetsFinite, FS_AddElement
  <2>3. w \in Inserting
    BY <1>1 DEF Inserting
  <2>4. Cardinality(Inserting') = Cardinality(Inserting) - 1
    BY <1>7, <2>3, SetsFinite, FS_RemoveElement
  <2>5. Cardinality(Items) \in Nat /\ Cardinality(Inserting) \in Nat
        /\ Cardinality(Writers) \in Nat
    BY SetsFinite
  <2> QED
    BY <2>2, <2>4, <2>5, LimitParts, BookAssumption DEF ItemsLimit
<1>9. LimitsHoldButForOverlap'
  BY <1>7, <1>8 DEF LimitsHoldButForOverlap, PendingLimit, ItemsLimit
<1>10. BookAsLogged'
  BY <1>1, <1>3, <1>4 DEF BookAsLogged, Items
<1> QED
  BY <1>7, <1>9, <1>10

\* An entry that is removed while others have read it is contested.
LEMMA DeleteItemKeeps ==
  ASSUME Inv, NEW w \in Writers, DeleteItem(w)
  PROVE  Inv'
<1> USE DEF Inv
<1> DEFINE a == writer[w].address
<1>1. /\ writer[w].at = "remove" /\ writer' = [writer EXCEPT ![w] = Idle]
      /\ book' = [book EXCEPT ![a] = IF book[a] = writer[w].row THEN 0 ELSE book[a]]
      /\ logged' = logged \ {a}
      /\ contested' = IF Overtakes(w) THEN contested \union {a} ELSE contested
      /\ UNCHANGED <<accounts, requests, asked, inserted, asking>>
  BY DEF DeleteItem
<1>2. writer[w] \in Busy /\ a \in Addresses
  BY <1>1, BusyWriter DEF Busy
<1>3. /\ book' \in [Addresses -> 0 .. MaxRows]
      /\ book'[a] = IF book[a] = writer[w].row THEN 0 ELSE book[a]
      /\ \A b \in Addresses : b # a => book'[b] = book[b]
  BY <1>1, <1>2, BookAssumption DEF TypeOK
<1>4. writer'[w] = Idle /\ (\A v \in Writers : v # w => writer'[v] = writer[v])
  BY <1>1 DEF TypeOK
<1>5. TypeOK'
  <2>1. \A b \in Addresses : book'[b] <= inserted
    BY <1>3, BookAssumption DEF TypeOK
  <2>2. writer' \in [Writers -> Busy \union {Idle}]
    BY <1>1 DEF TypeOK
  <2>3. logged' \subseteq Addresses /\ contested' \subseteq Addresses
    BY <1>1, <1>2 DEF TypeOK
  <2> QED
    BY <1>1, <1>3, <2>1, <2>2, <2>3 DEF TypeOK
<1>6. ApprovalsKnow'
  BY <1>1, <1>4, IdleKnows DEF ApprovalsKnow, ApprovalKnows
<1>7. HeldByOne'
  <2>1. \A v \in Writers, j \in RequestIds : Holds(v, j)' => Holds(v, j)
    BY <1>4 DEF Holds, Idle
  <2> QED
    BY <2>1 DEF HeldByOne
<1>8. RowsKnown'
  <2> SUFFICES ASSUME NEW v \in Writers, v # w, writer[v] \in Busy
               PROVE  RowKnown(writer[v])'
    BY <1>4, IdleKnows DEF RowsKnown, RowKnown, TypeOK
  <2>1. RowKnown(writer[v]) /\ writer'[v] = writer[v] /\ writer[v].address \in Addresses
    BY <1>4 DEF RowsKnown, Busy
  <2>2. contested \subseteq contested'
    BY <1>1
  <2>3. CASE writer[v].address # a
    BY <1>3, <2>1, <2>2, <2>3 DEF RowKnown
  <2>4. CASE writer[v].address = a
    <3>1. writer[v].at \in {"update", "remove"} => a \in contested'
      BY <1>1, <2>4 DEF Overtakes
    <3> QED
      BY <2>1, <2>4, <3>1 DEF RowKnown
  <2> QED
    BY <2>3, <2>4
<1>9. PendingLimit'
  BY <1>1, FewerPending, LimitParts DEF Pending, AskingFor
<1>10. ItemsLimit'
  <2>1. Items' \subseteq Items /\ Inserting' \subseteq Inserting
    BY <1>3, <1>4 DEF Items, Inserting, Idle
  <2> QED
    BY <2>1, FewerItems, LimitParts
<1>11. LimitsHoldButForOverlap'
  BY <1>9, <1>10 DEF LimitsHoldButForOverlap, PendingLimit, ItemsLimit
<1>12. BookAsLogged'
  <2>1. a \notin contested => book[a] = writer[w].row
    BY <1>1 DEF RowsKnown, RowKnown
  <2> QED
    BY <1>1, <1>3, <2>1 DEF BookAsLogged, Items
<1> QED
  BY <1>5, <1>6, <1>7, <1>8, <1>11, <1>12

-----------------------------------------------------------------------------
LEMMA InvStep == Inv /\ [Next]_vars => Inv'
<1> SUFFICES ASSUME Inv, [Next]_vars PROVE Inv'
  OBVIOUS
<1>1. ASSUME NEW k \in Askers, NEW m \in Members, NEW a \in Addresses, CountPending(k, m, a)
      PROVE  Inv'
  BY <1>1, CountPendingKeeps
<1>2. ASSUME NEW k \in Askers, CreateRequest(k) \/ NotCreated(k) PROVE Inv'
  BY <1>2, CreateRequestKeeps, NotCreatedKeeps
<1>3. ASSUME NEW i \in RequestIds, Reject(i) PROVE Inv'
  BY <1>3, RejectKeeps
<1>4. ASSUME NEW m \in Members, DeleteAccount(m) PROVE Inv'
  BY <1>4, DeleteAccountKeeps
<1>5. ASSUME NEW w \in Writers,
             Claim(w) \/ FindItem(w) \/ CheckItemsLimit(w) \/ UpdateItem(w) \/ InsertItem(w)
      PROVE  Inv'
  BY <1>5, ClaimKeeps, FindItemKeeps, CheckItemsLimitKeeps, UpdateItemKeeps, InsertItemKeeps
<1>6. ASSUME NEW w \in Writers, DeleteItem(w) \/ RollBack(w) PROVE Inv'
  BY <1>6, DeleteItemKeeps, RollBackKeeps
<1>7. ASSUME NEW w \in Writers, NEW i \in RequestIds, FindRequest(w, i) PROVE Inv'
  BY <1>7, FindRequestKeeps
<1>8. ASSUME NEW w \in Writers, NEW a \in Addresses, Upsert(w, a) \/ FindItemToDelete(w, a)
      PROVE  Inv'
  BY <1>8, UpsertKeeps, FindItemToDeleteKeeps
<1>9. CASE UNCHANGED vars
  <2>1. UNCHANGED <<accounts, requests, asked, book, inserted, asking, writer, logged, contested>>
    BY <1>9 DEF vars
  <2>2. TypeOK' /\ (\A m \in Members : AskingFor(m)' \subseteq AskingFor(m))
    BY <2>1 DEF Inv, TypeOK, AskingFor
  <2> QED
    BY <2>1, <2>2, FewerStep
<1> QED
  BY <1>1, <1>2, <1>3, <1>4, <1>5, <1>6, <1>7, <1>8, <1>9 DEF Next

LEMMA Invariance == Spec => []Inv
BY InitInv, InvStep, PTL DEF Spec

-----------------------------------------------------------------------------
\* Requests, entries, askers and writers keep their types; no member has two pending
\* requests for an address (the partial unique index of address_book_requests).
THEOREM TypeCorrect == Spec => []TypeOK
<1>1. Inv => TypeOK
  BY DEF Inv
<1> QED
  BY Invariance, <1>1, PTL

\* The limits on pending requests and on entries are exceeded by concurrency alone:
\* by no more than all but one of those that are served (createRequest,
\* checkItemsLimit).
THEOREM Limits == Spec => []LimitsHoldButForOverlap
<1>1. Inv => LimitsHoldButForOverlap
  BY DEF Inv
<1> QED
  BY Invariance, <1>1, PTL

\* The audit log tells the addresses of the book, but for those that were removed
\* while another writer had read their entry.
THEOREM Logged == Spec => []BookAsLogged
<1>1. Inv => BookAsLogged
  BY DEF Inv
<1> QED
  BY Invariance, <1>1, PTL

LEMMA DeskInit == Init => Desk!Init
BY DEF Init, Desk!Init, Items

\* A writer that only reads is not seen at the desk.
LEMMA EnterUnseen ==
  ASSUME NEW w, NEW s, Enter(w, s)
  PROVE  UNCHANGED Desk!vars
BY DEF Enter, Desk!vars, Items

\* An approval decides a request that is pending, with its entry in the book, unless
\* that was removed meanwhile.
LEMMA ApproveSeen ==
  ASSUME Inv, NEW w \in Writers, writer[w] \in Busy, writer[w].at \in Holding,
         requests' = Decided(w), UNCHANGED contested, writer[w].id # 0,
         writer[w].address \in Items' \union contested
  PROVE  \E i \in RequestIds : Desk!Approve(i)
<1> DEFINE i == writer[w].id
<1>1. /\ \A j \in RequestIds : j # i => requests'[j] = requests[j]
      /\ i \in RequestIds /\ requests[i] # Absent /\ requests'[i] \in Stored
      /\ requests[i].status = "PENDING" /\ requests'[i].status = "APPROVED"
      /\ requests'[i].by = requests[i].by /\ requests'[i].address = requests[i].address
      /\ requests[i].address = writer[w].address
  BY DecidedKnows
<1>2. requests'[i] # Absent
  BY <1>1 DEF Absent
<1>3. Desk!Approve(i)
  BY <1>1, <1>2 DEF Desk!Approve, Desk!Present, Desk!SameRequest, Desk!OthersKept
<1> QED
  BY <1>1, <1>3

Seen == Desk!Next \/ UNCHANGED Desk!vars

LEMMA DeskStep == Inv /\ [Next]_vars => [Desk!Next]_(Desk!vars)
<1> SUFFICES ASSUME Inv, [Next]_vars PROVE Seen
  BY DEF Seen, Desk!vars
<1> USE DEF Inv
<1>1. ASSUME NEW k \in Askers, NEW m \in Members, NEW a \in Addresses,
             CountPending(k, m, a)
      PROVE  Seen
  BY <1>1 DEF CountPending, Desk!vars, Items, Seen
<1>2. ASSUME NEW k \in Askers, CreateRequest(k) PROVE Seen
  <2>1. /\ UNCHANGED <<book, contested>> /\ asked' \in RequestIds
        /\ requests[asked'] = Absent
    BY <1>2, BookAssumption DEF CreateRequest, TypeOK, RequestIds
  <2>2. /\ requests'[asked'].status = "PENDING"
        /\ \A j \in RequestIds : j # asked' => requests'[j] = requests[j]
    BY <1>2, <2>1 DEF CreateRequest, TypeOK
  <2>3. requests'[asked'] # Absent
    BY <2>2 DEF Absent
  <2>4. Desk!Ask(asked')
    BY <2>1, <2>2, <2>3 DEF Desk!Ask, Desk!Present, Desk!OthersKept, Items
  <2> QED
    BY <2>1, <2>4 DEF Desk!Next, Seen
<1>3. ASSUME NEW i \in RequestIds, Reject(i) PROVE Seen
  <2>1. requests[i] \in Stored /\ requests[i] # Absent /\ requests[i].status = "PENDING"
    BY <1>3 DEF Reject, TypeOK, Absent
  <2>2. /\ UNCHANGED <<book, contested>> /\ requests'[i].status = "REJECTED"
        /\ requests'[i].by = requests[i].by /\ requests'[i].address = requests[i].address
        /\ \A j \in RequestIds : j # i => requests'[j] = requests[j]
    BY <1>3, <2>1 DEF Reject, TypeOK, Stored
  <2>3. requests'[i] # Absent
    BY <2>2 DEF Absent
  <2>4. Desk!Reject(i)
    BY <2>1, <2>2, <2>3
       DEF Desk!Reject, Desk!Present, Desk!SameRequest, Desk!OthersKept, Items
  <2> QED
    BY <2>4 DEF Desk!Next, Seen
<1>4. ASSUME NEW m \in Members, DeleteAccount(m) PROVE Seen
  <2>1. Desk!Withdraw
    BY <1>4 DEF DeleteAccount, Desk!Withdraw, Items
  <2> QED
    BY <2>1 DEF Desk!Next, Seen
<1>5. ASSUME NEW w \in Writers, Claim(w) \/ FindItem(w) \/ CheckItemsLimit(w) \/ RollBack(w)
      PROVE  Seen
  BY <1>5, EnterUnseen DEF Claim, FindItem, CheckItemsLimit, RollBack, Seen
<1>6. ASSUME NEW w \in Writers, NEW i \in RequestIds, FindRequest(w, i)
      PROVE  Seen
  BY <1>6, EnterUnseen DEF FindRequest, Seen
<1>7. ASSUME NEW w \in Writers, NEW a \in Addresses, Upsert(w, a) \/ FindItemToDelete(w, a)
      PROVE  Seen
  BY <1>7, EnterUnseen DEF Upsert, FindItemToDelete, Seen
<1>8. ASSUME NEW w \in Writers, UpdateItem(w) PROVE Seen
  <2>1. /\ writer[w] \in Busy /\ writer[w].at = "update" /\ writer[w].at \in Holding
        /\ requests' = Decided(w) /\ UNCHANGED <<book, contested>>
        /\ writer[w].address \in Addresses
    BY <1>8, BusyWriter DEF UpdateItem, Holding, Busy
  <2>2. CASE writer[w].id = 0
    BY <2>1, <2>2, DecidedKnows DEF Desk!vars, Items, Seen
  <2>3. CASE writer[w].id # 0
    <3>1. writer[w].address \in Items' \union contested
      BY <2>1 DEF RowsKnown, RowKnown, Items
    <3> QED
      BY <2>1, <2>3, <3>1, ApproveSeen DEF Desk!Next, Seen
  <2> QED
    BY <2>2, <2>3
<1>9. ASSUME NEW w \in Writers, InsertItem(w) PROVE Seen
  <2>1. /\ writer[w] \in Busy /\ writer[w].at \in Holding /\ writer[w].address \in Addresses
        /\ requests' = Decided(w) /\ UNCHANGED contested
        /\ book'[writer[w].address] # 0
    BY <1>9, BusyWriter, BookAssumption DEF InsertItem, Holding, Busy, TypeOK
  <2>2. CASE writer[w].id = 0
    BY <2>1, <2>2, DecidedKnows DEF Desk!Next, Desk!Edit, Seen
  <2>3. CASE writer[w].id # 0
    <3>1. writer[w].address \in Items'
      BY <2>1 DEF Items
    <3> QED
      BY <2>1, <2>3, <3>1, ApproveSeen DEF Desk!Next, Seen
  <2> QED
    BY <2>2, <2>3
<1>10. ASSUME NEW w \in Writers, DeleteItem(w) PROVE Seen
  BY <1>10 DEF DeleteItem, Desk!Next, Desk!Edit, Seen
<1>11. CASE UNCHANGED vars
  BY <1>11 DEF vars, Desk!vars, Items, Seen
<1>12. ASSUME NEW k \in Askers, NotCreated(k) PROVE Seen
  BY <1>12 DEF NotCreated, Desk!vars, Items, Seen
<1> QED
  BY <1>1, <1>2, <1>3, <1>4, <1>5, <1>6, <1>7, <1>8, <1>9, <1>10, <1>11, <1>12 DEF Next

\* The address book does what the desk promises: every request is decided once, for
\* good, and an approved address is in the book unless its entry was removed from
\* under the approval (approve, reject).
THEOREM Implements == Spec => ImplementsDesk
BY DeskInit, DeskStep, Invariance, PTL DEF Spec, ImplementsDesk, Desk!Spec
=============================================================================
