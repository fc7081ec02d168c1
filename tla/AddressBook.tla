------------------------------ MODULE AddressBook ------------------------------
(***************************************************************************)
(* The address book of a workspace, and requests to add to it:             *)
(*   src/src/modules/spaces/routes/address-books/                          *)
(*     address-book-requests.service.ts                                    *)
(*   src/src/modules/spaces/domain/address-books/                          *)
(*     address-book-requests.repository.ts                                 *)
(*     address-book-items.repository.ts                                    *)
(*                                                                         *)
(* Members ask, admins approve or reject, and also edit the book directly. *)
(* Askers and writers are requests that are being served.  Transactions    *)
(* are READ COMMITTED: a statement sees what has been committed by then,   *)
(* a row that is updated is locked until the end, and all that is written  *)
(* is seen at once.  The update that claims a request and the look-ups     *)
(* after it are steps of the approval; the last write and the commit are   *)
(* one.  A unique index is the guard of the step that inserts.             *)
(*                                                                         *)
(* One space, with one entry at a time; several entries in one payload,    *)
(* names, chains, encryption and the deletion of the space are left out.   *)
(* Membership is SpaceMembers: an admin who is none any more fails.        *)
(***************************************************************************)
EXTENDS Integers, FiniteSets

CONSTANTS Members, Addresses,
          Askers, Writers,   \* bound: requests served at a time
          MaxPending,        \* spaces.addressBookRequests.maxPending
          MaxItems,          \* spaces.addressBooks.maxItems
          MaxRequests,       \* bound: requests ever created
          MaxRows            \* bound: entries ever inserted

ASSUME BookAssumption ==
  /\ "nobody" \notin Members /\ IsFiniteSet(Addresses)
  /\ IsFiniteSet(Askers) /\ Askers # {} /\ IsFiniteSet(Writers) /\ Writers # {}
  /\ MaxPending \in Nat \ {0} /\ MaxItems \in Nat \ {0}
  /\ MaxRequests \in Nat /\ MaxRows \in Nat

VARIABLES
  accounts,   \* members whose account exists
  requests,   \* address_book_requests
  asked,      \* ids handed out to requests
  book,       \* space_address_book_items: the id of each address's row, or 0
  inserted,   \* ids handed out to entries
  asking,     \* askers: the requests about to be inserted
  writer,     \* writers: where they are, for which request, address and row
  logged,     \* the addresses of the book, as the audit log tells them
  contested   \* history: addresses removed while others had read their row

vars == <<accounts, requests, asked, book, inserted, asking, writer, logged, contested>>

RequestIds == 1 .. MaxRequests
Absent == [status |-> "absent", by |-> "nobody", address |-> "none"]
Statuses == {"PENDING", "APPROVED", "REJECTED"}
Stored == [status : Statuses, by : Members, address : Addresses]

Nothing == [by |-> "nobody", address |-> "none"]
Idle == [at |-> "idle", id |-> 0, address |-> "none", row |-> 0]
\* Between its first look at the book and its commit.
Reading == {"update", "count", "insert", "remove"}
Busy == [at : {"claim", "find"} \union Reading, id : 0 .. MaxRequests,
         address : Addresses, row : 0 .. MaxRows]

Pending(m) == {i \in RequestIds : requests[i].status = "PENDING" /\ requests[i].by = m}
Items == {a \in Addresses : book[a] # 0}
AskingFor(m) == {k \in Askers : asking[k].by = m}
Inserting == {w \in Writers : writer[w].at = "insert"}

\* The approval whose transaction holds the row of a request.
Holds(w, i) == writer[w].id = i /\ writer[w].at \in {"find", "update", "count", "insert"}
Locked(i) == \E w \in Writers : Holds(w, i)

TypeOK ==
  /\ accounts \subseteq Members
  /\ requests \in [RequestIds -> Stored \union {Absent}]
  /\ asked \in 0 .. MaxRequests
  /\ \A i \in RequestIds : requests[i] # Absent => i <= asked
  /\ \A i, j \in RequestIds : requests[i] = requests[j] /\ requests[i].status = "PENDING"
                              => i = j
  /\ book \in [Addresses -> 0 .. MaxRows]
  /\ inserted \in 0 .. MaxRows
  /\ \A a \in Addresses : book[a] <= inserted
  /\ asking \in [Askers -> [by : Members, address : Addresses] \union {Nothing}]
  /\ writer \in [Writers -> Busy \union {Idle}]
  /\ logged \subseteq Addresses /\ contested \subseteq Addresses

Init ==
  /\ accounts = Members
  /\ requests = [i \in RequestIds |-> Absent] /\ asked = 0
  /\ book = [a \in Addresses |-> 0] /\ inserted = 0
  /\ asking = [k \in Askers |-> Nothing]
  /\ writer = [w \in Writers |-> Idle]
  /\ logged = {} /\ contested = {}

-----------------------------------------------------------------------------
(* Requests.                                                                *)

\* createRequest counts the member's pending requests, in no transaction.
CountPending(k, m, a) ==
  /\ asking[k] = Nothing /\ m \in accounts
  /\ Cardinality(Pending(m)) < MaxPending
  /\ asking' = [asking EXCEPT ![k] = [by |-> m, address |-> a]]
  /\ UNCHANGED <<accounts, requests, asked, book, inserted, writer, logged, contested>>

\* create: the index on pending requests and the foreign key refuse the rest.
CreateRequest_Repeats(k) ==
  /\ asking[k] # Nothing /\ asking[k].by \in accounts
  /\ asked < MaxRequests
  /\ asked' = asked + 1
  /\ requests' = [requests EXCEPT ![asked'] =
       [status |-> "PENDING", by |-> asking[k].by, address |-> asking[k].address]]
  /\ asking' = [asking EXCEPT ![k] = Nothing]
  /\ UNCHANGED <<accounts, book, inserted, writer, logged, contested>>
CreateRequest(k) ==
  /\ asking[k] # Nothing /\ asking[k].by \in accounts
  /\ \A i \in Pending(asking[k].by) : requests[i].address # asking[k].address
  /\ asked < MaxRequests
  /\ asked' = asked + 1
  /\ requests' = [requests EXCEPT ![asked'] =
       [status |-> "PENDING", by |-> asking[k].by, address |-> asking[k].address]]
  /\ asking' = [asking EXCEPT ![k] = Nothing]
  /\ UNCHANGED <<accounts, book, inserted, writer, logged, contested>>

NotCreated(k) ==
  /\ asking[k] # Nothing
  /\ asking' = [asking EXCEPT ![k] = Nothing]
  /\ UNCHANGED <<accounts, requests, asked, book, inserted, writer, logged, contested>>

\* reject: the update waits for an approval that holds the row, and finds the
\* request decided if that commits.
Reject(i) ==
  /\ requests[i].status = "PENDING" /\ ~Locked(i)
  /\ requests' = [requests EXCEPT ![i].status = "REJECTED"]
  /\ UNCHANGED <<accounts, asked, book, inserted, asking, writer, logged, contested>>

\* An account goes with its requests, once no approval holds one.
DeleteAccount(m) ==
  /\ m \in accounts
  /\ \A i \in RequestIds : requests[i].by = m => ~Locked(i)
  /\ accounts' = accounts \ {m}
  /\ requests' = [i \in RequestIds |-> IF requests[i].by = m THEN Absent ELSE requests[i]]
  /\ UNCHANGED <<asked, book, inserted, asking, writer, logged, contested>>

-----------------------------------------------------------------------------
(* Writers.                                                                 *)

Enter(w, step) ==
  /\ writer' = [writer EXCEPT ![w] = step]
  /\ UNCHANGED <<accounts, requests, asked, book, inserted, asking, logged, contested>>

\* approve reads the request, whatever its status, before its transaction.
FindRequest(w, i) ==
  /\ writer[w] = Idle /\ requests[i] # Absent
  /\ Enter(w, [at |-> "claim", id |-> i, address |-> requests[i].address, row |-> 0])

\* transitionFromPending waits for another approval of the request; only a pending
\* one is claimed.
Claim_AnyStatus(w) ==
  /\ writer[w].at = "claim" /\ ~Locked(writer[w].id)
  /\ Enter(w, IF requests[writer[w].id] # Absent
              THEN [writer[w] EXCEPT !.at = "find"] ELSE Idle)
Claim(w) ==
  /\ writer[w].at = "claim" /\ ~Locked(writer[w].id)
  /\ Enter(w, IF requests[writer[w].id].status = "PENDING"
              THEN [writer[w] EXCEPT !.at = "find"] ELSE Idle)

\* updateExistingAddressBookItems looks for the address.
Found(step) ==
  [step EXCEPT !.row = book[step.address],
               !.at = IF book[step.address] # 0 THEN "update" ELSE "count"]
FindItem(w) == writer[w].at = "find" /\ Enter(w, Found(writer[w]))

\* upsertMany, without a request.
Upsert(w, a) ==
  /\ writer[w] = Idle
  /\ Enter(w, Found([at |-> "find", id |-> 0, address |-> a, row |-> 0]))

\* checkItemsLimit: the transaction sees no entries but the committed ones.
CheckItemsLimit_OffByOne(w) ==
  /\ writer[w].at = "count"
  /\ Enter(w, IF Cardinality(Items) <= MaxItems
              THEN [writer[w] EXCEPT !.at = "insert"] ELSE Idle)
CheckItemsLimit(w) ==
  /\ writer[w].at = "count"
  /\ Enter(w, IF Cardinality(Items) + 1 <= MaxItems
              THEN [writer[w] EXCEPT !.at = "insert"] ELSE Idle)

\* What an approval decides when it commits.
Decided(w) == [i \in RequestIds |-> IF i = writer[w].id
                                    THEN [requests[i] EXCEPT !.status = "APPROVED"]
                                    ELSE requests[i]]

\* The row is updated by its id: nothing happens to one that is gone, and the
\* update is recorded all the same.
UpdateItem(w) ==
  /\ writer[w].at = "update"
  /\ requests' = Decided(w)
  /\ logged' = logged \union {writer[w].address}
  /\ writer' = [writer EXCEPT ![w] = Idle]
  /\ UNCHANGED <<accounts, asked, book, inserted, asking, contested>>

\* createNewAddressBookItems: the index refuses an address that is there by now.
InsertItem_LogsDirectOnly(w) ==
  /\ writer[w].at = "insert" /\ book[writer[w].address] = 0 /\ inserted < MaxRows
  /\ inserted' = inserted + 1
  /\ book' = [book EXCEPT ![writer[w].address] = inserted']
  /\ requests' = Decided(w)
  /\ logged' = IF writer[w].id = 0 THEN logged \union {writer[w].address} ELSE logged
  /\ writer' = [writer EXCEPT ![w] = Idle]
  /\ UNCHANGED <<accounts, asked, asking, contested>>
InsertItem(w) ==
  /\ writer[w].at = "insert" /\ book[writer[w].address] = 0 /\ inserted < MaxRows
  /\ inserted' = inserted + 1
  /\ book' = [book EXCEPT ![writer[w].address] = inserted']
  /\ requests' = Decided(w)
  /\ logged' = logged \union {writer[w].address}
  /\ writer' = [writer EXCEPT ![w] = Idle]
  /\ UNCHANGED <<accounts, asked, asking, contested>>

\* deleteByAddress: an address that is not in the book is no error.
FindItemToDelete(w, a) ==
  /\ writer[w] = Idle /\ book[a] # 0
  /\ Enter(w, [at |-> "remove", id |-> 0, address |-> a, row |-> book[a]])

\* Others who have read the entry that is being removed.
Overtakes(w) == \E v \in Writers \ {w} : /\ writer[v].at \in {"update", "remove"}
                                         /\ writer[v].address = writer[w].address

DeleteItem(w) ==
  /\ writer[w].at = "remove"
  /\ LET a == writer[w].address
     IN  /\ book' = [book EXCEPT ![a] = IF @ = writer[w].row THEN 0 ELSE @]
         /\ logged' = logged \ {a}
         /\ contested' = IF Overtakes(w) THEN contested \union {a} ELSE contested
  /\ writer' = [writer EXCEPT ![w] = Idle]
  /\ UNCHANGED <<accounts, requests, asked, inserted, asking>>

\* Anything may fail on the way, and rolls back.
RollBack(w) == writer[w] # Idle /\ Enter(w, Idle)

Next ==
  \/ \E k \in Askers : \/ CreateRequest(k) \/ NotCreated(k)
                       \/ \E m \in Members, a \in Addresses : CountPending(k, m, a)
  \/ \E i \in RequestIds : Reject(i)
  \/ \E m \in Members : DeleteAccount(m)
  \/ \E w \in Writers :
       \/ Claim(w) \/ FindItem(w) \/ CheckItemsLimit(w) \/ UpdateItem(w) \/ InsertItem(w)
       \/ DeleteItem(w) \/ RollBack(w)
       \/ \E i \in RequestIds : FindRequest(w, i)
       \/ \E a \in Addresses : Upsert(w, a) \/ FindItemToDelete(w, a)

Spec == Init /\ [][Next]_vars

-----------------------------------------------------------------------------
(* Properties.                                                              *)

\* Both limits are counted before the insert they allow, and are exceeded by
\* concurrency alone: what is stored and what is about to be, taken together, is
\* never more than the limit by more than all but one of the requests that are
\* served at a time (createRequest: "at most ... pending requests"; checkItemsLimit).
LimitsHoldButForOverlap ==
  /\ \A m \in Members : Cardinality(Pending(m)) + Cardinality(AskingFor(m))
                          <= MaxPending + Cardinality(Askers) - 1
  /\ Cardinality(Items) + Cardinality(Inserting) <= MaxItems + Cardinality(Writers) - 1

\* The audit log and the book name the same addresses, but for those that were
\* removed while another writer had read their entry: that one records an update
\* of a row that is gone, or a removal of one that is back.
BookAsLogged == \A a \in Addresses \ contested : a \in logged <=> a \in Items

\* Approvals and rejections that race decide each request once, and an approved
\* address is in the book (approve: "Only pending requests can be approved.").
Desk == INSTANCE RequestDesk WITH
  Ids <- RequestIds, listed <- Items
ImplementsDesk == Desk!Spec
=============================================================================
