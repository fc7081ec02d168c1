------------------------------ MODULE RequestDesk ------------------------------
(* What the review of address book requests promises: every request is decided *)
(* once, for good, and an approval comes with an entry for its address, unless *)
(* that entry was removed from under it.                                       *)
CONSTANTS Ids, Absent

VARIABLES requests,   \* each request, or Absent
          listed,     \* addresses in the book
          contested   \* addresses removed while somebody else was writing them

vars == <<requests, listed, contested>>

Init == requests = [i \in Ids |-> Absent] /\ listed = {} /\ contested = {}

Present(i) == requests[i] # Absent
SameRequest(i) == /\ requests'[i] # Absent
                  /\ requests'[i].by = requests[i].by
                  /\ requests'[i].address = requests[i].address
OthersKept(i) == \A j \in Ids \ {i} : requests'[j] = requests[j]

Ask(i) ==
  /\ ~Present(i) /\ requests'[i] # Absent /\ requests'[i].status = "PENDING"
  /\ OthersKept(i)
  /\ UNCHANGED <<listed, contested>>

Approve(i) ==
  /\ Present(i) /\ requests[i].status = "PENDING"
  /\ SameRequest(i) /\ requests'[i].status = "APPROVED" /\ OthersKept(i)
  /\ requests[i].address \in listed' \union contested
  /\ UNCHANGED contested

Reject(i) ==
  /\ Present(i) /\ requests[i].status = "PENDING"
  /\ SameRequest(i) /\ requests'[i].status = "REJECTED" /\ OthersKept(i)
  /\ UNCHANGED <<listed, contested>>

\* Requests go with their requester.
Withdraw ==
  /\ \A i \in Ids : requests'[i] \in {requests[i], Absent}
  /\ UNCHANGED <<listed, contested>>

\* The book is also edited without any request.
Edit == contested \subseteq contested' /\ UNCHANGED requests

Next == Withdraw \/ Edit \/ \E i \in Ids : Ask(i) \/ Approve(i) \/ Reject(i)

Spec == Init /\ [][Next]_vars
=============================================================================
