----------------------- MODULE SubscriptionSync_proofs -----------------------
(***************************************************************************)
(* Proofs about SubscriptionSync for any number of subscriptions, handlers *)
(* and deliveries, whatever the events carry and whatever upstream lists:  *)
(* its types, the single active slot, marks that only rise, and that a     *)
(* space whose events are all acked has the plan it has upstream.          *)
(***************************************************************************)
EXTENDS SubscriptionSync, WellFoundedInduction, TLAPS

\* A bounded set of naturals has a greatest element: the least of the distances
\* to the bound.
LEMMA GreatestElement ==
  ASSUME NEW n \in Nat, NEW S, S \subseteq 0 .. n, S # {}
  PROVE  \E m \in S : \A x \in S : x <= m
<1> DEFINE T == {n - x : x \in S}
           R == OpToRel(<, Nat)
<1>1. T \subseteq Nat /\ T # {}
  <2>1. \A x \in S : x \in 0 .. n OBVIOUS
  <2>2. \A x \in S : n - x \in Nat BY <2>1
  <2>3. T \subseteq Nat BY <2>2
  <2>4. PICK x \in S : TRUE OBVIOUS
  <2>5. n - x \in T OBVIOUS
  <2> QED BY <2>3, <2>5
<1>2. IsWellFoundedOn(R, Nat) BY NatLessThanWellFounded
<1>3. PICK d \in T : \A y \in T : ~(<<y, d>> \in R)
  <2> HIDE DEF T, R
  <2> QED BY <1>1, <1>2, WFMin
<1>4. \A y \in T : ~(y < d)
  <2> SUFFICES ASSUME NEW y \in T, y < d PROVE FALSE OBVIOUS
  <2>1. y \in Nat /\ d \in Nat BY <1>1
  <2>2. <<y, d>> \in R BY <2>1 DEF OpToRel
  <2> QED BY <2>2, <1>3
<1>5. PICK m \in S : d = n - m OBVIOUS
<1>6. ASSUME NEW x \in S PROVE x <= m
  <2>1. n - x \in T OBVIOUS
  <2>2. ~(n - x < d) BY <2>1, <1>4
  <2>3. x \in 0 .. n /\ m \in 0 .. n OBVIOUS
  <2> QED BY <2>2, <2>3, <1>5
<1> QED BY <1>6

Greatest(m) == /\ m \in Stamps
               /\ \E s \in Subs : rows[s].mark = m
               /\ \A s \in Subs : rows[s].mark <= m

\* Mark is what MAX(last_event_at) is: the greatest mark of a row.
LEMMA MarkIsGreatest ==
  ASSUME rows \in [Subs -> Rows]
  PROVE  Greatest(Mark)
<1> DEFINE M == {rows[s].mark : s \in Subs}
<1>1. M \subseteq 0 .. MaxTime
  <2>1. ASSUME NEW s \in Subs PROVE rows[s].mark \in 0 .. MaxTime
    <3>1. rows[s] \in Rows OBVIOUS
    <3> QED BY <3>1 DEF Rows, Stamps
  <2> QED BY <2>1
<1>2. M # {}
  <2>1. 1 \in Subs BY SyncAssumption DEF Subs
  <2>2. rows[1].mark \in M BY <2>1
  <2> QED BY <2>2
<1>3. PICK m \in M : \A x \in M : x <= m
  <2> HIDE DEF M
  <2> QED BY <1>1, <1>2, SyncAssumption, GreatestElement
<1>4. Greatest(m) BY <1>1, <1>3 DEF Greatest, Stamps
<1> QED BY <1>4 DEF Greatest, Mark

\* i is the last of the first k changes in cs that concerns s; 0 if none is.
IsLast(cs, k, s, i) ==
  /\ i \in 0 .. k
  /\ i > 0 => cs[i].sub = s
  /\ \A j \in i + 1 .. k : cs[j].sub # s

LastIn(cs, k, s) ==
  CHOOSE i \in 0 .. k : /\ i > 0 => cs[i].sub = s
                        /\ \A j \in i + 1 .. k : cs[j].sub # s

LEMMA LastInIsLast ==
  ASSUME NEW cs, NEW k \in Nat, NEW s
  PROVE  IsLast(cs, k, s, LastIn(cs, k, s))
<1> DEFINE Own == {i \in 1 .. k : cs[i].sub = s}
<1>1. \E i \in 0 .. k : /\ i > 0 => cs[i].sub = s
                        /\ \A j \in i + 1 .. k : cs[j].sub # s
  <2>1. CASE Own = {}
    <3>1. \A j \in 0 + 1 .. k : cs[j].sub # s BY <2>1
    <3>2. 0 \in 0 .. k OBVIOUS
    <3> QED BY <3>1, <3>2
  <2>2. CASE Own # {}
    <3>1. Own \subseteq 0 .. k OBVIOUS
    <3>2. PICK m \in Own : \A x \in Own : x <= m
      <4> HIDE DEF Own
      <4> QED BY <3>1, <2>2, GreatestElement
    <3>3. \A j \in m + 1 .. k : cs[j].sub # s BY <3>2
    <3> QED BY <3>2, <3>3
  <2> QED BY <2>1, <2>2
<1> QED BY <1>1 DEF LastIn, IsLast

LEMMA OneLast ==
  ASSUME NEW cs, NEW k \in Nat, NEW s, NEW i, NEW j,
         IsLast(cs, k, s, i), IsLast(cs, k, s, j)
  PROVE  i = j
<1>1. i \in 0 .. k /\ j \in 0 .. k BY DEF IsLast
<1>2. ~(i < j) BY <1>1 DEF IsLast
<1>3. ~(j < i) BY <1>1 DEF IsLast
<1> QED BY <1>1, <1>2, <1>3

\* What LastOf computes, before a step and after it.
LEMMA LastOfIn ==
  ASSUME NEW k \in Nat, NEW s
  PROVE  /\ IsLast(changes, k, s, LastOf(k, s))
         /\ IsLast(changes', k, s, LastOf(k, s)')
<1>1. LastOf(k, s) = LastIn(changes, k, s) BY DEF LastOf, LastIn
<1>2. LastOf(k, s)' = LastIn(changes', k, s) BY DEF LastOf, LastIn
<1> QED BY <1>1, <1>2, LastInIsLast

LEMMA LastOfIs ==
  ASSUME NEW k \in Nat, NEW s
  PROVE  IsLast(changes, k, s, LastOf(k, s))
BY LastOfIn

LEMMA LastOfIsLast ==
  ASSUME NEW k \in Nat, NEW s
  PROVE  /\ LastOf(k, s) \in 0 .. k
         /\ LastOf(k, s) > 0 => changes[LastOf(k, s)].sub = s
BY LastOfIs DEF IsLast

-----------------------------------------------------------------------------
\* What a handler holds was there to be read.
HeldIsReal ==
  \A h \in Handlers :
    /\ pc[h] # "idle" => event[h] \in delivered
    /\ seen[h] \in 0 .. Len(changes)

Inv == TypeOK /\ HeldIsReal /\ OneActive

LEMMA InitInv == Init => Inv
BY SyncAssumption
   DEF Init, Inv, TypeOK, HeldIsReal, OneActive, Rows, NoRow, Stamps, Statuses,
       Events, Change

\* Incoming states that materializeUnderLock accepts: at most one is active.
Incoming(in) ==
  /\ DOMAIN in \subseteq Subs
  /\ \A s \in DOMAIN in : in[s].status \in Statuses /\ in[s].change \in 0 .. MaxChanges
  /\ \A s, t \in DOMAIN in :
       in[s].status = "active" /\ in[t].status = "active" => s = t

\* Materializing keeps the table's types and the single slot, and moves no mark
\* back, if the stamp is not before the mark.
LEMMA MaterializedKeeps ==
  ASSUME NEW in, NEW stamp, Incoming(in),
         rows \in [Subs -> Rows], OneActive,
         stamp \in Stamps, stamp >= Mark,
         rows' = Materialized(in, stamp)
  PROVE  /\ rows' \in [Subs -> Rows]
         /\ OneActive'
         /\ \A s \in Subs : rows'[s].mark >= rows[s].mark
<1>1. Greatest(Mark) BY MarkIsGreatest
<1>2. ASSUME NEW s \in Subs
      PROVE  rows'[s] \in Rows /\ rows'[s].mark >= rows[s].mark
  <2>1. rows[s] \in Rows /\ rows[s].mark <= stamp /\ rows[s].mark \in Nat
    BY <1>1, SyncAssumption DEF Greatest, Rows, Stamps
  <2>2. stamp >= rows[s].mark BY <2>1, SyncAssumption DEF Stamps
  <2>3. CASE s \in DOMAIN in
    <3>1. rows'[s] = [status |-> in[s].status, change |-> in[s].change, mark |-> stamp]
      BY <2>3 DEF Materialized
    <3> QED BY <3>1, <2>2, <2>3 DEF Rows, Incoming
  <2>4. CASE s \notin DOMAIN in /\ Outgoing(s, in)
    <3>1. rows'[s] = [rows[s] EXCEPT !.status = "inactive", !.mark = stamp]
      BY <2>4 DEF Materialized
    <3> QED BY <3>1, <2>1, <2>2 DEF Rows, Statuses
  <2>5. CASE s \notin DOMAIN in /\ ~Outgoing(s, in)
    <3>1. rows'[s] = rows[s] BY <2>5 DEF Materialized
    <3> QED BY <3>1, <2>1, SyncAssumption DEF Stamps
  <2> QED BY <2>3, <2>4, <2>5
<1>3. rows' \in [Subs -> Rows] BY <1>2 DEF Materialized
<1>4. OneActive'
  <2> SUFFICES ASSUME NEW s \in Subs, NEW t \in Subs,
                      rows'[s].status = "active", rows'[t].status = "active"
               PROVE  s = t
    BY DEF OneActive
  \* A row that is active afterwards came in active, or was active and stayed.
  <2>1. ASSUME NEW u \in Subs, rows'[u].status = "active"
        PROVE  \/ u \in DOMAIN in /\ in[u].status = "active"
               \/ /\ u \notin DOMAIN in /\ rows[u].status = "active"
                  /\ \A v \in DOMAIN in : in[v].status # "active"
    <3>1. CASE u \in DOMAIN in
      <4>1. rows'[u].status = in[u].status BY <3>1 DEF Materialized
      <4> QED BY <4>1, <3>1, <2>1
    <3>2. CASE u \notin DOMAIN in /\ Outgoing(u, in)
      <4>1. rows[u] \in Rows OBVIOUS
      <4>2. rows'[u].status = "inactive"
        BY <3>2, <4>1 DEF Materialized, Rows
      <4> QED BY <4>2, <2>1
    <3>3. CASE u \notin DOMAIN in /\ ~Outgoing(u, in)
      <4>1. rows'[u] = rows[u] BY <3>3 DEF Materialized
      <4> QED BY <4>1, <3>3, <2>1 DEF Outgoing
    <3> QED BY <3>1, <3>2, <3>3
  <2> QED BY <2>1 DEF Incoming, OneActive
<1> QED BY <1>2, <1>3, <1>4

LEMMA SnapshotIncoming ==
  ASSUME TypeOK, NEW e \in Events
  PROVE  Incoming(Snapshot(e)) /\ Stamp(e) \in Stamps
<1>1. changes[e] \in Change BY DEF TypeOK, Events
<1>2. e \in 0 .. MaxChanges BY SyncAssumption DEF TypeOK, Events
<1> QED BY <1>1, <1>2, SyncAssumption DEF Incoming, Snapshot, Stamp, Stamps, Change

LEMMA AuthoritativeIncoming ==
  ASSUME TypeOK, NEW k \in 0 .. Len(changes)
  PROVE  Incoming(Authoritative(k))
<1> DEFINE A == Authoritative(k)
<1>0. k \in Nat /\ Len(changes) \in Nat /\ k <= MaxChanges
  BY SyncAssumption DEF TypeOK
<1>1. DOMAIN A = Listed(k) /\ Listed(k) \subseteq Subs BY DEF Authoritative, Listed
<1>2. ASSUME NEW s \in Listed(k)
      PROVE  /\ changes[LastOf(k, s)].status \in Statuses
             /\ LastOf(k, s) \in 0 .. MaxChanges
  <2>1. LastOf(k, s) \in 1 .. k BY <1>0, LastOfIsLast DEF Listed
  <2>2. changes[LastOf(k, s)] \in Change BY <2>1, <1>0 DEF TypeOK
  <2> QED BY <2>1, <2>2, <1>0, SyncAssumption DEF Change
<1>3. \A s \in Listed(k) :
        /\ A[s].status \in Statuses /\ A[s].change \in 0 .. MaxChanges
        /\ A[s].status = "active" =>
             s \in ActiveUpstream(k) /\ \A t \in ActiveUpstream(k) : ~(t > s)
  BY <1>2 DEF Authoritative, Statuses, ActiveUpstream
<1>4. \A s, t \in Listed(k) :
        A[s].status = "active" /\ A[t].status = "active" => s = t
  BY <1>3, <1>1, SyncAssumption DEF Subs
<1> HIDE DEF A
<1> QED BY <1>1, <1>3, <1>4 DEF Incoming, A

-----------------------------------------------------------------------------
\* The writes, for both uses below.
LEMMA WriteKeeps ==
  ASSUME Inv, NEW h \in Handlers,
         MaterializeFromEvent(h) \/ MaterializeAuthoritative(h)
  PROVE  /\ rows' \in [Subs -> Rows]
         /\ OneActive'
         /\ \A s \in Subs : rows'[s].mark >= rows[s].mark
<1>1. Greatest(Mark) BY MarkIsGreatest DEF Inv, TypeOK
<1>2. event[h] \in Events
  BY DEF Inv, TypeOK, HeldIsReal, MaterializeFromEvent, MaterializeAuthoritative
<1>3. Incoming(Snapshot(event[h])) /\ Stamp(event[h]) \in Stamps
  BY <1>2, SnapshotIncoming DEF Inv
<1>4. CASE MaterializeFromEvent(h)
  <2>1. Stamp(event[h]) >= Mark
    BY <1>1, <1>3, <1>4, SyncAssumption
       DEF MaterializeFromEvent, OrdersAfter, Greatest, Stamps
  <2> QED BY <2>1, <1>3, <1>4, MaterializedKeeps DEF MaterializeFromEvent, Inv, TypeOK
<1>5. CASE MaterializeAuthoritative(h)
  <2>1. Incoming(Authoritative(seen[h]))
    BY AuthoritativeIncoming DEF Inv, HeldIsReal
  <2>2. /\ LaterOf(Mark, Stamp(event[h])) \in Stamps
        /\ LaterOf(Mark, Stamp(event[h])) >= Mark
    BY <1>1, <1>3, SyncAssumption DEF LaterOf, Greatest, Stamps
  <2> QED BY <2>1, <2>2, <1>5, MaterializedKeeps DEF MaterializeAuthoritative, Inv, TypeOK
<1> QED BY <1>4, <1>5

\* Answering keeps the types, whatever is stored with it.
LEMMA AckKeeps ==
  ASSUME TypeOK, HeldIsReal, NEW h \in Handlers, pc[h] # "idle", Ack(h),
         UNCHANGED <<changes, delivered, repeats>>,
         rows' \in [Subs -> Rows],
         gaveUp' = gaveUp \/ gaveUp' = gaveUp \union {event[h]}
  PROVE  TypeOK' /\ HeldIsReal'
<1> USE SyncAssumption
<1>1. event[h] \in delivered BY DEF HeldIsReal
<1>2. acked' = acked \union {event[h]} BY DEF Ack
<1>3. acked' \subseteq delivered /\ gaveUp' \subseteq acked'
  BY <1>1, <1>2 DEF TypeOK
<1>4. /\ pc' \in [Handlers -> {"idle", "payload", "observe", "fetch", "write"}]
      /\ event' \in [Handlers -> 0 .. MaxChanges]
      /\ observed' \in [Handlers -> Stamps]
      /\ seen' \in [Handlers -> 0 .. MaxChanges]
  BY DEF TypeOK, Ack, Return, GoTo, Stamps
<1>5. TypeOK' BY <1>3, <1>4 DEF TypeOK, Events
<1>6. Len(changes) \in Nat BY DEF TypeOK
<1>7. HeldIsReal'
  BY <1>6 DEF TypeOK, HeldIsReal, Ack, Return, GoTo
<1> QED BY <1>5, <1>7

LEMMA StepInv == Inv /\ [Next]_vars => Inv'
<1> SUFFICES ASSUME Inv, [Next]_vars PROVE Inv'
  OBVIOUS
<1> USE SyncAssumption DEF handlers, webhook
<1>t. TypeOK /\ HeldIsReal /\ OneActive BY DEF Inv
<1>d. delivered \subseteq Events BY <1>t DEF TypeOK
<1>l. Len(changes) \in Nat BY <1>t DEF TypeOK
<1>1. ASSUME NEW s \in Subs, NEW status \in Statuses, NEW kind \in Kinds,
             ChangeUpstream(s, status, kind)
      PROVE  Inv'
  <2>1. PICK at \in 1 .. MaxTime :
          changes' = Append(changes, [sub |-> s, status |-> status, at |-> at, kind |-> kind])
    BY <1>1 DEF ChangeUpstream
  <2>2. /\ changes' \in Seq(Change) /\ Len(changes') = Len(changes) + 1
        /\ Len(changes') <= MaxChanges
    BY <2>1, <1>1, <1>t, <1>l DEF ChangeUpstream, TypeOK, Change
  <2>3. Events \subseteq Events' BY <2>2, <1>l DEF Events
  <2>4. TypeOK' BY <2>2, <2>3, <1>1, <1>t DEF TypeOK, ChangeUpstream
  <2>5. HeldIsReal' BY <2>2, <2>3, <1>1, <1>t, <1>l DEF HeldIsReal, ChangeUpstream
  <2>6. OneActive' BY <1>1, <1>t DEF OneActive, ChangeUpstream
  <2> QED BY <2>4, <2>5, <2>6 DEF Inv
<1>2. ASSUME NEW h \in Handlers, NEW e \in Events, Receive(h, e) PROVE Inv'
  <2>1. e \in 0 .. MaxChanges BY <1>t, <1>l DEF Events, TypeOK
  <2>2. TypeOK' BY <2>1, <1>2, <1>t DEF TypeOK, Receive, GoTo, Events
  <2>3. HeldIsReal' BY <1>2, <1>t DEF TypeOK, HeldIsReal, Receive, GoTo, Events
  <2>4. OneActive' BY <1>2, <1>t DEF OneActive, Receive
  <2> QED BY <2>2, <2>3, <2>4 DEF Inv
<1>3. ASSUME NEW h \in Handlers,
             MaterializeFromEvent(h) \/ MaterializeAuthoritative(h)
      PROVE  Inv'
  <2>1. rows' \in [Subs -> Rows] /\ OneActive' BY <1>3, WriteKeeps
  <2>2. /\ Ack(h) /\ UNCHANGED <<changes, webhook, gaveUp>> /\ pc[h] # "idle"
    BY <1>3 DEF MaterializeFromEvent, MaterializeAuthoritative
  <2>3. TypeOK' /\ HeldIsReal'
    BY <2>1, <2>2, AckKeeps, <1>t DEF TypeOK, Events
  <2> QED BY <2>1, <2>3 DEF Inv
<1>4. ASSUME NEW h \in Handlers, KeepState(h) PROVE Inv'
  BY <1>4, <1>t DEF Inv, TypeOK, HeldIsReal, OneActive, KeepState, GoTo, Events
<1>5. ASSUME NEW h \in Handlers, Observe(h) PROVE Inv'
  <2>1. Mark \in Stamps BY MarkIsGreatest, <1>t DEF Greatest, TypeOK
  <2> QED BY <2>1, <1>5, <1>t
          DEF Inv, TypeOK, HeldIsReal, OneActive, Observe, GoTo, Events
<1>6. ASSUME NEW h \in Handlers, Fetch(h) PROVE Inv'
  BY <1>6, <1>t, <1>l
     DEF Inv, TypeOK, HeldIsReal, OneActive, Fetch, GoTo, Events
<1>7. ASSUME NEW h \in Handlers, FetchNothing(h) \/ Superseded(h) PROVE Inv'
  <2>1. /\ Ack(h) /\ pc[h] # "idle" /\ UNCHANGED <<changes, rows, webhook>>
        /\ gaveUp' = gaveUp \union {event[h]}
    BY <1>7 DEF FetchNothing, Superseded
  <2>2. TypeOK' /\ HeldIsReal'
    BY <2>1, AckKeeps, <1>t DEF TypeOK, Events
  <2>3. OneActive' BY <2>1, <1>t DEF OneActive
  <2> QED BY <2>2, <2>3 DEF Inv
<1>8. ASSUME NEW h \in Handlers, Fail(h) PROVE Inv'
  BY <1>8, <1>t, <1>l
     DEF Inv, TypeOK, HeldIsReal, OneActive, Fail, Return, GoTo, Events, Stamps
<1>9. CASE UNCHANGED vars
  BY <1>9, <1>t DEF Inv, TypeOK, HeldIsReal, OneActive, vars, Events
<1> QED
  BY <1>1, <1>2, <1>3, <1>4, <1>5, <1>6, <1>7, <1>8, <1>9 DEF Next, Handle

LEMMA Invariant == Spec => []Inv
<1>1. Init => Inv BY InitInv
<1>2. Inv /\ [Next]_vars => Inv' BY StepInv
<1> QED BY <1>1, <1>2, PTL DEF Spec

\* Type correctness of the subscription sync.
THEOREM TypeCorrect == Spec => []TypeOK
<1>1. Inv => TypeOK BY DEF Inv
<1> QED BY <1>1, Invariant, PTL

\* No interleaving of deliveries ever has two subscriptions claim a space's active
\* slot, which UQ_subscriptions_active_space would refuse
\* (demoteActiveSubscriptions, mapUpstreamSubscriptions).
THEOREM SingleSlot == Spec => []OneActive
<1>1. Inv => OneActive BY DEF Inv
<1> QED BY <1>1, Invariant, PTL

\* No delivery, repeat, retry or late authoritative write takes a mark back
\* (materializeFromEvent, laterOf).
THEOREM MarksOnlyRise == Spec => MarksRise
<1>1. ASSUME Inv, [Next]_vars
      PROVE  [\A s \in Subs : rows'[s].mark >= rows[s].mark]_vars
  <2>1. ASSUME rows' = rows PROVE \A s \in Subs : rows'[s].mark >= rows[s].mark
    <3>1. \A s \in Subs : rows[s].mark \in Nat
      BY <1>1, SyncAssumption DEF Inv, TypeOK, Rows, Stamps
    <3> QED BY <2>1, <3>1
  <2>2. ASSUME NEW h \in Handlers,
               MaterializeFromEvent(h) \/ MaterializeAuthoritative(h)
        PROVE  \A s \in Subs : rows'[s].mark >= rows[s].mark
    BY <2>2, <1>1, WriteKeeps
  <2>3. CASE UNCHANGED vars BY <2>3 DEF vars
  <2>4. CASE Next
    <3>1. \/ rows' = rows
          \/ \E h \in Handlers : MaterializeFromEvent(h) \/ MaterializeAuthoritative(h)
      BY <2>4 DEF Next, Handle, ChangeUpstream, Receive, KeepState, Observe, Fetch,
                  FetchNothing, Superseded, Fail
    <3> QED BY <3>1, <2>1, <2>2
  <2> QED BY <1>1, <2>3, <2>4
<1> QED BY <1>1, Invariant, PTL DEF Spec, MarksRise

-----------------------------------------------------------------------------
(* Settled spaces are in sync.                                              *)

\* There was a change with that mark or a later one, among the first k.
Below(cs, mark, k) == mark = 0 \/ \E e \in 1 .. k : mark <= cs[e].at

\* Marks are of the past: those of rows, of what handlers observed before they
\* fetched, and the events they serve are of what they fetched.
Observers ==
  /\ \A s \in Subs : Below(changes, rows[s].mark, Len(changes))
  /\ \A h \in Handlers :
       /\ pc[h] = "fetch" => Below(changes, observed[h], Len(changes))
       /\ pc[h] = "write" => Below(changes, observed[h], seen[h]) /\ event[h] <= seen[h]

\* A row carries a change of its subscription, and is active by that.
Carried ==
  \A s \in Subs :
    LET c == rows[s].change
    IN  /\ c \in 0 .. Len(changes)
        /\ c > 0 => changes[c].sub = s /\ rows[s].status # "none"
        /\ rows[s].status = "active" => c > 0 /\ changes[c].status = "active"

\* What SettledInSync asks of upstream and of the events.
Regular == Ordered /\ NeverTwoActive /\ gaveUp = {}

\* An acked event is not after the mark, and its subscription's row is at least as
\* new.
AckedStored ==
  \A e \in acked : /\ \E s \in Subs : changes[e].at <= rows[s].mark
                   /\ rows[changes[e].sub].change >= e

\* A row that was demoted although its change was to active made room for a later
\* change, or its event will come again.
DemotedRightly ==
  \A s \in Subs :
    LET c == rows[s].change
    IN  c > 0 /\ changes[c].status = "active" /\ rows[s].status # "active"
          => \/ c \notin acked
             \/ \E e \in Events : e > c /\ changes[e].status = "active" /\ changes[e].sub # s

SyncInv == Observers /\ Carried /\ (Regular => AckedStored /\ DemotedRightly)

\* What is asked of upstream was so before, if it is so after a step.
LEMMA RegularBefore ==
  ASSUME TypeOK, [Next]_vars, Regular'
  PROVE  Regular
<1>l. Len(changes) \in Nat /\ changes \in Seq(Change) BY DEF TypeOK
<1>1. CASE UNCHANGED <<changes, gaveUp>>
  <2>1. Ordered BY <1>1 DEF Regular, Ordered, Events
  <2>2. ASSUME NEW k \in Events PROVE ActiveUpstream(k)' = ActiveUpstream(k)
    <3>1. \A u \in Subs : LastOf(k, u)' = LastOf(k, u) BY <1>1 DEF LastOf
    <3> QED BY <3>1, <1>1 DEF ActiveUpstream, Listed
  <2>3. ASSUME NEW k \in Events PROVE \A u, v \in ActiveUpstream(k) : u = v
    <3>1. k \in Events' BY <1>1 DEF Events
    <3>2. \A u, v \in ActiveUpstream(k)' : u = v BY <3>1 DEF Regular, NeverTwoActive
    <3> QED BY <3>2, <2>2
  <2> QED BY <2>1, <2>3, <1>1 DEF Regular, NeverTwoActive
<1>2. ASSUME UNCHANGED changes, gaveUp' # {} PROVE FALSE BY <1>2 DEF Regular
<1>3. ASSUME NEW s \in Subs, NEW status \in Statuses, NEW kind \in Kinds,
             ChangeUpstream(s, status, kind)
      PROVE  Regular
  <2>1. PICK c : changes' = Append(changes, c) BY <1>3 DEF ChangeUpstream
  <2>2. /\ Len(changes') = Len(changes) + 1 /\ Events \subseteq Events'
        /\ \A e \in Events : changes'[e] = changes[e]
    <3>1. Len(changes') = Len(changes) + 1 BY <2>1, <1>l
    <3>2. \A e \in Events : changes'[e] = changes[e] BY <2>1, <1>l DEF Events
    <3> QED BY <3>1, <3>2, <1>l DEF Events
  <2>3. Ordered
    <3>1. \A e \in Events : changes[e].kind # "unstamped"
      BY <2>2 DEF Regular, Ordered
    <3>2. ASSUME NEW d \in Events, NEW e \in Events, d < e
          PROVE  changes[d].at < changes[e].at
      <4>1. changes'[d].at < changes'[e].at BY <2>2, <3>2 DEF Regular, Ordered
      <4> QED BY <4>1, <2>2
    <3> QED BY <3>1, <3>2 DEF Ordered
  <2>4. NeverTwoActive
    <3> SUFFICES ASSUME NEW k \in Events, NEW u \in ActiveUpstream(k), NEW v \in ActiveUpstream(k)
                 PROVE  u = v
      BY DEF NeverTwoActive
    <3>k. k \in Nat /\ k <= Len(changes) BY <1>l DEF Events
    <3>1. ASSUME NEW w \in Subs PROVE LastOf(k, w)' = LastOf(k, w)
      <4>1. IsLast(changes, k, w, LastOf(k, w)) /\ IsLast(changes', k, w, LastOf(k, w)')
        BY <3>k, LastOfIn
      <4>2. \A j \in 1 .. k : changes'[j] = changes[j] BY <2>2, <3>k, <1>l DEF Events
      <4>3. IsLast(changes, k, w, LastOf(k, w)') BY <4>1, <4>2, <3>k DEF IsLast
      <4> QED BY <4>1, <4>3, <3>k, OneLast
    <3>2. ASSUME NEW w \in ActiveUpstream(k) PROVE w \in ActiveUpstream(k)'
      <4>1. w \in Subs /\ LastOf(k, w) > 0 /\ changes[LastOf(k, w)].status = "active"
        BY DEF ActiveUpstream, Listed
      <4>2. LastOf(k, w) \in Events
        BY <4>1, <3>k, <1>l, LastOfIn DEF IsLast, Events
      <4>3. changes'[LastOf(k, w)] = changes[LastOf(k, w)] BY <4>2, <2>2
      <4> QED BY <4>1, <4>3, <3>1 DEF ActiveUpstream, Listed
    <3>3. k \in Events' BY <2>2
    <3>4. \A x, y \in ActiveUpstream(k)' : x = y BY <3>3 DEF Regular, NeverTwoActive
    <3> QED BY <3>2, <3>4
  <2> QED BY <2>3, <2>4, <1>3 DEF Regular, ChangeUpstream
<1>4. CASE UNCHANGED changes /\ gaveUp' = {}
  <2>1. gaveUp = {}
    BY <1>4 DEF Next, Handle, ChangeUpstream, Receive, MaterializeFromEvent, KeepState,
       Observe, Fetch, FetchNothing, MaterializeAuthoritative, Superseded, Fail, vars
  <2> QED BY <1>1, <1>4, <2>1
<1>5. UNCHANGED changes \/ \E s \in Subs, status \in Statuses, kind \in Kinds :
                             ChangeUpstream(s, status, kind)
  BY DEF Next, Handle, Receive, MaterializeFromEvent, KeepState, Observe, Fetch,
         FetchNothing, MaterializeAuthoritative, Superseded, Fail, vars
<1> QED BY <1>2, <1>3, <1>4, <1>5 DEF Regular

-----------------------------------------------------------------------------
LEMMA BelowLater ==
  ASSUME NEW cs, NEW ds, NEW m, NEW k \in Nat, NEW l \in Nat, k <= l,
         \A e \in 1 .. k : ds[e] = cs[e], Below(cs, m, k)
  PROVE  Below(ds, m, l)
<1>1. CASE m = 0 BY <1>1 DEF Below
<1>2. CASE m # 0
  <2>1. PICK e \in 1 .. k : m <= cs[e].at BY <1>2 DEF Below
  <2>2. e \in 1 .. l /\ m <= ds[e].at BY <2>1
  <2> QED BY <2>2 DEF Below
<1> QED BY <1>1, <1>2

\* What a write does to a row.
LEMMA MaterializedRow ==
  ASSUME rows \in [Subs -> Rows], NEW in, NEW stamp,
         rows' = Materialized(in, stamp), NEW s \in Subs
  PROVE  /\ s \in DOMAIN in =>
              /\ rows'[s].status = in[s].status
              /\ rows'[s].change = in[s].change
              /\ rows'[s].mark = stamp
         /\ s \notin DOMAIN in =>
              \/ rows'[s] = rows[s]
              \/ /\ Outgoing(s, in)
                 /\ rows'[s].status = "inactive"
                 /\ rows'[s].change = rows[s].change
                 /\ rows'[s].mark = stamp
<1>1. rows[s] \in Rows OBVIOUS
<1>2. CASE s \in DOMAIN in BY <1>2 DEF Materialized
<1>3. CASE s \notin DOMAIN in /\ Outgoing(s, in)
  <2>1. rows'[s] = [rows[s] EXCEPT !.status = "inactive", !.mark = stamp]
    BY <1>3 DEF Materialized
  <2> QED BY <2>1, <1>1, <1>3 DEF Rows
<1>4. CASE s \notin DOMAIN in /\ ~Outgoing(s, in) BY <1>4 DEF Materialized
<1> QED BY <1>2, <1>3, <1>4

\* The stamp a write stores is of the past.
LEMMA StampBelow ==
  ASSUME Inv, Observers, NEW e \in Events
  PROVE  /\ Below(changes, Stamp(e), Len(changes))
         /\ Below(changes, Mark, Len(changes))
         /\ Below(changes, LaterOf(Mark, Stamp(e)), Len(changes))
<1>1. changes[e] \in Change BY DEF Inv, TypeOK, Events
<1>2. Below(changes, Stamp(e), Len(changes))
  <2>1. CASE changes[e].kind = "unstamped" BY <2>1 DEF Stamp, Below
  <2>2. CASE changes[e].kind # "unstamped"
    <3>1. Stamp(e) = changes[e].at /\ changes[e].at \in Nat
      BY <2>2, <1>1, SyncAssumption DEF Stamp, Change
    <3>2. Stamp(e) <= changes[e].at BY <3>1
    <3> QED BY <3>2 DEF Below, Events
  <2> QED BY <2>1, <2>2
<1>3. Below(changes, Mark, Len(changes))
  <2>1. PICK s \in Subs : rows[s].mark = Mark
    BY MarkIsGreatest DEF Greatest, Inv, TypeOK
  <2> QED BY <2>1 DEF Observers
<1> QED BY <1>2, <1>3 DEF LaterOf

\* A change of upstream leaves the earlier ones as they were.
LEMMA EarlierStay ==
  ASSUME TypeOK, NEW s \in Subs, NEW status \in Statuses, NEW kind \in Kinds,
         ChangeUpstream(s, status, kind)
  PROVE  /\ Len(changes') = Len(changes) + 1
         /\ Len(changes) \in Nat
         /\ Events \subseteq Events'
         /\ \A e \in Events : changes'[e] = changes[e]
<1>1. PICK c : changes' = Append(changes, c) BY DEF ChangeUpstream
<1>2. Len(changes') = Len(changes) + 1 /\ Len(changes) \in Nat BY <1>1 DEF TypeOK
<1>3. \A e \in Events : changes'[e] = changes[e] BY <1>1, <1>2 DEF Events, TypeOK
<1> QED BY <1>2, <1>3 DEF Events

LEMMA StepObservers == Inv /\ Observers /\ [Next]_vars => Observers'
<1> SUFFICES ASSUME Inv, Observers, [Next]_vars PROVE Observers'
  OBVIOUS
<1> USE SyncAssumption DEF handlers, webhook
<1>t. TypeOK /\ HeldIsReal BY DEF Inv
<1>l. Len(changes) \in Nat BY <1>t DEF TypeOK
<1>e. ASSUME NEW h \in Handlers, pc[h] # "idle"
      PROVE  event[h] \in Events /\ event[h] \in Nat /\ event[h] <= Len(changes)
  BY <1>e, <1>t, <1>l DEF TypeOK, HeldIsReal, Events
<1>1. ASSUME NEW s \in Subs, NEW status \in Statuses, NEW kind \in Kinds,
             ChangeUpstream(s, status, kind)
      PROVE  Observers'
  <2>1. /\ Len(changes') = Len(changes) + 1
        /\ \A e \in 1 .. Len(changes) : changes'[e] = changes[e]
    BY <1>1, <1>t, EarlierStay DEF Events
  <2>2. ASSUME NEW m, NEW k \in Nat, k <= Len(changes), Below(changes, m, k)
        PROVE  Below(changes', m, k) /\ Below(changes', m, Len(changes'))
    <3>1. \A e \in 1 .. k : changes'[e] = changes[e] BY <2>1, <2>2, <1>l
    <3>2. k <= Len(changes') /\ Len(changes') \in Nat BY <2>1, <2>2, <1>l
    <3>3. Below(changes', m, k) BY <3>1, <2>2, BelowLater
    <3>4. Below(changes', m, Len(changes')) BY <3>1, <3>2, <2>2, BelowLater
    <3> QED BY <3>3, <3>4
  <2>3. /\ rows' = rows /\ pc' = pc /\ observed' = observed /\ seen' = seen
        /\ event' = event
    BY <1>1 DEF ChangeUpstream
  <2>4. ASSUME NEW u \in Subs PROVE Below(changes', rows'[u].mark, Len(changes'))
    <3>1. Below(changes, rows[u].mark, Len(changes)) BY DEF Observers
    <3> QED BY <3>1, <2>2, <2>3, <1>l
  <2>5. ASSUME NEW h \in Handlers
        PROVE  /\ pc'[h] = "fetch" => Below(changes', observed'[h], Len(changes'))
               /\ pc'[h] = "write" =>
                    Below(changes', observed'[h], seen'[h]) /\ event'[h] <= seen'[h]
    <3>1. seen[h] \in Nat /\ seen[h] <= Len(changes) BY <1>t, <1>l DEF HeldIsReal
    <3>2. CASE pc[h] = "fetch"
      <4>1. Below(changes, observed[h], Len(changes)) BY <3>2 DEF Observers
      <4> QED BY <4>1, <3>2, <2>2, <2>3, <1>l
    <3>3. CASE pc[h] = "write"
      <4>1. Below(changes, observed[h], seen[h]) /\ event[h] <= seen[h]
        BY <3>3 DEF Observers
      <4> QED BY <4>1, <3>1, <3>3, <2>2, <2>3
    <3> QED BY <3>2, <3>3, <2>3
  <2> QED BY <2>4, <2>5 DEF Observers
<1>2. ASSUME NEW h \in Handlers, NEW e \in Events, Receive(h, e) PROVE Observers'
  BY <1>2, <1>t DEF Observers, Receive, GoTo, TypeOK
<1>3. ASSUME NEW h \in Handlers,
             MaterializeFromEvent(h) \/ MaterializeAuthoritative(h)
      PROVE  Observers'
  <2>1. pc[h] # "idle" /\ changes' = changes /\ Return(h)
    BY <1>3 DEF MaterializeFromEvent, MaterializeAuthoritative, Ack
  <2>2. PICK in, stamp : /\ rows' = Materialized(in, stamp)
                         /\ Below(changes, stamp, Len(changes))
    <3>1. event[h] \in Events BY <2>1, <1>e
    <3> QED BY <3>1, <1>3, StampBelow DEF MaterializeFromEvent, MaterializeAuthoritative
  <2>3. ASSUME NEW u \in Subs PROVE Below(changes, rows'[u].mark, Len(changes))
    <3>1. rows'[u].mark = rows[u].mark \/ rows'[u].mark = stamp
      BY <2>2, <1>t, MaterializedRow DEF TypeOK
    <3>2. Below(changes, rows[u].mark, Len(changes)) BY DEF Observers
    <3> QED BY <3>1, <3>2, <2>2
  <2>4. ASSUME NEW g \in Handlers
        PROVE  /\ pc'[g] = "fetch" => Below(changes, observed'[g], Len(changes))
               /\ pc'[g] = "write" =>
                    Below(changes, observed'[g], seen'[g]) /\ event'[g] <= seen'[g]
    BY <2>1, <1>t DEF Return, GoTo, TypeOK, Observers
  <2> QED BY <2>1, <2>3, <2>4 DEF Observers
<1>4. ASSUME NEW h \in Handlers, KeepState(h) PROVE Observers'
  BY <1>4, <1>t DEF Observers, KeepState, GoTo, TypeOK
<1>5. ASSUME NEW h \in Handlers, Observe(h) PROVE Observers'
  <2>1. event[h] \in Events BY <1>5, <1>e DEF Observe
  <2>2. Below(changes, Mark, Len(changes)) BY <2>1, StampBelow
  <2>3. ASSUME NEW g \in Handlers
        PROVE  /\ pc'[g] = "fetch" => Below(changes, observed'[g], Len(changes))
               /\ pc'[g] = "write" =>
                    Below(changes, observed'[g], seen'[g]) /\ event'[g] <= seen'[g]
    BY <2>2, <1>5, <1>t DEF Observe, GoTo, TypeOK, Observers
  <2> QED BY <2>3, <1>5 DEF Observers, Observe
<1>6. ASSUME NEW h \in Handlers, Fetch(h) PROVE Observers'
  <2>1. event[h] <= Len(changes) BY <1>6, <1>e DEF Fetch
  <2>2. ASSUME NEW g \in Handlers
        PROVE  /\ pc'[g] = "fetch" => Below(changes, observed'[g], Len(changes))
               /\ pc'[g] = "write" =>
                    Below(changes, observed'[g], seen'[g]) /\ event'[g] <= seen'[g]
    BY <2>1, <1>6, <1>t DEF Fetch, GoTo, TypeOK, Observers
  <2> QED BY <2>2, <1>6 DEF Observers, Fetch
<1>7. ASSUME NEW h \in Handlers, FetchNothing(h) \/ Superseded(h) \/ Fail(h)
      PROVE  Observers'
  <2>1. Return(h) /\ UNCHANGED <<changes, rows>>
    BY <1>7 DEF FetchNothing, Superseded, Fail, Ack
  <2> QED BY <2>1, <1>t DEF Return, GoTo, TypeOK, Observers
<1>8. CASE UNCHANGED vars BY <1>8 DEF vars, Observers
<1> QED
  BY <1>1, <1>2, <1>3, <1>4, <1>5, <1>6, <1>7, <1>8 DEF Next, Handle

\* A step that is neither a change nor a write leaves both tables alone.
LEMMA ChangesOrWrites ==
  ASSUME [Next]_vars
  PROVE  \/ \E s \in Subs, status \in Statuses, kind \in Kinds :
              ChangeUpstream(s, status, kind)
         \/ \E h \in Handlers : MaterializeFromEvent(h) \/ MaterializeAuthoritative(h)
         \/ /\ UNCHANGED <<changes, rows>>
            /\ gaveUp' # {} \/ UNCHANGED <<acked, gaveUp>>
BY DEF Next, Handle, Receive, KeepState, Observe, Fetch, FetchNothing, Superseded, Fail, vars

LEMMA StepCarried == Inv /\ Carried /\ [Next]_vars => Carried'
<1> SUFFICES ASSUME Inv, Carried, [Next]_vars PROVE Carried'
  OBVIOUS
<1>t. TypeOK /\ HeldIsReal BY DEF Inv
<1>l. Len(changes) \in Nat BY <1>t DEF TypeOK
<1>1. ASSUME NEW s \in Subs, NEW status \in Statuses, NEW kind \in Kinds,
             ChangeUpstream(s, status, kind)
      PROVE  Carried'
  <2>1. /\ Len(changes') = Len(changes) + 1
        /\ \A e \in 1 .. Len(changes) : changes'[e] = changes[e]
        /\ rows' = rows
    BY <1>1, <1>t, EarlierStay DEF Events, ChangeUpstream
  <2>2. ASSUME NEW u \in Subs
        PROVE  /\ rows[u].change \in 0 .. Len(changes')
               /\ rows[u].change > 0 => rows[u].change \in 1 .. Len(changes)
    BY <2>1, <1>l DEF Carried
  <2> QED BY <2>1, <2>2 DEF Carried
<1>2. ASSUME NEW h \in Handlers,
             MaterializeFromEvent(h) \/ MaterializeAuthoritative(h)
      PROVE  Carried'
  <2>1. event[h] \in Events /\ changes' = changes
    BY <1>2, <1>t DEF TypeOK, HeldIsReal, MaterializeFromEvent, MaterializeAuthoritative
  <2>2. PICK in, stamp :
          /\ rows' = Materialized(in, stamp)
          /\ \A s \in DOMAIN in :
               /\ in[s].change \in Events /\ changes[in[s].change].sub = s
               /\ in[s].status # "none"
               /\ in[s].status = "active" => changes[in[s].change].status = "active"
    <3>1. \A e \in Events : changes[e] \in Change BY <1>t DEF TypeOK, Events
    <3>2. CASE MaterializeFromEvent(h)
      <4> DEFINE in == Snapshot(event[h])
      <4>1. rows' = Materialized(in, Stamp(event[h])) BY <3>2 DEF MaterializeFromEvent
      <4>2. \A s \in DOMAIN in :
               /\ in[s].change \in Events /\ changes[in[s].change].sub = s
               /\ in[s].status # "none"
               /\ in[s].status = "active" => changes[in[s].change].status = "active"
        BY <2>1, <3>1 DEF Snapshot, Change, Statuses
      <4> HIDE DEF in
      <4> QED BY <4>1, <4>2
    <3>3. CASE MaterializeAuthoritative(h)
      <4> DEFINE k == seen[h]
                 in == Authoritative(k)
      <4>1. rows' = Materialized(in, LaterOf(Mark, Stamp(event[h])))
        BY <3>3 DEF MaterializeAuthoritative
      <4>2. k \in Nat /\ k <= Len(changes) BY <1>t, <1>l DEF HeldIsReal
      <4>3. ASSUME NEW s \in DOMAIN in
            PROVE  /\ in[s].change \in Events /\ changes[in[s].change].sub = s
                   /\ in[s].status # "none"
                   /\ in[s].status = "active" => changes[in[s].change].status = "active"
        <5>1. s \in Listed(k) BY <4>3 DEF Authoritative
        <5>2. /\ in[s].change = LastOf(k, s)
              /\ in[s].status = "inactive" \/ in[s].status = changes[LastOf(k, s)].status
          BY <5>1 DEF Authoritative
        <5>3. LastOf(k, s) \in 1 .. k /\ changes[LastOf(k, s)].sub = s
          BY <5>1, <4>2, LastOfIsLast DEF Listed
        <5>4. LastOf(k, s) \in Events BY <5>3, <4>2, <1>l DEF Events
        <5>5. changes[LastOf(k, s)].status \in Statuses BY <5>4, <3>1 DEF Change
        <5> QED BY <5>2, <5>3, <5>4, <5>5 DEF Statuses
      <4> HIDE DEF in
      <4> QED BY <4>1, <4>3
    <3> QED BY <1>2, <3>2, <3>3
  <2>3. ASSUME NEW u \in Subs
        PROVE  LET c == rows'[u].change
               IN  /\ c \in 0 .. Len(changes)
                   /\ c > 0 => changes[c].sub = u /\ rows'[u].status # "none"
                   /\ rows'[u].status = "active" => c > 0 /\ changes[c].status = "active"
    <3>1. CASE u \in DOMAIN in
      <4>1. rows'[u].change = in[u].change /\ rows'[u].status = in[u].status
        BY <3>1, <2>2, <1>t, MaterializedRow DEF TypeOK
      <4>2. in[u].change \in 0 .. Len(changes) /\ in[u].change > 0
        BY <3>1, <2>2, <1>l DEF Events
      <4> QED BY <4>1, <4>2, <3>1, <2>2
    <3>2. CASE u \notin DOMAIN in
      <4>1. \/ rows'[u] = rows[u]
            \/ rows'[u].change = rows[u].change /\ rows'[u].status = "inactive"
        BY <3>2, <2>2, <1>t, MaterializedRow DEF TypeOK
      <4> QED BY <4>1 DEF Carried
    <3> QED BY <3>1, <3>2
  <2> QED BY <2>1, <2>3 DEF Carried
<1>3. CASE UNCHANGED <<changes, rows>> BY <1>3 DEF Carried
<1> QED BY <1>1, <1>2, <1>3, ChangesOrWrites
LEMMA ChangeTyped ==
  ASSUME TypeOK, NEW d \in Events
  PROVE  /\ changes[d] \in Change /\ changes[d].sub \in Subs
         /\ changes[d].at \in Nat \ {0}
<1>1. changes[d] \in Change BY DEF TypeOK, Events
<1>2. changes[d].at \in 1 .. MaxTime /\ changes[d].sub \in Subs BY <1>1 DEF Change
<1> QED BY <1>1, <1>2, SyncAssumption

\* What handlers wrote stays while upstream changes.
LEMMA ChangeKeepsSynced ==
  ASSUME TypeOK, Carried, AckedStored, DemotedRightly,
         NEW s \in Subs, NEW status \in Statuses, NEW kind \in Kinds,
         ChangeUpstream(s, status, kind)
  PROVE  AckedStored' /\ DemotedRightly'
<1>1. /\ Len(changes') = Len(changes) + 1 /\ Len(changes) \in Nat
      /\ Events \subseteq Events'
      /\ \A e \in Events : changes'[e] = changes[e]
  BY EarlierStay
<1>2. rows' = rows /\ acked' = acked /\ acked \subseteq Events
  BY DEF ChangeUpstream, TypeOK
<1>3. AckedStored'
  <2>1. ASSUME NEW e \in acked
        PROVE  /\ \E u \in Subs : changes'[e].at <= rows'[u].mark
               /\ rows'[changes'[e].sub].change >= e
    <3>1. changes'[e] = changes[e] BY <1>1, <1>2
    <3> QED BY <3>1, <1>2 DEF AckedStored
  <2> QED BY <2>1, <1>2 DEF AckedStored
<1>4. DemotedRightly'
  <2> SUFFICES ASSUME NEW u \in Subs, rows'[u].change > 0,
                      changes'[rows'[u].change].status = "active",
                      rows'[u].status # "active", rows'[u].change \in acked'
               PROVE  \E e \in Events' : /\ e > rows'[u].change
                                         /\ changes'[e].status = "active"
                                         /\ changes'[e].sub # u
    BY DEF DemotedRightly
  <2>1. rows[u].change \in Events BY <1>1, <1>2 DEF Carried, Events
  <2>2. changes[rows[u].change].status = "active" BY <2>1, <1>1, <1>2
  <2>3. PICK e \in Events : /\ e > rows[u].change /\ changes[e].status = "active"
                            /\ changes[e].sub # u
    BY <2>2, <1>2 DEF DemotedRightly
  <2> QED BY <2>3, <1>1, <1>2
<1> QED BY <1>3, <1>4

\* A payload that orders after the mark is later than everything acked.
LEMMA PayloadKeepsSynced ==
  ASSUME Inv, Observers, Carried, Regular, AckedStored, DemotedRightly,
         NEW h \in Handlers, MaterializeFromEvent(h)
  PROVE  AckedStored' /\ DemotedRightly'
<1> USE SyncAssumption
<1> DEFINE e == event[h]
           u == changes[e].sub
<1>t. TypeOK /\ HeldIsReal /\ rows \in [Subs -> Rows] BY DEF Inv, TypeOK
<1>l. Len(changes) \in Nat /\ Events \subseteq Nat BY <1>t DEF TypeOK, Events
<1>1. /\ e \in Events /\ changes' = changes /\ acked' = acked \union {e}
      /\ acked \subseteq Events
  BY <1>t DEF TypeOK, HeldIsReal, MaterializeFromEvent, Ack
<1>2. \A d \in Events : changes[d] \in Change /\ changes[d].at \in Nat
                        /\ changes[d].sub \in Subs
  BY <1>t, ChangeTyped
<1>3. Stamp(e) = changes[e].at BY <1>1 DEF Regular, Ordered, Stamp
<1>4. rows' = Materialized(Snapshot(e), changes[e].at) BY <1>3 DEF MaterializeFromEvent
<1>5. /\ \A s \in Subs : rows[s].mark \in Nat /\ rows[s].mark < changes[e].at
      /\ \A s \in Subs : rows[s].change \in Nat
  <2>1. Greatest(Mark) BY <1>t, MarkIsGreatest
  <2>2. Mark < changes[e].at BY <1>3 DEF MaterializeFromEvent, OrdersAfter
  <2>3. \A s \in Subs : rows[s].mark \in Nat /\ rows[s].change \in Nat
    BY <1>t DEF Rows, Stamps
  <2> QED BY <2>1, <2>2, <2>3, <1>1, <1>2 DEF Greatest, Stamps
<1>6. ASSUME NEW d \in acked PROVE d < e
  <2>1. PICK s \in Subs : changes[d].at <= rows[s].mark BY DEF AckedStored
  <2>2. d \in Events /\ d \in Nat /\ e \in Nat BY <1>1, <1>l
  <2>3. changes[d].at < changes[e].at BY <2>1, <2>2, <1>5, <1>2, <1>1
  <2>4. ~(e < d) BY <2>2, <2>3, <1>1, <1>2 DEF Regular, Ordered
  <2>5. d # e BY <2>3, <1>1, <1>2
  <2> QED BY <2>2, <2>4, <2>5
\* The rows after the write.
<1>7. DOMAIN Snapshot(e) = {u} /\ Snapshot(e)[u].change = e
      /\ Snapshot(e)[u].status = changes[e].status
  BY DEF Snapshot
<1>8. /\ rows'[u].change = e /\ rows'[u].status = changes[e].status
      /\ rows'[u].mark = changes[e].at
  <2>1. u \in Subs BY <1>1, <1>2
  <2> QED BY <2>1, <1>4, <1>7, <1>t, MaterializedRow
<1>9. ASSUME NEW s \in Subs, s # u
      PROVE  \/ rows'[s] = rows[s]
             \/ /\ changes[e].status = "active" /\ rows'[s].status = "inactive"
                /\ rows'[s].change = rows[s].change
  <2>1. s \notin DOMAIN Snapshot(e) BY <1>7, <1>9
  <2>2. Outgoing(s, Snapshot(e)) => changes[e].status = "active"
    BY <1>7 DEF Outgoing
  <2> QED BY <2>1, <2>2, <1>4, <1>t, MaterializedRow
<1>10. AckedStored'
  <2>1. ASSUME NEW d \in acked \union {e}
        PROVE  /\ \E s \in Subs : changes[d].at <= rows'[s].mark
               /\ rows'[changes[d].sub].change >= d
    <3>1. changes[d].at <= changes[e].at
      <4>1. CASE d = e BY <4>1, <1>1, <1>2
      <4>2. CASE d \in acked
        <5>1. d < e /\ d \in Events BY <4>2, <1>6, <1>1
        <5>2. changes[d].at < changes[e].at BY <5>1, <1>1 DEF Regular, Ordered
        <5> QED BY <5>1, <5>2, <1>1, <1>2
      <4> QED BY <4>1, <4>2
    <3>2. u \in Subs /\ changes[d].at <= rows'[u].mark BY <3>1, <1>8, <1>1, <1>2
    <3>3. rows'[changes[d].sub].change >= d
      <4>1. CASE changes[d].sub = u
        <5>1. d <= e
          <6>1. e \in Nat BY <1>1, <1>l
          <6>2. CASE d \in acked
            <7>1. d < e /\ d \in Nat BY <6>2, <1>6, <1>1, <1>l
            <7> QED BY <6>1, <7>1
          <6> HIDE DEF e
          <6> QED BY <6>1, <6>2
        <5> QED BY <5>1, <4>1, <1>8, <1>1, <1>l
      <4>2. CASE changes[d].sub # u
        <5>1. d \in acked /\ changes[d].sub \in Subs BY <4>2, <1>1, <1>2
        <5>2. rows'[changes[d].sub].change = rows[changes[d].sub].change
          BY <5>1, <4>2, <1>9
        <5> QED BY <5>1, <5>2 DEF AckedStored
      <4> QED BY <4>1, <4>2
    <3> QED BY <3>2, <3>3
  <2> QED BY <2>1, <1>1 DEF AckedStored
<1>11. DemotedRightly'
  <2> SUFFICES ASSUME NEW s \in Subs, rows'[s].change > 0,
                      changes[rows'[s].change].status = "active",
                      rows'[s].status # "active", rows'[s].change \in acked \union {e}
               PROVE  \E d \in Events : /\ d > rows'[s].change
                                        /\ changes[d].status = "active"
                                        /\ changes[d].sub # s
    BY <1>1 DEF DemotedRightly, Events
  <2>1. s # u BY <1>8
  <2>2. rows'[s].change = rows[s].change BY <2>1, <1>9
  <2>3. changes[rows[s].change].sub = s BY <2>2 DEF Carried
  <2>4. rows[s].change \in acked BY <2>1, <2>2, <2>3
  <2>5. CASE rows'[s] = rows[s]
    BY <2>5, <2>4 DEF DemotedRightly
  <2>6. CASE changes[e].status = "active"
    <3>1. rows[s].change < e BY <2>4, <1>6
    <3>2. e > rows'[s].change BY <3>1, <2>2, <1>5, <1>1, <1>l
    <3> QED BY <3>2, <2>6, <2>1, <1>1
  <2> QED BY <2>1, <2>5, <2>6, <1>9
<1> QED BY <1>10, <1>11

\* A list fetched since the mark was read covers everything acked.
LEMMA ListKeepsSynced ==
  ASSUME Inv, Observers, Carried, Regular, AckedStored, DemotedRightly,
         NEW h \in Handlers, MaterializeAuthoritative(h)
  PROVE  AckedStored' /\ DemotedRightly'
<1> USE SyncAssumption
<1> DEFINE e == event[h]
           k == seen[h]
           stamp == LaterOf(Mark, Stamp(e))
<1>t. TypeOK /\ HeldIsReal /\ rows \in [Subs -> Rows] BY DEF Inv, TypeOK
<1>l. Len(changes) \in Nat /\ Events \subseteq Nat BY <1>t DEF TypeOK, Events
<1>1. /\ e \in Events /\ changes' = changes /\ acked' = acked \union {e}
      /\ acked \subseteq Events
  BY <1>t DEF TypeOK, HeldIsReal, MaterializeAuthoritative, Ack
<1>2. \A d \in Events : changes[d] \in Change /\ changes[d].at \in Nat \ {0}
                        /\ changes[d].sub \in Subs
  BY <1>t, ChangeTyped
<1>3. k \in Nat /\ k <= Len(changes) /\ e <= k /\ Below(changes, Mark, k)
  BY <1>t, <1>l DEF HeldIsReal, Observers, MaterializeAuthoritative, Moved
<1>4. rows' = Materialized(Authoritative(k), stamp) BY DEF MaterializeAuthoritative
<1>5. Greatest(Mark) /\ Stamp(e) = changes[e].at /\ stamp >= changes[e].at
  <2>1. Greatest(Mark) BY <1>t, MarkIsGreatest
  <2>2. Stamp(e) = changes[e].at BY <1>1 DEF Regular, Ordered, Stamp
  <2> QED BY <2>1, <2>2, <1>1, <1>2 DEF LaterOf, Greatest, Stamps
<1>6. ASSUME NEW d \in acked \union {e} PROVE d \in 1 .. k
  <2>1. d \in Events /\ d \in Nat /\ d >= 1 BY <1>1, <1>l DEF Events
  <2>2. CASE d = e BY <2>2, <2>1, <1>3
  <2>3. CASE d \in acked
    <3>1. PICK s \in Subs : changes[d].at <= rows[s].mark BY <2>3 DEF AckedStored
    <3>2. rows[s].mark <= Mark /\ rows[s].mark \in Nat /\ Mark \in Nat
      BY <1>5, <1>t DEF Greatest, Stamps, Rows
    <3>3. changes[d].at <= Mark /\ Mark # 0 BY <3>1, <3>2, <2>1, <1>2
    <3>4. PICK j \in 1 .. k : Mark <= changes[j].at BY <3>3, <1>3 DEF Below
    <3>5. j \in Events /\ j \in Nat BY <1>3, <1>l DEF Events
    <3>6. ~(changes[j].at < changes[d].at) BY <3>2, <3>3, <3>4, <3>5, <2>1, <1>2
    <3>7. ~(j < d) BY <3>5, <3>6, <2>1 DEF Regular, Ordered
    <3> QED BY <3>5, <3>7, <2>1, <1>3
  <2> QED BY <2>2, <2>3
<1>7. ASSUME NEW d \in 1 .. k
      PROVE  /\ changes[d].sub \in Listed(k)
             /\ LastOf(k, changes[d].sub) >= d
  <2>1. d \in Events BY <1>3, <1>l DEF Events
  <2>2. IsLast(changes, k, changes[d].sub, LastOf(k, changes[d].sub)) BY <1>3, LastOfIs
  <2>3. LastOf(k, changes[d].sub) >= d BY <2>2, <1>3 DEF IsLast
  <2>4. LastOf(k, changes[d].sub) \in Nat BY <2>2, <1>3 DEF IsLast
  <2> QED BY <2>1, <2>3, <2>4, <1>2 DEF Listed
\* The rows after the write.
<1>8. ASSUME NEW s \in Listed(k)
      PROVE  /\ s \in Subs /\ rows'[s].change = LastOf(k, s)
             /\ rows'[s].mark = stamp
             /\ \/ rows'[s].status = changes[LastOf(k, s)].status
                \/ \E t \in ActiveUpstream(k) : t > s
  <2>1. s \in Subs /\ DOMAIN Authoritative(k) = Listed(k) BY DEF Listed, Authoritative
  <2>2. /\ rows'[s].status = Authoritative(k)[s].status
        /\ rows'[s].change = Authoritative(k)[s].change
        /\ rows'[s].mark = stamp
    <3> HIDE DEF stamp
    <3> QED BY <2>1, <1>4, <1>t, MaterializedRow
  <2> QED BY <2>1, <2>2 DEF Authoritative
<1>9. ASSUME NEW s \in Subs, s \notin Listed(k)
      PROVE  rows'[s].change = rows[s].change
  <2>1. s \notin DOMAIN Authoritative(k) BY <1>9 DEF Authoritative
  <2> QED BY <2>1, <1>4, <1>t, MaterializedRow
<1>10. AckedStored'
  <2>1. ASSUME NEW d \in acked \union {e}
        PROVE  /\ \E s \in Subs : changes[d].at <= rows'[s].mark
               /\ rows'[changes[d].sub].change >= d
    <3>0. d \in 1 .. k /\ d \in Events BY <1>6, <1>1
    <3>1. changes[d].at <= stamp
      <4>1. CASE d = e BY <4>1, <1>5
      <4>2. CASE d \in acked
        <5>1. PICK s \in Subs : changes[d].at <= rows[s].mark BY <4>2 DEF AckedStored
        <5>2. rows[s].mark <= Mark /\ rows[s].mark \in Nat /\ Mark \in Nat
          BY <1>5, <1>t DEF Greatest, Stamps, Rows
        <5>3. Mark <= stamp
          BY <5>2, <1>5, <1>1, <1>2 DEF LaterOf
        <5>4. stamp \in Nat BY <5>2, <1>5, <1>1, <1>2 DEF LaterOf
        <5> QED BY <5>1, <5>2, <5>3, <5>4, <3>0, <1>2
      <4> QED BY <4>1, <4>2
    <3>2. changes[d].sub \in Listed(k) /\ LastOf(k, changes[d].sub) >= d BY <3>0, <1>7
    <3> QED BY <3>1, <3>2, <1>8
  <2> QED BY <2>1, <1>1 DEF AckedStored
<1>11. DemotedRightly'
  <2> SUFFICES ASSUME NEW s \in Subs, rows'[s].change > 0,
                      changes[rows'[s].change].status = "active",
                      rows'[s].status # "active", rows'[s].change \in acked \union {e}
               PROVE  FALSE
    BY <1>1 DEF DemotedRightly, Events
  <2>1. rows'[s].change \in 1 .. k BY <1>6
  <2>2. CASE s \in Listed(k)
    <3>1. s \in ActiveUpstream(k) BY <2>2, <1>8 DEF ActiveUpstream
    <3>2. PICK t \in ActiveUpstream(k) : t > s BY <2>2, <1>8
    <3>3. k \in Events BY <2>1, <1>3, <1>l DEF Events
    <3>4. t = s BY <3>1, <3>2, <3>3 DEF Regular, NeverTwoActive
    <3> QED BY <3>2, <3>4 DEF Subs
  <2>3. CASE s \notin Listed(k)
    <3>1. rows[s].change \in 1 .. k BY <2>1, <2>3, <1>9
    <3>2. changes[rows[s].change].sub = s BY <3>1 DEF Carried
    <3> QED BY <3>1, <3>2, <2>3, <1>7
  <2> QED BY <2>2, <2>3
<1> QED BY <1>10, <1>11

LEMMA InitSync == Init => SyncInv
<1> SUFFICES ASSUME Init PROVE SyncInv
  OBVIOUS
<1>1. Observers
  BY DEF Init, Observers, Below, NoRow
<1>2. Carried /\ AckedStored /\ DemotedRightly
  BY DEF Init, Carried, AckedStored, DemotedRightly, NoRow
<1> QED BY <1>1, <1>2 DEF SyncInv

LEMMA StepSync == Inv /\ SyncInv /\ [Next]_vars => SyncInv'
<1> SUFFICES ASSUME Inv, SyncInv, [Next]_vars PROVE SyncInv'
  OBVIOUS
<1>1. Observers /\ Carried BY DEF SyncInv
<1>2. Observers' BY <1>1, StepObservers
<1>3. Carried' BY <1>1, StepCarried
<1>4. ASSUME Regular' PROVE AckedStored' /\ DemotedRightly'
  <2>1. Regular BY <1>4, RegularBefore DEF Inv
  <2>2. AckedStored /\ DemotedRightly BY <2>1 DEF SyncInv
  <2>3. ASSUME NEW s \in Subs, NEW status \in Statuses, NEW kind \in Kinds,
               ChangeUpstream(s, status, kind)
        PROVE  AckedStored' /\ DemotedRightly'
    BY <2>2, <2>3, <1>1, ChangeKeepsSynced DEF Inv
  <2>4. ASSUME NEW h \in Handlers, MaterializeFromEvent(h)
        PROVE  AckedStored' /\ DemotedRightly'
    BY <2>1, <2>2, <2>4, <1>1, PayloadKeepsSynced
  <2>5. ASSUME NEW h \in Handlers, MaterializeAuthoritative(h)
        PROVE  AckedStored' /\ DemotedRightly'
    BY <2>1, <2>2, <2>5, <1>1, ListKeepsSynced
  <2>6. CASE UNCHANGED <<changes, rows>> /\ acked' = acked
    BY <2>2, <2>6 DEF AckedStored, DemotedRightly, Events
  <2>7. gaveUp' = {} BY <1>4 DEF Regular
  <2> QED BY <2>3, <2>4, <2>5, <2>6, <2>7, ChangesOrWrites
<1> QED BY <1>2, <1>3, <1>4 DEF SyncInv

\* Where everything is acked, every row carries the last change of its
\* subscription.
LEMMA SettledSync == Inv /\ SyncInv => SettledInSync
<1> SUFFICES ASSUME Inv, SyncInv, Settled, Ordered, NeverTwoActive, gaveUp = {}
             PROVE  StoredPlan = UpstreamPlan
  BY DEF SettledInSync
<1> DEFINE n == Len(changes)
<1>t. TypeOK /\ n \in Nat BY DEF Inv, TypeOK
<1>1. Carried /\ AckedStored /\ DemotedRightly BY DEF SyncInv, Regular
<1>2. acked = 1 .. n BY DEF Settled, Events
<1>3. ASSUME NEW s \in Subs PROVE rows[s].change = LastOf(n, s)
  <2>1. IsLast(changes, n, s, LastOf(n, s)) BY <1>t, LastOfIs
  <2>2. rows[s].change \in 0 .. n /\ (rows[s].change > 0 => changes[rows[s].change].sub = s)
    BY <1>1 DEF Carried
  <2>3. \A j \in rows[s].change + 1 .. n : changes[j].sub # s
    <3> SUFFICES ASSUME NEW j \in rows[s].change + 1 .. n, changes[j].sub = s PROVE FALSE
      OBVIOUS
    <3>1. j \in acked BY <1>2, <2>2
    <3>2. rows[s].change >= j BY <3>1, <1>1 DEF AckedStored
    <3> QED BY <3>2, <2>2
  <2>4. IsLast(changes, n, s, rows[s].change) BY <2>2, <2>3 DEF IsLast
  <2> QED BY <2>1, <2>4, <1>t, OneLast
<1>4. ASSUME NEW s \in Subs, rows[s].status = "active" PROVE s \in ActiveUpstream(n)
  BY <1>3, <1>4, <1>1 DEF Carried, ActiveUpstream, Listed
<1>5. ASSUME NEW s \in ActiveUpstream(n) PROVE s \in Subs /\ rows[s].status = "active"
  <2>1. /\ s \in Subs /\ LastOf(n, s) > 0 /\ changes[LastOf(n, s)].status = "active"
    BY DEF ActiveUpstream, Listed
  <2> SUFFICES ASSUME rows[s].status # "active" PROVE FALSE BY <2>1
  <2> DEFINE c == LastOf(n, s)
  <2>2. IsLast(changes, n, s, c) /\ c \in 1 .. n
    BY <2>1, <1>t, LastOfIs DEF IsLast
  <2>3. PICK e \in 1 .. n : /\ e > c /\ changes[e].status = "active"
                            /\ changes[e].sub # s
    BY <2>1, <2>2, <1>1, <1>2, <1>3 DEF DemotedRightly, Events
  <2>4. LastOf(e, s) = c
    <3>1. IsLast(changes, e, s, c) BY <2>2, <2>3, <1>t DEF IsLast
    <3> QED BY <3>1, LastOfIs, OneLast
  <2>5. LastOf(e, changes[e].sub) = e
    <3>1. IsLast(changes, e, changes[e].sub, e) BY DEF IsLast
    <3> QED BY <3>1, LastOfIs, OneLast
  <2>6. changes[e].sub \in Subs BY <1>t, ChangeTyped DEF Events
  <2>7. s \in ActiveUpstream(e) BY <2>1, <2>4 DEF ActiveUpstream, Listed
  <2>8. changes[e].sub \in ActiveUpstream(e)
    BY <2>3, <2>5, <2>6 DEF ActiveUpstream, Listed
  <2> QED BY <2>3, <2>7, <2>8 DEF NeverTwoActive, Events
<1> QED BY <1>3, <1>4, <1>5 DEF StoredPlan, UpstreamPlan, ActiveUpstream, Listed

\* Once every event is acked, the space has the plan it has upstream, whatever
\* order the events came in and however often, as long as their stamps order them,
\* upstream has one active subscription at a time and none was acked without a
\* write (syncSubscriptions, materializeFromEvent, materializeAuthoritative).
THEOREM SettledIsInSync == Spec => []SettledInSync
<1>1. Init => SyncInv BY InitSync
<1>2. Inv /\ SyncInv /\ [Next]_vars => SyncInv' BY StepSync
<1>3. Spec => []SyncInv BY <1>1, <1>2, Invariant, PTL DEF Spec
<1>4. Inv /\ SyncInv => SettledInSync BY SettledSync
<1> QED BY <1>3, <1>4, Invariant, PTL
=============================================================================
