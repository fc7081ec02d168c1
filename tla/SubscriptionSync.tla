--------------------------- MODULE SubscriptionSync ---------------------------
(***************************************************************************)
(* How a workspace's subscriptions follow the billing service:             *)
(*   src/src/modules/entitlements/routes/subscription-sync.service.ts      *)
(*   src/src/modules/entitlements/routes/entitlements.service.ts           *)
(*                                   materializeFromEvent / -Authoritative *)
(*   src/src/modules/entitlements/domain/subscriptions.repository.ts       *)
(*   src/src/modules/entitlements/domain/subscription.mapper.ts            *)
(*                                                                         *)
(* Upstream, subscriptions change and every change is announced by one     *)
(* event, delivered at least once, in any order and to any instance.       *)
(* Handlers are webhook requests being served.  A handler writes in a      *)
(* transaction that holds the space's advisory lock, so each transaction   *)
(* is one step; between them a handler holds what it read.                 *)
(*                                                                         *)
(* The module follows one space, which is not deleted.  A stored row keeps *)
(* the number of the change whose state it carries instead of that state;  *)
(* the feature package is written with the active row and by the same      *)
(* transaction, so it is not kept apart.                                   *)
(***************************************************************************)
EXTENDS Integers, Sequences

CONSTANTS NSubs,          \* bound: subscriptions upstream, numbered by age
          Handlers,
          MaxChanges,     \* bound: changes upstream
          MaxTime,        \* bound: seconds in which changes happen
          MaxRepeats,     \* bound: deliveries beyond the first of each event
          Kinds,          \* what events carry, see below
          Overlap,        \* may two subscriptions be active upstream at once?
          UpstreamFails   \* may upstream list no subscriptions by mistake?

\* full: a complete snapshot with its time.  thin: a time only.  unstamped: the
\* event has no `created`, so its payload is not used whatever it carries.
AllKinds == {"full", "thin", "unstamped"}

ASSUME SyncAssumption ==
  /\ NSubs \in Nat \ {0} /\ MaxChanges \in Nat /\ MaxTime \in Nat \ {0}
  /\ MaxRepeats \in Nat /\ Kinds \subseteq AllKinds
  /\ Overlap \in BOOLEAN /\ UpstreamFails \in BOOLEAN

VARIABLES
  changes,     \* upstream: its changes so far, oldest first
  rows,        \* the subscriptions table
  delivered,   \* events delivered at least once
  repeats,     \* deliveries of events delivered before
  acked,       \* events answered with 202
  pc, event, observed, seen,   \* handlers
  gaveUp       \* history: events answered with 202 without a write

handlers == <<pc, event, observed, seen>>
webhook == <<delivered, repeats>>
vars == <<changes, rows, webhook, acked, handlers, gaveUp>>

Subs == 1 .. NSubs
Events == 1 .. Len(changes)

\* The status matters only for the slot of the active subscription: "active"
\* stands for active and trialing, "inactive" for every other one.
Statuses == {"active", "inactive"}

\* 0 is the mark of a row, or a space, that was never stamped (null).
Stamps == 0 .. MaxTime

NoRow == [status |-> "none", change |-> 0, mark |-> 0]
Rows == [status : Statuses \union {"none"}, change : 0 .. MaxChanges, mark : Stamps]

Change == [sub : Subs, status : Statuses, at : 1 .. MaxTime, kind : Kinds]

TypeOK ==
  /\ changes \in Seq(Change) /\ Len(changes) <= MaxChanges
  /\ rows \in [Subs -> Rows]
  /\ delivered \subseteq Events /\ repeats \in 0 .. MaxRepeats
  /\ acked \subseteq delivered /\ gaveUp \subseteq acked
  /\ pc \in [Handlers -> {"idle", "payload", "observe", "fetch", "write"}]
  /\ event \in [Handlers -> 0 .. MaxChanges]
  /\ observed \in [Handlers -> Stamps]
  /\ seen \in [Handlers -> 0 .. MaxChanges]

Init ==
  /\ changes = << >>
  /\ rows = [s \in Subs |-> NoRow]
  /\ delivered = {} /\ repeats = 0
  /\ acked = {} /\ gaveUp = {}
  /\ pc = [h \in Handlers |-> "idle"]
  /\ event = [h \in Handlers |-> 0]
  /\ observed = [h \in Handlers |-> 0]
  /\ seen = [h \in Handlers |-> 0]

-----------------------------------------------------------------------------
(* Upstream.                                                                *)

\* The last of the first k changes that concerns s, 0 if there is none.
LastOf(k, s) ==
  CHOOSE i \in 0 .. k :
    /\ i > 0 => changes[i].sub = s
    /\ \A j \in i + 1 .. k : changes[j].sub # s

Listed(k) == {s \in Subs : LastOf(k, s) > 0}
ActiveUpstream(k) == {s \in Listed(k) : changes[LastOf(k, s)].status = "active"}

Clock == IF changes = << >> THEN 0 ELSE changes[Len(changes)].at

ChangeUpstream(s, status, kind) ==
  /\ Len(changes) < MaxChanges
  /\ s - 1 \in Listed(Len(changes)) \union {0}
  /\ status = "active" /\ ~Overlap => ActiveUpstream(Len(changes)) \subseteq {s}
  /\ \E at \in {Clock, Clock + 1} \cap 1 .. MaxTime :
       changes' = Append(changes,
                         [sub |-> s, status |-> status, at |-> at, kind |-> kind])
  /\ UNCHANGED <<rows, webhook, acked, handlers, gaveUp>>

-----------------------------------------------------------------------------
(* The table.                                                               *)

\* MAX(last_event_at) of the space.
Mark == CHOOSE m \in Stamps :
          /\ \E s \in Subs : rows[s].mark = m
          /\ \A s \in Subs : rows[s].mark <= m

\* ordersAfter: strictly, a tie is not "after".
OrdersAfter_OrTies(stamp, mark) == stamp >= mark
OrdersAfter(stamp, mark) == stamp > mark

LaterOf(stored, trigger) == IF stored > trigger THEN stored ELSE trigger

\* materializeUnderLock: demote the active rows other than the incoming active
\* one, then upsert what came in.  incoming maps subscriptions to the status and
\* the change to store.
Outgoing_Stays(s, incoming) == FALSE
Outgoing(s, incoming) ==
  /\ rows[s].status = "active"
  /\ \E t \in DOMAIN incoming : incoming[t].status = "active"

Materialized(incoming, stamp) ==
  [s \in Subs |->
     IF s \in DOMAIN incoming
     THEN [status |-> incoming[s].status, change |-> incoming[s].change, mark |-> stamp]
     ELSE IF Outgoing(s, incoming)
     THEN [rows[s] EXCEPT !.status = "inactive", !.mark = stamp]
     ELSE rows[s]]

\* mapEventToSubscription.
Snapshot(e) == [s \in {changes[e].sub} |-> [status |-> changes[e].status, change |-> e]]

\* mapUpstreamSubscriptions: of several active subscriptions the newest keeps the
\* slot, the others count as canceled.
Authoritative(k) ==
  [s \in Listed(k) |->
     [status |-> IF \E t \in ActiveUpstream(k) : t > s THEN "inactive"
                 ELSE changes[LastOf(k, s)].status,
      change |-> LastOf(k, s)]]

Stamp_InMilliseconds(e) == changes[e].at * 1000
Stamp(e) == IF changes[e].kind = "unstamped" THEN 0 ELSE changes[e].at

-----------------------------------------------------------------------------
(* Handlers.                                                                *)

GoTo(h, step) == pc' = [pc EXCEPT ![h] = step]

\* The handler returns; it forgets what it read.
Return(h) ==
  /\ GoTo(h, "idle")
  /\ event' = [event EXCEPT ![h] = 0]
  /\ observed' = [observed EXCEPT ![h] = 0]
  /\ seen' = [seen EXCEPT ![h] = 0]

Ack(h) == Return(h) /\ acked' = acked \union {event[h]}

\* handleWebhook.  Events are also delivered again after they were acked, and
\* while an earlier delivery is still being served.
Receive(h, e) ==
  /\ pc[h] = "idle"
  /\ \/ e \notin delivered /\ UNCHANGED repeats
     \/ e \in delivered /\ repeats < MaxRepeats /\ repeats' = repeats + 1
  /\ delivered' = delivered \union {e}
  /\ GoTo(h, IF changes[e].kind = "full" THEN "payload" ELSE "observe")
  /\ event' = [event EXCEPT ![h] = e]
  /\ UNCHANGED <<changes, rows, acked, observed, seen, gaveUp>>

\* materializeFromEvent, when the event orders after the mark.
MaterializeFromEvent(h) ==
  /\ pc[h] = "payload"
  /\ OrdersAfter(Stamp(event[h]), Mark)
  /\ rows' = Materialized(Snapshot(event[h]), Stamp(event[h]))
  /\ Ack(h)
  /\ UNCHANGED <<changes, webhook, gaveUp>>

\* materializeFromEvent, when it does not.
KeepState(h) ==
  /\ pc[h] = "payload"
  /\ ~OrdersAfter(Stamp(event[h]), Mark)
  /\ GoTo(h, "observe")
  /\ UNCHANGED <<changes, rows, webhook, acked, event, observed, seen, gaveUp>>

\* readAuthoritativeState, the mark.
Observe(h) ==
  /\ pc[h] = "observe"
  /\ observed' = [observed EXCEPT ![h] = Mark]
  /\ GoTo(h, "fetch")
  /\ UNCHANGED <<changes, rows, webhook, acked, event, seen, gaveUp>>

\* readAuthoritativeState, the fetch, after the cached list was cleared.
Fetch(h) ==
  /\ pc[h] = "fetch"
  /\ seen' = [seen EXCEPT ![h] = Len(changes)]
  /\ GoTo(h, "write")
  /\ UNCHANGED <<changes, rows, webhook, acked, event, observed, gaveUp>>

\* Upstream lists nothing: an anomaly that is acked and not written.
FetchNothing(h) ==
  /\ UpstreamFails
  /\ pc[h] = "fetch"
  /\ Ack(h)
  /\ gaveUp' = gaveUp \union {event[h]}
  /\ UNCHANGED <<changes, rows, webhook>>

\* A concurrent delivery moved the mark since it was observed.
Moved_Never(h) == FALSE
Moved(h) == Mark # observed[h]

\* materializeAuthoritative, when the mark is the one observed.
MaterializeAuthoritative(h) ==
  /\ pc[h] = "write"
  /\ ~Moved(h)
  /\ rows' = Materialized(Authoritative(seen[h]), LaterOf(Mark, Stamp(event[h])))
  /\ Ack(h)
  /\ UNCHANGED <<changes, webhook, gaveUp>>

\* materializeAuthoritative, when it moved: "superseded twice", acked.
Superseded(h) ==
  /\ pc[h] = "write"
  /\ Moved(h)
  /\ Ack(h)
  /\ gaveUp' = gaveUp \union {event[h]}
  /\ UNCHANGED <<changes, rows, webhook>>

\* An upstream or database error, or the process dies: 5xx, no ack, and the
\* transaction, if any, rolled back.
Fail(h) ==
  /\ pc[h] # "idle"
  /\ Return(h)
  /\ UNCHANGED <<changes, rows, webhook, acked, gaveUp>>

Handle(h) ==
  \/ MaterializeFromEvent(h) \/ KeepState(h)
  \/ Observe(h) \/ Fetch(h) \/ FetchNothing(h)
  \/ MaterializeAuthoritative(h) \/ Superseded(h)

Next ==
  \/ \E s \in Subs, status \in Statuses, kind \in Kinds :
       ChangeUpstream(s, status, kind)
  \/ \E h \in Handlers : Handle(h) \/ Fail(h) \/ \E e \in Events : Receive(h, e)

Spec == Init /\ [][Next]_vars

-----------------------------------------------------------------------------
(* Properties.                                                              *)

\* No transaction ever breaks UQ_subscriptions_active_space: a subscription
\* claims the active slot only when no other holds it, whichever deliveries
\* interleave and whatever upstream lists (demoteActiveSubscriptions).
OneActive ==
  \A s, t \in Subs : rows[s].status = "active" /\ rows[t].status = "active" => s = t

\* The mark a row was ordered by is never taken back, by no retry, no repeated
\* delivery and no late authoritative write (laterOf).
MarksRise == [][\A s \in Subs : rows'[s].mark >= rows[s].mark]_vars

Ordered ==
  /\ \A e \in Events : changes[e].kind # "unstamped"
  /\ \A d, e \in Events : d < e => changes[d].at < changes[e].at

NeverTwoActive ==
  \A k \in Events : \A s, t \in ActiveUpstream(k) : s = t

Settled == acked = Events /\ \A h \in Handlers : pc[h] = "idle"

StoredPlan == {<<s, rows[s].change>> : s \in {s \in Subs : rows[s].status = "active"}}
UpstreamPlan ==
  {<<s, LastOf(Len(changes), s)>> : s \in ActiveUpstream(Len(changes))}

\* Once every event is acked, the space has exactly the plan it has upstream, in
\* its latest state, in whatever order and however often the events came: as long
\* as their stamps order them, upstream has one active subscription at a time and
\* no event was acked without a write (syncSubscriptions).
SettledInSync ==
  Settled /\ Ordered /\ NeverTwoActive /\ gaveUp = {} => StoredPlan = UpstreamPlan
=============================================================================
