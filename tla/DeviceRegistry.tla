----------------------------- MODULE DeviceRegistry -----------------------------
(***************************************************************************)
(* Devices that subscribe to the notifications of a Safe, and the jobs     *)
(* that notify them of its events:                                         *)
(*   src/src/modules/notifications/domain/v2/notifications.repository.ts   *)
(*   src/src/modules/notifications/domain/push/push-notification.service.ts*)
(*   src/src/modules/notifications/routes/v1/notifications.controller.ts   *)
(*                                                                         *)
(* The subscribers of a Safe are cached for a minute (TypeORM keeps query  *)
(* results in Redis).  An event is one job, which queues a job for each    *)
(* device; a device whose token Firebase does not know any more is deleted.*)
(*                                                                         *)
(* One Safe; types of notifications are left out.  Registrations lock the  *)
(* device's row, which makes the statements of one transaction one step.   *)
(* BullMQ runs a job again that failed or whose process stopped; failures  *)
(* are fewer than a job's attempts, so one that comes before any effect    *)
(* changes nothing, and is not an action.                                  *)
(***************************************************************************)
EXTENDS Integers

CONSTANTS Devices, Signers,
          Anyone,          \* who registers without signing in: signer_address is NULL
          Events,
          Owners,          \* who own the Safe, or act for an owner, and have yet to sign:
                           \* of private events only they are notified
          Requests,        \* bound: requests and deletions under way at a time
          MaxTokens,       \* bound: tokens that Firebase gives a device
          MaxFaults        \* bound: jobs that could not be queued, transactions that fail,
                           \* requests and jobs that a restart interrupts

Nobody == "nobody"

ASSUME RegistryAssumption ==
  /\ Anyone \in Signers /\ Owners \subseteq Signers \ {Anyone}
  /\ Nobody \notin Signers
  /\ MaxTokens \in Nat \ {0} /\ MaxFaults \in Nat

VARIABLES
  live,        \* the token by which Firebase knows each device
  token,       \* the devices' rows: the token, or that there is none
  subs,        \* the subscriptions' rows: the signers of each device
  entry,       \* the cached subscribers
  req,         \* requests of the apps, and deletions of devices by jobs
  job,         \* what became of each event
  outbox,      \* deliveries that are queued
  late,        \* history: the cached subscribers were outdated when ...
               \* ... they were stored, or no one is left who would remove them
  settled,     \* history: the signer that each app registered, undisturbed
  faults

devices == <<token, subs>>
vars == <<live, devices, entry, req, job, outbox, late, settled, faults>>

NoToken == 0
Tokens == NoToken .. MaxTokens
NotCached == {[signer |-> Nobody]}

Rows == [device : Devices, signer : Signers, token : Tokens \ {NoToken}]
Deliveries == [event : Events, device : Devices, token : Tokens, run : 1 .. MaxFaults + 1]

Subscribers == {row \in Rows : row.signer \in subs[row.device] /\ row.token = token[row.device]}

Idle == [at |-> "idle"]

NewJob(private) ==
  [at |-> "queued", private |-> private, rows |-> {}, todo |-> {}, run |-> 0,
   lost |-> {}, queued |-> [d \in Devices |-> 0]]

TypeOK ==
  /\ live \in [Devices -> Tokens] /\ token \in [Devices -> Tokens]
  /\ subs \in [Devices -> SUBSET Signers]
  /\ \A d \in Devices : token[d] = NoToken => subs[d] = {}
  /\ entry = NotCached \/ entry \subseteq Rows
  /\ \A r \in Requests : req[r] = Idle \/
       /\ req[r].at \in {"find", "delete", "remove", "clear", "begin", "commit"}
       /\ req[r].device \in Devices /\ req[r].signer \in Signers \union {Nobody}
       /\ req[r].token \in Tokens /\ req[r].found \subseteq Signers
       /\ req[r].delivery \in {{}} \union {{m} : m \in Deliveries}
  /\ \A e \in Events :
       /\ job[e].private \in BOOLEAN /\ job[e].at \in {"queued", "store", "fan", "done"}
       /\ job[e].todo \subseteq job[e].rows /\ job[e].rows \subseteq Rows
       /\ job[e].run \in 0 .. MaxFaults + 1 /\ job[e].lost \subseteq Devices
  /\ outbox \subseteq Deliveries
  /\ late \in BOOLEAN /\ settled \in [Devices -> Signers \union {Nobody}]
  /\ faults \in 0 .. MaxFaults

Init ==
  /\ live = [d \in Devices |-> 1]
  /\ token = [d \in Devices |-> NoToken] /\ subs = [d \in Devices |-> {}]
  /\ entry = NotCached /\ late = FALSE
  /\ req = [r \in Requests |-> Idle]
  /\ job \in [Events -> {NewJob(private) : private \in BOOLEAN}] /\ outbox = {}
  /\ settled = [d \in Devices |-> Nobody]
  /\ faults = 0

Fault == faults < MaxFaults /\ faults' = faults + 1

-----------------------------------------------------------------------------
(* The cached subscribers of the Safe.                                      *)

RemoveCached == entry' = NotCached /\ late' = FALSE

Expire ==
  /\ entry # NotCached /\ RemoveCached
  /\ UNCHANGED <<live, devices, req, job, outbox, settled, faults>>

-----------------------------------------------------------------------------
(* upsertSubscriptions.                                                     *)

Registering(d, s) == [at |-> "commit", device |-> d, signer |-> s, token |-> live[d],
                      found |-> {}, delivery |-> {}]

\* The cached subscribers are removed within the transaction, but not by it.
BeginRegister(r, d, s) ==
  /\ req[r] = Idle
  /\ req' = [req EXCEPT ![r] = Registering(d, s)]
  /\ RemoveCached
  /\ UNCHANGED <<live, devices, job, outbox, settled, faults>>

\* The second half of a registration by the old API, once the device is deleted.
BeginAgain(r) ==
  /\ req[r].at = "begin"
  /\ req' = [req EXCEPT ![r].at = "commit"]
  /\ RemoveCached
  /\ UNCHANGED <<live, devices, job, outbox, settled, faults>>

\* No job, cached row or request knows an earlier token of d, or is deleting it.
NoTrace(d, r) ==
  LET Outdated(rows) == \E row \in rows : row.device = d /\ row.token # live[d]
  IN  /\ \A m \in outbox : m.device = d => m.token = live[d]
      /\ entry # NotCached => ~Outdated(entry)
      /\ \A e \in Events : job[e].at \in {"store", "fan"} => ~Outdated(job[e].rows)
      /\ \A q \in Requests \ {r} : req[q] # Idle => req[q].device # d

\* upsertDevice: the token is the one of this registration.
UpsertDevice(d, t) == token' = [token EXCEPT ![d] = t]

\* deletePreviousSubscriptions and upsertSubscription: rows of this signer and of
\* Anyone are replaced, so whoever had found them finds nothing to remove.
CommitRegister(r) ==
  LET d == req[r].device  s == req[r].signer
  IN  /\ req[r].at = "commit"
      /\ UpsertDevice(d, req[r].token)
      /\ subs' = [subs EXCEPT ![d] = (@ \ {Anyone}) \union {s}]
      /\ req' = [q \in Requests |->
           IF q = r THEN Idle
           ELSE IF req[q].at = "remove" /\ req[q].device = d
           THEN [req[q] EXCEPT !.found = @ \ {s, Anyone}] ELSE req[q]]
      /\ late' = (late \/ entry # NotCached)
      /\ settled' = [settled EXCEPT ![d] =
           IF req[r].token = live[d] /\ NoTrace(d, r) THEN s ELSE Nobody]
  /\ UNCHANGED <<live, entry, job, outbox, faults>>

RollBack(r) ==
  /\ req[r].at = "commit"
  /\ Fault
  /\ req' = [req EXCEPT ![r] = Idle]
  /\ UNCHANGED <<live, devices, entry, job, outbox, late, settled>>

-----------------------------------------------------------------------------
(* deleteDevice, deleteSubscription, deleteAllSubscriptions.                *)

Removing(at, d, s, found, delivery) ==
  [at |-> at, device |-> d, signer |-> s, found |-> found, delivery |-> delivery,
   token |-> IF s = Nobody THEN NoToken ELSE live[d]]

\* An app deletes its device; by the old API, a phone registers by doing that first.
Unregister(r, d, next) ==
  /\ req[r] = Idle
  /\ req' = [req EXCEPT ![r] = Removing("find", d, next, {}, {})]
  /\ settled' = [settled EXCEPT ![d] = Nobody]
  /\ UNCHANGED <<live, devices, entry, job, outbox, late, faults>>

\* getSubscriptionsByDeviceUuid tells whose cached subscribers to remove.
FindSubscriptions(r) ==
  /\ req[r].at = "find"
  /\ req' = [req EXCEPT ![r].at = "delete", ![r].found = subs[req[r].device]]
  /\ UNCHANGED <<live, devices, entry, job, outbox, late, settled, faults>>

Registration(r) == IF req[r].signer = Nobody THEN Idle ELSE [req[r] EXCEPT !.at = "begin", !.found = {}]

\* Deleting the device deletes its subscriptions.  If it is not there, the request,
\* a registration by the old API included, is refused.
DeleteDevice_KeepsSubscriptions(r) ==
  LET d == req[r].device
  IN  /\ req[r].at = "delete"
      /\ token' = [token EXCEPT ![d] = NoToken] /\ UNCHANGED subs
      /\ late' = (late \/ (req[r].found = {} /\ subs[d] # {} /\ entry # NotCached))
      /\ req' = [q \in Requests |->
           IF q = r
           THEN IF token[d] = NoToken THEN Idle
                ELSE IF req[r].found = {} THEN Registration(r) ELSE [req[r] EXCEPT !.at = "clear", !.found = {}]
           ELSE IF req[q].at = "remove" /\ req[q].device = d
           THEN [req[q] EXCEPT !.found = {}] ELSE req[q]]
  /\ UNCHANGED <<live, entry, job, outbox, settled, faults>>
DeleteDevice(r) ==
  LET d == req[r].device
  IN  /\ req[r].at = "delete"
      /\ token' = [token EXCEPT ![d] = NoToken] /\ subs' = [subs EXCEPT ![d] = {}]
      /\ late' = (late \/ (req[r].found = {} /\ subs[d] # {} /\ entry # NotCached))
      /\ req' = [q \in Requests |->
           IF q = r
           THEN IF token[d] = NoToken THEN Idle
                ELSE IF req[r].found = {} THEN Registration(r) ELSE [req[r] EXCEPT !.at = "clear", !.found = {}]
           ELSE IF req[q].at = "remove" /\ req[q].device = d
           THEN [req[q] EXCEPT !.found = {}] ELSE req[q]]
  /\ UNCHANGED <<live, entry, job, outbox, settled, faults>>

\* deleteSubscription finds one subscription of the device, whoever's; the other
\* finds one signer's, or all.
FindToRemove(r, d, found) ==
  /\ req[r] = Idle
  /\ found = subs[d] \/ \E s \in subs[d] : found = {s}
  /\ found # {}
  /\ req' = [req EXCEPT ![r] = Removing("remove", d, Nobody, found, {})]
  /\ settled' = [settled EXCEPT ![d] = Nobody]
  /\ UNCHANGED <<live, devices, entry, job, outbox, late, faults>>

RemoveSubscriptions_KeepsCached(r) ==
  /\ req[r].at = "remove"
  /\ subs' = [subs EXCEPT ![req[r].device] = @ \ req[r].found]
  /\ req' = [req EXCEPT ![r] = Idle]
  /\ UNCHANGED <<live, token, entry, job, outbox, late, settled, faults>>
RemoveSubscriptions(r) ==
  /\ req[r].at = "remove"
  /\ subs' = [subs EXCEPT ![req[r].device] = @ \ req[r].found]
  /\ req' = [req EXCEPT ![r].at = "clear", ![r].found = {}]
  /\ UNCHANGED <<live, token, entry, job, outbox, late, settled, faults>>

ClearCached(r) ==
  /\ req[r].at = "clear"
  /\ req' = [req EXCEPT ![r] = Registration(r)]
  /\ RemoveCached
  /\ UNCHANGED <<live, devices, job, outbox, settled, faults>>

-----------------------------------------------------------------------------
(* processEvent.                                                            *)

\* uniqBy: one of the rows of each device, whichever comes first.
OnePerToken_All(rows) == {rows}
OnePerToken(rows) ==
  {first \in SUBSET rows :
     \A row \in rows : \E f \in first : /\ f.device = row.device
                                        /\ \A g \in first : g.device = row.device => g = f}

FanOut(e, rows) ==
  \E first \in OnePerToken(rows) :
    job' = [job EXCEPT ![e].at = "fan", ![e].rows = rows, ![e].todo = first,
                       ![e].run = IF job[e].at = "queued" THEN @ + 1 ELSE @]

ReadCached(e) ==
  /\ job[e].at = "queued" /\ entry # NotCached
  /\ FanOut(e, entry)
  /\ UNCHANGED <<live, devices, entry, req, outbox, late, settled, faults>>

ReadDatabase(e) ==
  /\ job[e].at = "queued" /\ entry = NotCached
  /\ job' = [job EXCEPT ![e].at = "store", ![e].rows = Subscribers, ![e].run = @ + 1]
  /\ UNCHANGED <<live, devices, entry, req, outbox, late, settled, faults>>

StoreRows(e) ==
  /\ job[e].at = "store"
  /\ entry' = job[e].rows /\ late' = (job[e].rows # Subscribers)
  /\ FanOut(e, job[e].rows)
  /\ UNCHANGED <<live, devices, req, outbox, settled, faults>>

\* For private events, the signer of the row that came first decides for the device.
EnqueueDelivery(e, row) ==
  /\ job[e].at = "fan" /\ row \in job[e].todo
  /\ IF job[e].private /\ row.signer \notin Owners
     THEN job' = [job EXCEPT ![e].todo = @ \ {row}] /\ UNCHANGED <<outbox, faults>>
     ELSE \/ /\ outbox' = outbox \union {[event |-> e, device |-> row.device,
                                          token |-> row.token, run |-> job[e].run]}
             /\ job' = [job EXCEPT ![e].todo = @ \ {row}, ![e].queued[row.device] = @ + 1]
             /\ UNCHANGED faults
          \/ /\ Fault
             /\ job' = [job EXCEPT ![e].todo = @ \ {row}, ![e].lost = @ \union {row.device}]
             /\ UNCHANGED outbox
  /\ UNCHANGED <<live, devices, entry, req, late, settled>>

FinishEvent(e) ==
  /\ job[e].at = "fan" /\ job[e].todo = {}
  /\ job' = [job EXCEPT ![e] = [NewJob(FALSE) EXCEPT !.at = "done"]]
  /\ UNCHANGED <<live, devices, entry, req, outbox, late, settled, faults>>

-----------------------------------------------------------------------------
(* processDelivery, and the faults.                                         *)

\* Firebase knows the device by another token from now on.
Rotate(d) ==
  /\ live[d] < MaxTokens
  /\ live' = [live EXCEPT ![d] = @ + 1]
  /\ settled' = [settled EXCEPT ![d] = Nobody]
  /\ UNCHANGED <<devices, entry, req, job, outbox, late, faults>>

Deliver(m) ==
  /\ m \in outbox /\ m.token = live[m.device]
  /\ outbox' = outbox \ {m}
  /\ UNCHANGED <<live, devices, entry, req, job, late, settled, faults>>

\* UNREGISTERED: the device is deleted, whatever its token is by then.
Unregistered_AnyError(m, r) ==
  /\ m \in outbox
  /\ req[r] = Idle
  /\ outbox' = outbox \ {m}
  /\ req' = [req EXCEPT ![r] = Removing("find", m.device, Nobody, {}, {m})]
  /\ UNCHANGED <<live, devices, entry, job, late, settled, faults>>
Unregistered(m, r) ==
  /\ m \in outbox /\ m.token # live[m.device]
  /\ req[r] = Idle
  /\ outbox' = outbox \ {m}
  /\ req' = [req EXCEPT ![r] = Removing("find", m.device, Nobody, {}, {m})]
  /\ UNCHANGED <<live, devices, entry, job, late, settled, faults>>

CrashRequest(r) ==
  /\ req[r] # Idle
  /\ Fault
  /\ req' = [req EXCEPT ![r] = Idle]
  /\ outbox' = outbox \union req[r].delivery
  /\ late' = (late \/ (req[r].at = "clear" /\ entry # NotCached))
  /\ UNCHANGED <<live, devices, entry, job, settled>>

CrashJob(e) ==
  /\ job[e].at \in {"store", "fan"}
  /\ Fault
  /\ job' = [job EXCEPT ![e].at = "queued", ![e].rows = {}, ![e].todo = {}]
  /\ UNCHANGED <<live, devices, entry, req, outbox, late, settled>>

Next ==
  \/ Expire
  \/ \E d \in Devices : Rotate(d)
  \/ \E r \in Requests :
       \/ BeginAgain(r) \/ CommitRegister(r) \/ RollBack(r) \/ FindSubscriptions(r)
       \/ DeleteDevice(r) \/ RemoveSubscriptions(r) \/ ClearCached(r) \/ CrashRequest(r)
       \/ \E d \in Devices :
            \/ \E s \in Signers : BeginRegister(r, d, s)
            \/ \E s \in Signers \union {Nobody} : Unregister(r, d, s)
            \/ \E found \in SUBSET Signers : FindToRemove(r, d, found)
       \/ \E m \in outbox : Unregistered(m, r)
  \/ \E m \in outbox : Deliver(m)
  \/ \E e \in Events :
       \/ ReadCached(e) \/ ReadDatabase(e) \/ StoreRows(e)
       \/ FinishEvent(e) \/ CrashJob(e)
       \/ \E row \in job[e].todo : EnqueueDelivery(e, row)

Spec == Init /\ [][Next]_vars

-----------------------------------------------------------------------------
(* Properties.                                                              *)

\* The cached subscribers are those of the database, but for a removal that is about
\* to clear them, for a reader that stored what it had read before a change, for a
\* registration that committed after they were cached, for a subscription that came
\* between the two steps of deleteDevice, and for a restart before the clearing.
CachedSubscribersCurrent ==
  entry \in {NotCached, Subscribers} \/ late \/ \E r \in Requests : req[r].at = "clear"

\* An app that registers its current token, at a time when nothing in the gateway
\* knows an earlier one of that device, stays registered with that token until it
\* gets another or asks to be removed: no delivery deletes it.
RegistrationsLast ==
  \A d \in Devices :
    settled[d] # Nobody => token[d] = live[d] /\ settled[d] \in subs[d]

\* An event is delivered to a device at most once for each run of its job, under
\* however many signers it is subscribed.  In the end, each device has a delivery
\* whose subscribers are all to be notified, unless a failure lost it.
DeliveriesAsSubscribed ==
  \A e \in Events, d \in Devices :
    LET signers == {row.signer : row \in {x \in job[e].rows : x.device = d}}
    IN  /\ job[e].queued[d] <= job[e].run
        /\ (job[e].at = "fan" /\ job[e].todo = {} /\ signers # {} /\ d \notin job[e].lost
            /\ (job[e].private => signers \subseteq Owners)) => job[e].queued[d] > 0
=============================================================================
