# Safe Client Gateway: formal models

TLA+ models, TLC checks and TLAPS proofs for the Safe Client Gateway, the
NestJS service between the Safe apps and the services that index, price, relay,
bill and notify. Every definition is translated from the TypeScript under
`src/src/`; `PROJECT.json` ("map") names the lines each one stands for.

Contents

1. [The system and its components](#1-the-system-and-its-components)
2. [The plan](#2-the-plan)
3. [The modules](#3-the-modules): state and actions, beside the code
4. [The runs](#4-the-runs): what is checked, within which bounds
5. [Fairness](#5-fairness)
6. [What is proved](#6-what-is-proved)
7. [Where code and documentation disagree](#7-where-code-and-documentation-disagree)
8. [What is only model-checked, and what is not
   modelled](#8-what-is-only-model-checked-and-what-is-not-modelled)
9. [Running it](#9-running-it)

## 1. The system and its components

A request passes controller, route service, repository and datasource; most
datasources read through a Redis cache in front of an upstream API. Several
instances of the gateway run at once. They share Redis and Postgres (TypeORM,
READ COMMITTED, with transactions opened by the repositories) and receive

* webhooks of the billing service (subscriptions of workspaces),
* messages of an AMQP queue that announce on-chain and off-chain changes and
  clear cache entries,
* cron ticks and, through BullMQ, jobs (exports, push notifications, emails).

So the difficult behaviour is not in any one function but between the awaits:
two requests in two instances, a request and an invalidation, a webhook that is
delivered twice or late, a process that dies after the first of two writes.

### Components with state of their own

| component | state | operations | what makes it hard | what makes it correct |
|---|---|---|---|---|
| **Circuit breaker** `datasources/circuit-breaker` | in memory, per instance and key: state, failures, successes, probes in flight, three timestamps | admit, record success, record failure, cleanup cron | answers do not say in which state their request was admitted; cron drops circuits by age | refuses for the whole timeout; never loses a probe slot; ends every half-open window |
| **Read-through cache** `datasources/cache`, `datasources/network` | Redis: entries with expiry, invalidation markers | get/post with hit, miss, fetch, cached 404; deleteByKey | fetch, check and write are separate awaits; deleteByKey is two commands; HSET and EXPIRE are two commands | an outdated answer is not kept; if it is, not for ever |
| **Subscription sync** `modules/entitlements` (webhook side) | Postgres: subscriptions with mark and unique active slot, packages of features | take an event's payload, or refetch upstream and write that | duplicate, late, tied and unordered events; two deliveries at once; upstream anomalies | one active subscription; marks only rise; finally the upstream plan |
| **Space membership** `modules/users/domain/members`, `modules/spaces` | Postgres: members, users, spaces, audit log | invite, renew, accept, decline, change role, remove, leave, delete account, delete space | checks outside the transaction, writes by id, no row locks | consistent rows and accounts, a space keeps an admin, the audit log tells what happened |
| **Workspace quotas and sponsored relays** `modules/entitlements` (enforcement), `modules/relay/domain/relayers/workspace.relayer.ts` | Postgres: usage counters by period; Redis: cached grants and their marker | resolve grant, early check, spend, relay, refund, purge | stale grants, windows that roll over during a call, failing refunds, crashes | never over the allowance, each refund undoes its own charge |
| **Seats of a workspace** `modules/spaces/routes/safes` | Postgres: Safes of a space | add under an advisory lock, remove without it | count and insert are separated by awaits; the quota is read before the lock | seats never exceed the quota that was checked |
| **Address books and requests** `modules/spaces/*/address-books` | Postgres: items, requests | request, approve, reject, upsert | claim of a request by two admins; limits counted before the insert | each request is decided once; limits and log hold but for overlap |
| **Users and wallets** `modules/users/domain` | Postgres: users, wallets, with blind unique indexes | find or create by identity, email, wallet; claim a placeholder; delete | first logins that race, deletion by address | one account for one identity; losers of a race end with the winner's account; no account without a way in |
| **Sign-in** `modules/auth`, `modules/siwe` | Redis: nonces; cookies | SIWE, OIDC, step-up | nonce read and cleared in two commands | a nonce signs in once |
| **Rate limits** `routes/common/guards`, `modules/zerion` | Redis counters | increment, compare | windows that begin and end between requests | no more than the limit in a window |
| **Events and invalidation** `modules/hooks`, `modules/queues` | in memory, per instance: a memo of supported chains, clients of each chain's services | receive, clear keys, ack | acked whatever happened; failures of the memo are remembered | what an event announces is cleared, a listed chain is recognised |
| **Push notifications** `modules/notifications` | Postgres: devices, subscriptions; BullMQ jobs; Redis: cached subscribers | register, deliver, drop stale tokens | retried jobs, devices that come back with another token | a registered device is notified, and not deleted for its old token |
| **Targeted messaging** `modules/targeted-messaging` | Postgres: outreaches; Redis: a lock | process files at start-up | the lock is read, then set, and released also by who never held it | each file processed once |
| **Public relays** `daily-limit.relayer.ts` and others | Redis: count by address | check, relay, raise the count | check and raise are separated by the relay | the daily limit |
| **Billing** `modules/billing` | none of its own | checkout, change of plan | checked here, carried out upstream | no plan too small for the seats in use |
| **Counterfactual Safes**, **CSV export and email jobs** | Postgres, BullMQ | one transaction or one job each | settled by unique indexes, or by the queue | no state spans two requests |

The hooks of the AMQP queue call `deleteByKey` of the cache; the sync purges the
cached grants that the quotas read; the relayer spends those quotas; membership
decides who may call any of it; the breaker stands in front of every upstream
request. Those are the interactions the modules have at their borders.

### Components without

Transactions, Safes, messages, Safe Shield, balances, portfolio, positions,
swaps, staking and bridge are the larger part of the source. They map upstream
answers to views; what they keep is the read-through cache. Encryption is a
conversion (equal plaintexts have equal blind indexes, which the unique indexes
rely on). Configuration, logging, validation and health have no effect on state.

`PROJECT.json` lists each with its status, and under "hazards" where every
component can go wrong in a way that a test would hardly reach.

## 2. The plan

Order: first what every request passes (breaker, cache), then the two components
whose state is worth money (subscriptions, quotas) and the one that decides who
may act (membership), then the rest.

| step | module | composes or refines | status |
|---|---|---|---|
| 1 | `CircuitBreaker` | implements `RequestGate` | modelled, checked, proved |
| 2 | `CacheFirst` | | modelled, checked, safety proved |
| 3 | `SubscriptionSync` | | modelled, checked, proved |
| 4 | `SpaceMembers` | | modelled, checked, proved |
| 5 | `SponsoredRelays` | implements `QuotaLedger`; takes the commits of `SubscriptionSync` as changes of plan and the marker of `CacheFirst` | modelled, checked, proved |
| 6 | `SafeSeats` | implements `SeatBudget`; grants and changes of plan are those of `SponsoredRelays` | modelled, checked, proved |
| 7 | `AddressBook` | implements `RequestDesk`; who may act is decided in `SpaceMembers` | modelled, checked, proved |
| 8 | `AccountLinking` | supplies the accounts of `SpaceMembers` | modelled, checked, proved |
| 9 | `ChainUpdates` | two replicas on one cached entry, of which `CacheFirst` tells the details | modelled, checked, safety proved |
| 10 | `DeviceRegistry` | requests of apps and the two jobs of a notification | modelled, checked, proved |
| 11 | `RateCounters`, `PublicRelays`, `OutreachLock` | the fixed windows, the daily throttle and the start-up lock, each small | left |

Every invariant and every safety property that a passing run checks is proved; the
modules that are left should get the same.

What the modules that are left should have:

* `RateCounters`: twice the limit may pass around the end of a window
  (`rate-limit.guard.ts:38`); counters are written under the key as given and read under
  the prefixed one (`redis.cache.service.ts:119`).
* `PublicRelays`: the count is checked before the relay and raised after it, by reading it
  and storing it plus one (`daily-limit.relayer.ts:70`, `:113`).
* `OutreachLock`: the lock is read, then set, and released in `finally` also by an
  instance that did not get it (`outreach-file-processor.ts:50`).
* a provider for `SponsoredRelays`, which knows what it submitted when its answer is late
  (`workspace.relayer.ts:124`).

Smaller things the present modules contain and no property singles out: a half-open rate
of 0 makes a window that admits nobody and rests until the cleanup
(`circuit-breaker.service.ts:351`); the rolling window looks at the last failure only,
so counted failures may span more than one window (`:428`); a repeated invalidation does
not prolong the marker's life (`redis.cache.service.ts:77`); the limit of spaces per
user is counted outside the transaction (`spaces.repository.ts:63`); an empty upstream
list is acked unwritten (`subscription-sync.service.ts:209`); an event without `created`
is written without raising the mark; two invitations that race for one row end in a
conflict (`members.repository.ts:314`).

Specifications are written to be proved about: constants with named assumptions,
one action per operation, no recursive operators, invariants as conjunctions of
named parts. Proofs are in modules of their own (`*_proofs.tla`), two of which are about
two components each: `Upstream_proofs` extends `CircuitBreaker` and `CacheFirst`,
`Events_proofs` extends `ChainUpdates` and `DeviceRegistry`. Since a name can be defined
only once in what a module extends, `CircuitBreaker` and `ChainUpdates` put `Breaker` and
`Chains` into the names that they share with the other (`BreakerInit`, `ChainsNext`).

## 3. The modules

Two conventions hold everywhere. Code between two awaits is one step, since no
other request of the process runs meanwhile, and a transaction is one step when
a lock or a single statement makes it so; otherwise its reads and its writes are
separate. And definitions with an underscore in their name (`Newer_OrEqual`) are
plausible mistakes in the definition they are named after: no specification uses
them; each property of a passing run is tried against one of them, so that it is
known to notice.

### `CircuitBreaker` (and `RequestGate`)

One circuit of `circuit-breaker.service.ts` and the requests of
`createCircuitBreakerRequestFunction`. Keys share nothing, so one is enough.

| variable | code |
|---|---|
| `state`, `failureCount`, `consecutiveSuccesses`, `halfOpenInFlight` | the fields of the circuit; `"NONE"` when the map has none |
| `retryIn`, `sinceFailure`, `sinceActivity` | `nextAttemptTime`, `lastFailureTime`, `lastActivityTime`, as distances from now |
| `inFlight`, `probes` | requests admitted and not answered; `probes` are those admitted in the present half-open window (history, the code does not keep it) |

`AdmitFreely`, `HalfOpen`, `AdmitProbe` are the three ways through
`canProceed`; `SucceedUncounted`, `SucceedInHalfOpen` are `recordSuccess`;
`FailInClosed`, `FailInHalfOpen`, `FailInOpen` are `recordFailure`;
`CleanupStale` is the cron. Each method runs without an await, so each is a step.
`RequestGate` is what callers are promised: a gate that is shut for at least
`Timeout`, lets nobody pass meanwhile, and then is ajar until probes decide.

### `CacheFirst`

One Redis key of `CacheFirstDataSource`, with readers in one or several
processes. `version` is what upstream would answer (0: not found), `entry` and
`entryLeft` the cached value with its time to live, `markerAge` and `markerLeft`
the invalidation marker, `pc`, `startAge`, `got`, `flight` the requests being
served. `Miss`, `UpstreamReads`, `Respond`, `ShouldBeCached`, `Write` are the
awaits of one read in order; a 404 skips `ShouldBeCached` as in `tryCache`.
`FetchFails`, `WriteFails` and `DieMidWrite` are its failures. `Change`, `Unlink`,
`Stamp` and `StampFails` are an upstream change, and the two commands of
`deleteByKey`. `EXPIRE NX` is modelled as it works: a key that has an expiry
keeps it, so a repeated invalidation renews the marker's time but not its life.
With `SharesRequests` (`features.cacheInFlightRequests`, off by default) a reader
may join a request that is out already.

### `SubscriptionSync`

One space. `changes` is upstream's history; every change is announced by one
event, which is delivered at least once, in any order. `rows` is the table: for
each subscription its status, the change whose state it carries and its mark
(`last_event_at`). A handler goes through `payload` (`materializeFromEvent`,
under the lock), `observe` and `fetch` (`readAuthoritativeState`, outside of it)
and `write` (`materializeAuthoritative`, under the lock again). `Materialized` is
`materializeUnderLock`: demote the other active rows, then upsert. The three kinds
of event are complete snapshots, events without usable payload, and events
without `created`. `FetchNothing` is the anomaly that is acked unwritten.

### `SpaceMembers`

One space after its creation. A request is `Check` (what it demands, on rows read
outside of any transaction, including the list of admins), `Read` (the target's
row, in the transaction) and one of the commits `Invite`, `Reinvite`,
`RenewInvite`, `AcceptInvite`, `DeclineInvite`, `UpdateRole`, `Remove`,
`DeleteAccount`, `DeleteSpace`. Statements write by the id that was read
(`Hits`), and so miss a row that was replaced. `accounts` is the status of users,
`trail` what a reader of the audit log would conclude (with
`features.spaceAuditLog` on), `mixed` remembers about whom requests overlapped.

### `SponsoredRelays` (and `QuotaLedger`)

One space and one event-metered feature. A call resolves its grant twice, once
for the early `AssertWithinQuota`, once for `ConsumeQuota`: from the cache
(`ServeCached`) or from the database (`Miss`, `ComputeGrants`, `Store`). It then
relays and ends in `Submitted`, or in `RelayFails` and `Refund` or `RefundFails`,
or it dies. `used` is `space_feature_usage` by start of the period. `Materialize`
is a commit of `SubscriptionSync` seen from here, followed by the purge (`Unlink`,
`Stamp`, `PurgeDies`). `QuotaLedger` is what `IEntitlementEnforcement` documents:
spends are opened within the allowance and each is kept or given back once, to
the counter it was taken from.

Three things seen while modelling, without a property of their own:
`workspace.relayer.ts:56` says the spend is recorded after the call although
`consumeQuota` records it before; `feature-grant.entity.ts:12` says a free window
can lag by the cache's TTL, which `hasClosedWindow` prevents (`CacheTransparent`
is the check of that); and a relay that was submitted but whose answer came too
late is refunded, so that it is free.

### `SafeSeats` (and `SeatBudget`)

The Safes of one space (`space-safes.service.ts`, `space-safes.repository.ts`). A
Safe address takes one seat on however many chains it is. `rows` is the table,
`granted` the quotas that have ever been in force, `trail` the Safes an audit reader
would list. An addition is `Resolve` (the quota, before the transaction and possibly
from the cache: any quota that has been in force), `LockAndCount` (the advisory lock,
and the seats in use), `Admit` (the second count: which of the addresses are new, and
the refusal), then `InsertRows` or `RollBack`. A removal is `FindRows` and
`RemoveRows`, without the lock. `AssertSafeSeatCapacity` and `Materialize` are the
choice of a plan (`billing.service.ts`) and the webhook that puts it in force some
time later; `MovePlan` is any other change of plan, `DeleteSpace` the end of the space.
A plan on offer (`Offers`) has a number of seats, or is unlimited, or is `Unstated`: its
`FEATURE_SAFE_SEATS` is absent or malformed. Such a plan is compared with nothing
(`billing.service.ts:433`), and once it is taken the free number is in force (`SeatsOf`):
the feature is skipped in the package and its default applies.
`SeatBudget` is what the quota promises: seats fall at any time and rise only within
a quota that was granted.

### `AccountLinking`

Users, the identities, emails and wallets that lead to them, and what a login, an
invitation or a sign-in does to them (`users.repository.ts`, `wallets.repository.ts`,
`auth.service.ts`, `oidc-auth.service.ts`). `users` and `holder` are the two tables,
`sessions` the tokens handed out, `req` the requests with what each has read.

| action | code |
|---|---|
| `Login`, `FindCandidate`, `Claim`, `InsertUser`, `Refetch` | the statements of `findOrCreateByExtUserIdAndEmail`: look up by identity, then a placeholder of that email, claim it by a conditional update, else insert; a duplicate looks again |
| `PersistEmail`, `Reread` | `reconcileEmail` of an identity whose email changed |
| `FindWallet`, `CreateForWallet`, `InsertWallet` | `findOrCreateByWalletAddress`: look the wallet up, then insert user and wallet in one transaction, in which a lost race for the wallet deletes the user again; the latter also alone, when a user adds a wallet |
| `FindOwned`, `DeleteByAddress`, `AddWallet`, `RemoveWallet` | a user's own wallets; a removal checks by user and deletes by address |
| `InviteByEmail`, `Activate`, `DeleteAccount` | placeholders, their activation by an accepted invitation, and the end of an account |

No request holds a lock: a unique index is the guard of the step that inserts.

### `AddressBook` (and `RequestDesk`)

The address book of one space and the requests of members to add to it
(`address-book-requests.service.ts` and the two repositories). Askers go through
`CountPending` and `CreateRequest`; writers approve (`FindRequest`, `Claim`), or edit
directly (`Upsert`), and go on through `FindItem`, `CheckItemsLimit`, `UpdateItem` or
`InsertItem` to their commit; or remove (`FindItemToDelete`, `DeleteItem`). `Reject` is
one conditional update. Claims are locks of a row: others that claim the same request
wait for the commit or the `RollBack`. `RequestDesk` is the promise: each request is
decided once, for good, and approved only with an entry.

### `ChainUpdates`

One chain and what replicas of the gateway keep of its configuration when it changes
(`hooks.repository.ts`, `event-cache.helper.ts`, `chain-api.manager.ts`). `config` and
`listed` are the config service, `cached` the shared cache, `kept[p]` what replica `p`
holds in memory: whether the chain is supported, and one client for each service,
as promises that `reader` has yet to fulfil. A message goes through `TakeUpdate`,
`UnlinkChain` and `StampChain` (the two commands of `deleteByKey`; `ClearChainFails` for
either), `ClearApis`; it is acked whatever happened (`queues-api.service.ts:35`).
Everything in it is served by one replica only. `Tick` is the cron that forgets what was
remembered of support, `Get` a use of either memory. `StartFetch`, or `JoinFetch` where
requests are shared, `Fetch`, `Check`, `Write` are the awaits of a read through the cache,
`FetchFails` and `WriteFails` its failures, `Crash` a restart, which may come between HSET
and EXPIRE (`HalfWrite`) and then leaves an entry without expiry (`lasting`).

There is no clock: `outdated` is what the marker will tell a reader's check, and the
marker may expire at any time (`ExpireMarker`). Some of the variables are history.
`overtaken` marks a reader whose answer was there, and old, at an UNLINK, with no marker
set since that is still there; `slipped` an entry that such a reader wrote; `doubtful` the
clients built from one or the other.

### `DeviceRegistry`

The devices of one Safe's subscribers, the cached list of them and the jobs that
notify them (`notifications.repository.ts`, `push-notification.service.ts`, and the
controller of the first API version, which removes a device before it registers it).
`live` is the token by which Firebase knows a device, `token` and `subs` the tables,
`entry` the cached result of the query, `req` the requests of apps and deletions by
jobs, `job` and `outbox` the event job and the deliveries it queued. `BeginRegister`,
`BeginAgain`, `CommitRegister` are a registration; `Unregister`, `FindToRemove`,
`DeleteDevice`, `RemoveSubscriptions`, `FindSubscriptions`, `ClearCached` the steps of the
several ways to remove; `ReadCached`, `ReadDatabase`, `StoreRows`, `EnqueueDelivery`,
`FinishEvent` the event's job, `Deliver` and `Unregistered` a delivery, `CrashJob` and
`CrashRequest` restarts. A job that fails runs again from its first statement.

## 4. The runs

Sizes are distinct states, with symmetric ones counted once. A passing run has
no error within its bounds and fires every action of its module. In the other two
TLC finds the statement of a comment or an error message violated by what the code
does; section 7 quotes them.

| run | module, cfg | states | properties | shows |
|---|---|---|---|---|
| `breaker` | `MCCircuitBreaker`, `CircuitBreaker.cfg` | 11,962 | `BreakerTypeOK`, `NoLostSlot`, `ImplementsGate`, `NeverShutForGood`, `HalfOpenEnds` | through trips, windows with two probe slots, late answers and cleanup no slot is lost, an open circuit waits its whole timeout, is again and again willing to admit, and under traffic every window ends |
| `cache` | `CacheFirst`, `CacheFirst.cfg` | 722,741 | `TypeOK`, `FreshAfterSeal`, `Converges` | the marker lets nothing through that was read before it was set, but for a joined request, and then by a fetch's timeout at most; the entry ends up absent or current |
| `sync` | `MCSubscriptionSync`, `SubscriptionSync.cfg` | 3,478,246 | `TypeOK`, `OneActive`, `SettledInSync` | the active slot is never claimed twice, and once all events are acked with a write the space has its upstream plan |
| `members` | `MCSpaceMembers`, `SpaceMembers.cfg` | 2,982,863 | `TypeOK`, `ActiveMembersAreUsers`, `AuditAgrees`, `LastAdminStays` | rows and accounts agree, the audit log is right about everyone whose requests did not overlap, and only an outdated decision costs the last admin |
| `members_last_admin` | `SpaceMembersLastAdmin.cfg` | | `AdminRemains` violated | two overlapping requests leave a live space without admin |
| `relays` | `MCSponsoredRelays`, `SponsoredRelays.cfg` | 1,835,407 | `TypeOK`, `WithinAllowance`, `SpendsAccounted`, `CacheTransparent`, `ImplementsLedger` | no counter is overspent or driven negative, each refund undoes its own charge, a cached grant never names a closed window |
| `seats` | `MCSafeSeats`, `SafeSeats.cfg` | 3,277,559 | `TypeOK`, `WithinGranted`, `ChosenPlanFits`, `NoPhantomSafes`, `ImplementsBudget` | additions, removals and changes of plan that overlap never take more seats than some plan allowed; a chosen plan that says how many seats it has is too small only if Safes were added since; the log names no Safe that is not there |
| `linking` | `MCAccountLinking`, `AccountLinking.cfg` | 3,333,798 | `TypeOK`, `SessionsKeepTheirAccount`, `EveryAccountHasAWayIn`, `WalletsLeaveOnDemand` | an identity keeps the account it got a session for, no account is left that nobody can enter, wallets leave only on demand; two removals that overlap are the exception |
| `address_book` | `MCAddressBook`, `AddressBook.cfg` | 3,085,729 | `TypeOK`, `LimitsHoldButForOverlap`, `BookAsLogged`, `ImplementsDesk` | each request is decided once and approved with an entry; limits are exceeded by overlap alone, and by how much; log and book agree but where a removal overlapped another write |
| `chains` | `MCChainUpdates`, `ChainUpdates.cfg` | 1,690,499 | `ChainsTypeOK`, `ApisCurrent`, `SupportRecognised` | a replica that handled a change keeps no older client, unless its answer slipped past the marker or was joined; a listed chain is recognised by every replica in the end, unless it is cached as unknown without an expiry |
| `chains_export_api` | `MCChainUpdates`, `ChainUpdatesExports.cfg` | | `ApisCurrent` violated | the client of the exports outlives every change |
| `devices` | `MCDeviceRegistry`, `DeviceRegistry.cfg` | 3,322,845 | `TypeOK`, `CachedSubscribersCurrent`, `RegistrationsLast`, `DeliveriesAsSubscribed` | when the cached subscribers may be outdated, that a registration is not undone by a late delivery to an earlier token, and that an event reaches each device once per run of its job |

### Bounds, and why they are enough

*Breaker.* Four requests, threshold 3, rate 66%, which makes two probe slots: the
smallest numbers at which a window has two probes, the trip that opened it leaves
requests in flight, and a verdict needs more than one answer. Timeout 3 and rolling
window 1 let failures age and the circuit go stale after its wait. Ages saturate
one above what they are compared with, so time itself is not bounded.

*Cache.* Two readers (one that races the event, one whose write lands between),
versions 0 to 2 (created, then changed, so that an answer can be out of date by one
and by two), marker 3, entry 2, fetch timeout 2, 404 1: the marker outlives the
fetches that began before it, as 60 s outlives the request timeout in the default
configuration. Requests may be shared, which adds to what happens without and takes
nothing away (a reader may always lead). Ages saturate as well. The longer life of the
marker is not an assumption of the theorem.

*Sync.* Two subscriptions are a plan change; three changes are the fewest at which
an event can be between a refetch and its trigger; two handlers and one repeat make
deliveries overlap and duplicate; three seconds let changes tie or not. Unstamped
events are in the proofs, but not in the runs: under `SettledInSync` they are
excluded anyway.

*Members.* Two users, both of whom may become admins, two requests at a time and
three inserted rows: enough for a member that is removed and invited again while a
request still holds the id of the old row.

*Relays.* Two calls (they race for the last unit of one counter, and one is charged
while the other is refused or refunded), two changes of plan, a paid plan, its renewal
and an unlimited one, a free tier of one relay for every two time units, and times 0 to
2, at which the free window rolls over. A counter holds at most two spends (`MaxUsed`):
it limits only plans without quota. The run explores states, not liveness, and so `Tick`
stops at `MaxTime`.

*Seats.* One Safe on two chains and another on one: a seat that is taken twice or once.
Two additions (the lock matters only to two), two removals, one choice of a plan,
quotas 1 and 2, so that either of two additions fits and both do not, a plan on offer
that states none, and one change of plan that nobody chose here.

*Linking.* Two requests, which is a race; identities `(x1, e1)`, `(x1, e2)` and `(x2,
e1)`: a changed email and an email that two identities verified; one invited email; two
wallets, so that one may be removed and the other stay; three accounts, the fewest at
which the loser of a race and a third party exist beside the winner.

*Address book.* Two members, addresses, askers and writers, with limits of one, so that two
overlapping inserts exceed them; two requests, and three entries, for an address
that is removed and added again.

*Chains.* Two replicas that share the cache; one change, one failure or restart; two
reads under way, one from before the change, which may share a request. The replicas
are alike, so `FirstTaker` follows only behaviours in which it is the first of them that
takes the announcement first (symmetry is not sound for a liveness property).
One kind of client stands for those that are cleared, which share code; the exports'
client has a run of its own.

*Devices.* One device under a signer and under nobody, two requests of equal rights (so
that symmetry is sound), two tokens (an earlier one and its successor), one event,
one fault. The entry's minute may end at any time.

`CHECK_DEADLOCK FALSE` is set in the `sync`, `members`, `seats`, `linking` and
`address_book` runs only: once upstream's changes or the ids of rows are used up, or a
deleted space has no users left, nothing remains to be done there.

## 5. Fairness

`BreakerFairSpec`: time passes (`BreakerTick`); every admitted request is answered, since
`AbortSignal.timeout` turns one that hangs into a failure. Callers and the cron owe
nothing: `NeverShutForGood` holds without either. `HalfOpenEnds` is stated under
`Traffic`: while someone would be admitted, someone calls. Without callers a window
stays half-open until the cron comes, as the code has no timer.

`CacheFirst!FairSpec`: a read that has started ends (timeout of the fetch, commands
of Redis that return or throw), announced changes are handled, time passes. Nobody
has to read again and upstream need not change. `Converges` excepts one case: a
process that died between HSET and EXPIRE leaves an entry without expiry
(`redis.cache.service.ts:74`), which nothing corrects but the next invalidation.

`ChainUpdates!FairSpec`: the cron runs (`Tick`), a cached answer that has an expiry
expires (`ExpireChain`, which leaves a `lasting` entry alone), and calls that were made
end (`Fetch`, `Check`, `Write`), by an answer or a failure. Nothing is assumed of the
queue: an announcement may never be taken, and `SupportRecognised` is about replicas that
no announcement reached too. It excepts the case that `Converges` excepts: an unknown
chain that was cached without expiry, which only an invalidation corrects.

The other modules promise safety only. A delivery that fails is sent again by the
billing service for some time and no longer, a request may never be made, a call may
die, a job has a number of attempts: nothing in the repository justifies fairness for
any of them. What could be a liveness property there is stated of quiet states instead
(`SettledInSync`, `DeliveriesAsSubscribed`).

## 6. What is proved

40 theorems, for every value of the constants that the named assumptions of
the modules allow; about 9350 obligations, none left open. The assumptions say what
the configuration guarantees: that thresholds and times are natural numbers and
positive where zero makes no sense, that the sets of requests or calls are finite
where they are counted, that plans are plans, that the null of the model is no value,
that some replica runs, and that Firebase gives a device at least one token.

| module | theorem | says |
|---|---|---|
| `Upstream_proofs` | `BreakerTypeCorrect`, `NoOverdueVerdict`, `NoSlotIsLost` | `BreakerTypeOK`, `VerdictNotOverdue`, `NoLostSlot` hold always |
| | `TimeoutKept`, `BreakerImplementsGate` | if the timeout is at most ten rolling windows, an open circuit waits for all of it, and the breaker implements `RequestGate` |
| | `CacheTypeCorrect` | `TypeOK` of the cache |
| | `MarkerSeals` | `FreshAfterSeal`, for any number of readers and any expiry times, with request sharing or without |
| `SubscriptionSync_proofs` | `TypeCorrect`, `SingleSlot`, `MarksOnlyRise` | `TypeOK`, `OneActive`, `MarksRise`, for any kinds of events, handlers, repeats and upstream anomalies |
| | `SettledIsInSync` | `SettledInSync`: in whatever order the events came and however often, a settled space has its upstream plan |
| `SpaceMembers_proofs` | `TypeCorrect`, `InvitationsCarryExpiry`, `ActiveMembersHaveAccounts` | `TypeOK`, `InvitedCarriesExpiry`, `ActiveMembersAreUsers` |
| | `LastAdminOnlyByOutdated` | `LastAdminStays`: the check for the last admin is right whenever what it read is current |
| | `LogAgrees` | `AuditAgrees`: the log is right about everyone whose requests did not overlap |
| `SponsoredRelays_proofs` | `TypeCorrect`, `NoOverspending`, `SpendsAreAccounted` | `TypeOK` (no counter below zero), `WithinAllowance`, `SpendsAccounted` |
| | `CachedIsCurrent` | `CacheTransparent`: a cached grant never names a closed window |
| | `LedgerIsKept` | the counters implement `QuotaLedger` |
| `SafeSeats_proofs` | `TypeCorrect`, `SeatsWithinGranted`, `ChosenPlansFit`, `NoPhantoms` | `TypeOK`, `WithinGranted`, `ChosenPlanFits`, `NoPhantomSafes` |
| | `Refinement` | the seats implement `SeatBudget` |
| `AccountLinking_proofs` | `TypeCorrect`, `SessionsStay`, `AccountsReachable`, `WalletsLeave` | `TypeOK` (with the unique indexes), `SessionsKeepTheirAccount`, `EveryAccountHasAWayIn`, `WalletsLeaveOnDemand`, for any identities, wallets and requests |
| `AddressBook_proofs` | `TypeCorrect`, `Limits`, `Logged` | `TypeOK`, `LimitsHoldButForOverlap`, `BookAsLogged`, for any limits and any number of requests |
| | `Implements` | the book implements `RequestDesk` |
| `Events_proofs` | `ChainsTypeCorrect` | `ChainsTypeOK`: a promise is pending just while the read it waits for is under way |
| | `ClientsCurrent` | `ApisCurrent`: a former client needs an answer that was old at an UNLINK and that no marker held back; for any number of replicas, readers, changes, failures and restarts, with request sharing or without, if the kinds of clients are among those that the handler evicts |
| | `RegistryTypeCorrect`, `DeliveriesOnce` | `TypeOK` of the devices, `DeliveriesAsSubscribed` |
| | `SubscribersCurrent` | `CachedSubscribersCurrent`: nothing but the excepted overlaps leaves outdated subscribers cached |
| | `RegistrationsStay` | `RegistrationsLast`, for any devices, signers, events, requests, tokens and faults |

`VerdictNotOverdue`, `WaitIsKept`, `MarksRise` and `InvitedCarriesExpiry` are parts of those
invariants or follow from one guard, and no run checks them separately.

### The inductive invariants

*Breaker.* `BreakerBase` adds to the types that verdicts are prompt, that a circuit which
does not exist has no numbers, that only a half-open one has probes and only an open
one waits. Promptness has to be in it: the types bound the counts by the threshold,
and a step that counts up stays in bounds only from a state below it. `NoLostSlot` is
then inductive by itself (one step per action, with two lemmas on the cardinality of
the probes). The timeout needs one relation more, `WaitWithinTimeout`: the time since
the last activity and the time left never add up to more than the timeout. That is
why the cleanup, which looks at the former only, does not cut the wait short as long
as `Timeout <= StaleAfter`; and it is where the condition of the two theorems comes
from. `isStale` itself ignores the state: a configuration with a longer timeout
(default: 30 s against 10 x 60 s) would have open circuits dropped early.

*Cache.* `CacheBase` says that entries and markers live only as long as they are there and
that events stand for changes. `FreshInv` adds `FlightsLed`: a reader that joined a request
has no answer before that request has, which is still out and no older than a fetch may
be. Then `FreshAfterSeal` is inductive. Two steps are interesting: `Stamp` resets the
marker's age to zero, so that every request that is out becomes older than it; and
`Respond` gives those who joined an answer that may be older than they are, by the age
of the request. Less than `FetchTimeout` in `FreshAfterSeal` would be refuted, by the
instance of the run already.

*Sync.* Reads of handlers are real (`HeldIsReal`) and one row at most is active.
`OneActive` survives a write since at most one incoming subscription is active
(`Incoming`) and the others are demoted by the same step; `MarksRise` since a payload is
admitted only after the mark and an authoritative write keeps the later of the two. Both
rest on `MarkIsGreatest`, that `Mark` is the greatest of the rows' marks.
`SettledInSync` needs to know which change a row carries (`Carried`), that marks are of
the past (`Observers`), that an acked event is not after the mark and its row is at
least as new (`AckedStored`), and that a row was demoted for a later change, or its own
event is yet to come (`DemotedRightly`). The last two hold as long as stamps order the
events and none was acked unwritten: then a payload after the mark is later than
everything acked, and a list fetched since the mark was read covers everything acked.

*Members.* `RowsHaveUsers` (a row's user is there and not deleted) and `Held` (what a
request found when it checked and read). `Held` is what makes concurrent writes by id
harmless for the two invariants: an acceptance that reaches a row was of that row.
`LastAdminOnlyByOutdated` is proved of a single commit: a request whose list of admins
is still current leaves one, because the list had another one or the target was none.
For `AuditAgrees`, a request whose target nobody else wrote about meanwhile is `Alone`
and has read the row as it is (`Current`), so what it logs is what it does.

*Relays.* `CallsHold` (a call has spent just when it is relaying or refunding) and
`GrantsOffered`: the quota of every grant, held or cached however stale, is at most what
has been offered for its counter. From the latter an admission within the grant is
within the allowance. Counting calls in flight (`SpendCounts`, `FinishCounts`) gives
`SpendsAccounted`, which keeps refunds from going below zero, and that is the type of
`used`. `Computed` says of every grant, held or cached, that it is what the plan gave at
some earlier time, so that within one window it is still right. For the refinement,
every step is shown to be a `Spend`, `Keep`, `GiveBack` or `Grant` of the ledger or to
leave it alone.

*Seats.* What makes the two counts under the lock safe is that they err to the safe
side: removals may come between, additions may not. The invariant says of the
holder of the lock what its two counts still bound, and that its quota was granted;
of a choice of plan that states its seats, that they are enough unless Safes were added
since. Of one that states none it says nothing.

*Linking.* Everything a request has read may be outdated when it is used. `Evolve` says
how much a step may change: a row keeps its identity and its verified email while it
lives, an account is never pending again, an account of wallets alone stays one. What a
request or a session knows of an account (`RequestsKnow`, `SessionsKnow`) is preserved
by every such change (`KnowledgeStays`), so each action answers only for what it adds.
Removals know that the user held two wallets; that holds until others change wallets,
which is when the removal counts as disturbed (`RemovalsKnow`).

*Address book.* `HeldByOne`: a claimed request is held by one approval, and stays
pending for the others until its commit. `RowsKnown`: the row that a writer has read is
the address's row, or a removal has made the address contested. The limits count those
that are about to insert together with what is stored, which is what makes them
inductive.

*Chains.* The types need four relations. `Promises`: a promise is pending just while a
reader waits for it; `OneReader`: no two readers wait for the same one; `AnswersReal`: no
answer is of a version to come; and `AnnouncedOnce`: announcements that are queued or
being handled are at most as many as the changes were, which bounds the queue. For
`ApisCurrent` the question is which reads are from before a change. A replica knows a
version from `seen` (while it handles the announcement) or `told` (afterwards).
`CachedLater`: what is cached, and did not slip in, is not older than what any replica
has seen or was told, since the cache is cleared after the change. `AnsweredLater`: the
same of an answer that a reader holds, unless the marker will stop it (`outdated`) or
nothing does although it was old at an UNLINK (`overtaken`). A marker that is set turns
the second into the first, and one that expires the first into the second.
`AwaitedLater`: a client's promise that is still attached, and
so was not evicted, gets an answer not older than what its replica was told, unless it is
`doubtful`. Each step of a read hands one of the three to the next, and the doubt with it:
`slipped` from a write to the client that is built of the entry, `overtaken` from a
request to those who join it. The exports' client is not among `ClearedKinds`, and the run
`chains_export_api` shows that the condition of the theorem is needed.

*Devices.* `RegistryBase` says of each request that who registers has a token, and that a
deletion for a delivery is of that delivery's device (`Sound`); of each job that it was
started again at most once for each fault (`RunsCounted`), and, for each device, that
it has queued at most one delivery in each run and has one to queue yet unless it did,
lost it, or has a row that is not to be notified (`Queues`). `DeliveriesAsSubscribed` is
the last of these once nothing is left to do. `CachedSubscribersCurrent` is inductive from
there: a deletion that finds nothing changes no row, and one that does goes on to
clear or is the excepted one. `RegistrationsLast` is not: a settled registration
survives because nothing that is under way could undo it, and that has to be said
of every place where a token or the device may be known. `Settled` says it of the
deliveries, the cached subscribers, the rows of the running jobs, and the requests, of
which only commits of further registrations are left. It is what `CommitRegister`
looked at when it settled the device (`NoTrace`), and each step hands on nothing but
current tokens from there; a deletion for a stale token cannot start, as a delivery
with one is of another device.

## 7. Where code and documentation disagree

Two have runs of their own, with the shortest behaviour that TLC finds.

1. `AdminRemains` (`members_last_admin`). "Cannot remove the last admin"
   (`members.repository.ts:688`). Two admins that leave, remove or demote at once both
   count the other.
2. `ApisCurrent` (`chains_export_api`). The manager of clients "evicts it so the next
   retrieval builds a fresh instance (e.g. after a chain update)"
   (`chain-api.manager.ts:8`). A change of a chain clears five managers
   (`event-cache.helper.ts:645`) and not that of the exports, whose clients are built
   from the chain's configuration too.

Others the models make visible, without a run:

* *Breaker.* "Every admitted probe is released again" so that "a hanging upstream holds
  at most that many requests per half-open window" (`circuit-breaker.service.ts:211`):
  answers of requests admitted before the window release slots too (`:299`), so more are
  out. `NoLostSlot` is the half that holds. "one round of probes is always enough to
  reach a verdict either way" (`:207`): to close takes `threshold` successes (`:311`),
  and a round is only a share of that. `HalfOpenEnds` shows that under traffic further
  rounds decide.
* *Cache.* The marker prevents "a race condition where outdated data is stored"
  (`cache.first.data.source.ts:246`). An invalidation between the check and the write
  (`:207`) is not noticed, and cached 404s have no check (`:148`). `Converges` shows
  that the expiry bounds the damage. With request sharing a reader that joins a request
  which is out has a start time newer than that request (`network.module.ts:214`), and the
  check may let through what was read before the marker was set. `FreshAfterSeal` says
  by how much: a reader that starts later than the marker by more than a fetch may take
  is safe.
* *Sync.* "a thin or stale payload never overwrites what is stored"
  (`subscription-sync.service.ts:50`): a refetch is stored under its trigger's time, and
  a payload between the two is admitted (`entitlements.service.ts:545`). What a
  concurrent delivery left "is newer than anything this event could write"
  (`subscription-sync.service.ts:224`): it may be an older payload. `SettledInSync` says
  that the last event repairs both.
* *Linking.* An identity that was invited and logs in twice at once may get
  `UserEmailAlreadyInUseError` for its own email (`users.repository.ts:482`), and
  succeeds when it tries again. Two sessions of one account that remove each other's
  wallet both see two and leave none. A nonce may pass twice (`siwe.repository.ts:57`):
  it is read and cleared by two commands.
* *Address book.* An approval whose entry is removed between its look-up and its update
  ends approved without an entry (`address-book-items.repository.ts:257`), which is what
  `contested` in `RequestDesk` allows.
* *Seats.* "`null` covers unlimited and absent alike: neither bounds the seat count"
  (`feature-package.mapper.ts:59`). A plan whose `FEATURE_SAFE_SEATS` is absent or
  malformed passes the seat check, but its package has no such feature then
  (`feature-package.mapper.ts:109`, `:142`), and the free number is in force
  (`entitlements.rules.ts:103`): the workspace may be over its limit at once.
  `ChosenPlanFits` is about plans that state their seats.
* *Chains.* The queue gives an announcement to one replica: the others keep their
  clients until they restart. `ApisCurrent` is about those that were told, and excepts
  what the cache lets through. A reader that has passed the check writes the former
  configuration after the UNLINK (`cache.first.data.source.ts:207`); one whose check comes
  between UNLINK and marker does too (`redis.cache.service.ts:97`), or after a marker that
  expired with the one before it (`:77`), or one that joined an older request
  (`network.module.ts:214`). If a client is built of it, "the next retrieval builds a
  fresh instance" (`chain-api.manager.ts:8`) is not so, and the former configuration
  stays in use there until the next announcement or a restart. An unknown chain that was
  cached without expiry (`redis.cache.service.ts:74`) stays unknown, and its events are
  dropped, until it is invalidated.
  `BlockchainApiManager.destroyApi` returns early for a chain without a client, and
  leaves cached RPC answers.
* *Devices.* "Removes all notification subscriptions for a specific Safe on a device."
  (`notifications.controller.ts:138` of the second version): the rows of one signer are
  removed (`notifications.repository.ts:416`). For an answer about a stale token the
  comment has "remove this registration token" (`:52`, in the repository of
  `domain/v2`), and the code deletes the device (`:86`), whatever token it has
  registered by then: `RegistrationsLast` is about registrations at a time when nothing
  knows an earlier token. Deliveries are made unique by token
  (`push-notification.service.ts:237`), and whichever signer's row comes first decides
  what is sent. The first API version deletes the device before it registers it, and
  answers 404 when there was none. A delivery that cannot be queued is logged and lost;
  one that was queued by a run that died is queued again.

## 8. What is only model-checked, and what is not modelled

Only model-checked, within the bounds of section 4: the four properties under fairness
(`NeverShutForGood`, `HalfOpenEnds`, `Converges`, `SupportRecognised`), since liveness is
out of the prover's reach. No module uses recursion.

Left out of the modelled components, on purpose:

* *Breaker*: `delete` and `deleteAll`, which only tests call; logging.
* *Cache*: the counters (`increment`, `setCounter`, `getCounter`; they belong to the
  rate limits), connection shutdown, the deviation of expiry times, clock skew between
  instances. A key with a single hash field is followed.
* *Sync*: unknown spaces and the `api` group (acked without effect), a space that is
  deleted meanwhile, the contents of the package, which the same transaction writes.
* *Members*: several invitees of one request, names and emails, the limit of spaces per
  user, other spaces of the users.
* *Relays*: seats, static limits before the enforcement date, gaps of the catalog,
  unreadable cache entries, other features. `hasClosedWindow` looks at the grants of all
  features, the model has one; with more it only recomputes more often.

* *Seats*: a payload that names a Safe twice, which conflicts with itself; encryption;
  which payment links and plans a customer may choose.
* *Linking*: encryption and rows from before it, what tokens contain, nonces, step-up
  and cookies.
* *Address book*: several entries in one payload, names and chains, the deletion of the
  space.
* *Chains*: the events of transactions, which clear one cache each, safe apps, logs. The
  time of a marker is read in the step that writes it, and the clocks of replicas agree;
  a fetch that starts in the very millisecond of a marker is refused by the code and
  counts as later here, which only makes more answers pass.
* *Devices*: types of notifications, signatures, several Safes of one device, jobs that
  fail before they have done anything.

Not modelled at all, and why, is in `PROJECT.json` for each component: either it keeps
no state of its own (views, analyses, conversions), or it is settled by one transaction
or an external queue, or it is in the plan of section 2. The hazards listed there
without a property say why none is there.

## 9. Running it

```
tlasany CircuitBreaker.tla                       parse
tlc -config CircuitBreaker.cfg MCCircuitBreaker  model-check
tlapm Upstream_proofs.tla                        check the proofs
```

The largest runs take two to three minutes with two workers; the proofs take seconds
to two minutes each.
