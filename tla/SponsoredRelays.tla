--------------------------- MODULE SponsoredRelays ---------------------------
(***************************************************************************)
(* Transactions relayed at a workspace's expense, and the quota that       *)
(* bounds them:                                                            *)
(*   src/src/modules/relay/domain/relayers/workspace.relayer.ts            *)
(*   src/src/modules/entitlements/routes/entitlements.service.ts           *)
(*   src/src/modules/entitlements/domain/entitlements.rules.ts             *)
(*   src/src/modules/entitlements/domain/space-feature-usage.repository.ts *)
(*                                                                         *)
(* The module follows one space and its one event-metered feature.  Calls  *)
(* are served concurrently, by several instances; each await of the code   *)
(* ends a step.  The plan is the active subscription as SubscriptionSync   *)
(* commits it: here it changes at any time, and every commit is followed   *)
(* by a deleteByKey of the cached grants.                                  *)
(*                                                                         *)
(* The checks that precede the quota (target, relayer, Safe, simulation)   *)
(* only refuse.  The deviation of expiry times is left out, and so is a    *)
(* crash between HSET and EXPIRE, which CacheFirst has.                    *)
(***************************************************************************)
EXTENDS Integers, FiniteSets

CONSTANTS Calls,
          PaidPlans,   \* what subscriptions may grant: quota and billing cycle
          FreeQuota,   \* free_quota of the catalog row
          FreePeriod,  \* free_period of the catalog row; 0 for none
          GrantsTTL,   \* expirationTimeInSeconds.entitlements
          MarkerTTL,   \* expirationTimeInSeconds.default, for the marker
          MaxChanges,  \* bound: how often the plan changes
          MaxUsed,     \* bound: spends a counter can hold
          MaxTime      \* bound: time since the space was created

Null == -1   \* no quota, that is unlimited; no cycle; no end; no counter
Times == 0 .. MaxTime

ASSUME RelaysAssumption ==
  /\ IsFiniteSet(Calls)
  /\ PaidPlans \subseteq [quota : Nat \union {Null}, start : Times \union {Null},
                          end : Nat \union {Null}]
  /\ FreeQuota \in Nat \union {Null} /\ FreePeriod \in Nat
  /\ GrantsTTL \in Nat \ {0} /\ MarkerTTL \in Nat \ {0}
  /\ MaxChanges \in Nat /\ MaxUsed \in Nat /\ MaxTime \in Nat

VARIABLES
  now,
  plan,       \* the plan in force
  changes,    \* how often it has changed
  used,       \* space_feature_usage: spends by start of the period
  entry,      \* the cached grants, with the plan they were computed from
  marker,     \* invalidationTimeMs:<key>
  purges,     \* deleteByKey calls before their unlink, and before the stamp
  pc,
  consuming,  \* is the call past assertWithinQuota?
  since,      \* startTimeMs of a computation
  read,       \* the plan a computation read
  grant,      \* the grant a call holds
  spent,      \* ConsumedQuota: the counter a call charged
  offered,    \* history: the largest quota computed for each counter
  kept        \* history: spends of each counter that are final

cache == <<entry, marker, purges>>
calls == <<pc, consuming, since, read, grant, spent>>
vars == <<now, plan, changes, used, cache, calls, offered, kept>>

NoPlan == [quota |-> FreeQuota, start |-> Null, end |-> Null]
Plans == PaidPlans \union {NoPlan}
Quotas == {p.quota : p \in Plans} \union {0}

NoGrant == [quota |-> 0, counter |-> Null, resetsAt |-> Null]
Grants == [quota : Quotas, counter : Times, resetsAt : Nat \union {Null}]

NoEntry == [grant |-> NoGrant, of |-> NoPlan, until |-> 0]
NoMarker == [at |-> Null, until |-> 0]

TypeOK ==
  /\ now \in Times
  /\ plan \in Plans
  /\ changes \in 0 .. MaxChanges
  /\ used \in [Times -> 0 .. MaxUsed]
  /\ entry \in [grant : Grants, of : Plans, until : Nat] \union {NoEntry}
  /\ marker \in [at : Times, until : Nat] \union {NoMarker}
  /\ purges \in [unlink : Nat, stamp : Nat]
  /\ pc \in [Calls -> {"idle", "computing", "storing", "granted", "relaying", "refunding"}]
  /\ consuming \in [Calls -> BOOLEAN]
  /\ since \in [Calls -> Times]
  /\ read \in [Calls -> Plans]
  /\ grant \in [Calls -> Grants \union {NoGrant}]
  /\ spent \in [Calls -> Times \union {Null}]
  /\ offered \in [Times -> Quotas]
  /\ kept \in [Times -> 0 .. MaxUsed]

Init ==
  /\ now = 0 /\ plan = NoPlan /\ changes = 0
  /\ used = [c \in Times |-> 0]
  /\ entry = NoEntry /\ marker = NoMarker
  /\ purges = [unlink |-> 0, stamp |-> 0]
  /\ pc = [r \in Calls |-> "idle"]
  /\ consuming = [r \in Calls |-> FALSE]
  /\ since = [r \in Calls |-> 0]
  /\ read = [r \in Calls |-> NoPlan]
  /\ grant = [r \in Calls |-> NoGrant]
  /\ spent = [r \in Calls |-> Null]
  /\ offered = [c \in Times |-> 0]
  /\ kept = [c \in Times |-> 0]

-----------------------------------------------------------------------------
(* The rules.                                                               *)

Fits(quota, count, delta) == quota = Null \/ count + delta <= quota

\* The start of the usage period: the billing cycle's, or that of the window
\* of FreePeriod since the space was created.
EventPeriodStart(p, time) ==
  IF p.start # Null THEN p.start
  ELSE IF FreePeriod > 0 THEN (time \div FreePeriod) * FreePeriod ELSE 0

ResetsAt(p, time) ==
  IF p.start # Null THEN p.end
  ELSE IF FreePeriod > 0 THEN EventPeriodStart(p, time) + FreePeriod ELSE Null

GrantOf(p, time) ==
  [quota |-> p.quota, counter |-> EventPeriodStart(p, time),
   resetsAt |-> ResetsAt(p, time)]

HasClosedWindow_OneLate(g, time) == g.resetsAt # Null /\ g.resetsAt < time
HasClosedWindow(g, time) == g.resetsAt # Null /\ g.resetsAt <= time

Larger(q1, q2) ==
  IF q1 = Null \/ q2 = Null THEN Null ELSE IF q1 < q2 THEN q2 ELSE q1

-----------------------------------------------------------------------------
(* resolveGrant, once in assertWithinQuota and once in consumeQuota.        *)

ServeCached(r) ==
  /\ pc[r] = "idle"
  /\ entry # NoEntry /\ ~HasClosedWindow(entry.grant, now)
  /\ grant' = [grant EXCEPT ![r] = entry.grant]
  /\ pc' = [pc EXCEPT ![r] = "granted"]
  /\ UNCHANGED <<now, plan, changes, used, cache, consuming, since, read, spent,
                 offered, kept>>

\* No entry, or one of a window that has closed.  The plan is read from the
\* database after startTimeMs was taken.
Miss(r) ==
  /\ pc[r] = "idle"
  /\ entry = NoEntry \/ HasClosedWindow(entry.grant, now)
  /\ since' = [since EXCEPT ![r] = now]
  /\ read' = [read EXCEPT ![r] = plan]
  /\ pc' = [pc EXCEPT ![r] = "computing"]
  /\ UNCHANGED <<now, plan, changes, used, cache, consuming, grant, spent,
                 offered, kept>>

OutlivesLastInvalidation(r) == marker = NoMarker \/ marker.at < since[r]

\* The period is that of the time at which the plan has been read.
ComputeGrants(r) ==
  LET g == GrantOf(read[r], now)
      store == OutlivesLastInvalidation(r)
  IN  /\ pc[r] = "computing"
      /\ grant' = [grant EXCEPT ![r] = g]
      /\ offered' = [offered EXCEPT ![g.counter] = Larger(@, g.quota)]
      /\ pc' = [pc EXCEPT ![r] = IF store THEN "storing" ELSE "granted"]
      /\ since' = [since EXCEPT ![r] = 0]
      /\ read' = [read EXCEPT ![r] = IF store THEN @ ELSE NoPlan]
      /\ UNCHANGED <<now, plan, changes, used, cache, consuming, spent, kept>>

\* hSet, with its EXPIRE NX: a key that is still there keeps its expiry.
Store(r) ==
  /\ pc[r] = "storing"
  /\ entry' = [grant |-> grant[r], of |-> read[r],
               until |-> IF entry = NoEntry THEN now + GrantsTTL ELSE entry.until]
  /\ read' = [read EXCEPT ![r] = NoPlan]
  /\ pc' = [pc EXCEPT ![r] = "granted"]
  /\ UNCHANGED <<now, plan, changes, used, marker, purges, consuming, since,
                 grant, spent, offered, kept>>

-----------------------------------------------------------------------------
(* The call.                                                                *)

Finish(r) ==
  /\ pc' = [pc EXCEPT ![r] = "idle"]
  /\ consuming' = [consuming EXCEPT ![r] = FALSE]
  /\ grant' = [grant EXCEPT ![r] = NoGrant]
  /\ since' = [since EXCEPT ![r] = 0]
  /\ read' = [read EXCEPT ![r] = NoPlan]
  /\ spent' = [spent EXCEPT ![r] = Null]

Refused(r) ==
  /\ Finish(r)
  /\ UNCHANGED <<now, plan, changes, used, cache, offered, kept>>

\* assertWithinQuota reads the counter as it is now, in no transaction.
AssertWithinQuota(r) ==
  /\ pc[r] = "granted" /\ ~consuming[r]
  /\ \/ /\ Fits(grant[r].quota, used[grant[r].counter], 1)
        /\ consuming' = [consuming EXCEPT ![r] = TRUE]
        /\ pc' = [pc EXCEPT ![r] = "idle"]
        /\ grant' = [grant EXCEPT ![r] = NoGrant]
        /\ UNCHANGED <<now, plan, changes, used, cache, since, read, spent,
                       offered, kept>>
     \/ /\ ~Fits(grant[r].quota, used[grant[r].counter], 1)
        /\ Refused(r)

\* Before the spend, the simulation refuses or a read, a write of the cache or
\* the transaction fails, and the call ends.
Fail(r) ==
  /\ spent[r] = Null
  /\ pc[r] # "idle" \/ consuming[r]
  /\ Refused(r)

\* consumeQuota.  The increment keeps the counter's row locked until the
\* transaction ends, so increment and admission are one step; a refusal rolls
\* the increment back.
ConsumeQuota_Unchecked(r) ==
  LET c == grant[r].counter
      total == used[c] + 1
      fits == TRUE
  IN  /\ pc[r] = "granted" /\ consuming[r]
      /\ \/ /\ fits /\ total <= MaxUsed
            /\ used' = [used EXCEPT ![c] = total]
            /\ spent' = [spent EXCEPT ![r] = c]
            /\ pc' = [pc EXCEPT ![r] = "relaying"]
            /\ grant' = [grant EXCEPT ![r] = NoGrant]
            /\ UNCHANGED <<now, plan, changes, cache, consuming, since, read,
                           offered, kept>>
         \/ ~fits /\ Refused(r)
ConsumeQuota_OneMore(r) ==
  LET c == grant[r].counter
      total == used[c] + 1
      fits == Fits(grant[r].quota, total - 2, 1)
  IN  /\ pc[r] = "granted" /\ consuming[r]
      /\ \/ /\ fits /\ total <= MaxUsed
            /\ used' = [used EXCEPT ![c] = total]
            /\ spent' = [spent EXCEPT ![r] = c]
            /\ pc' = [pc EXCEPT ![r] = "relaying"]
            /\ grant' = [grant EXCEPT ![r] = NoGrant]
            /\ UNCHANGED <<now, plan, changes, cache, consuming, since, read,
                           offered, kept>>
         \/ ~fits /\ Refused(r)
ConsumeQuota(r) ==
  LET c == grant[r].counter
      total == used[c] + 1
      fits == Fits(grant[r].quota, total - 1, 1)
  IN  /\ pc[r] = "granted" /\ consuming[r]
      /\ \/ /\ fits /\ total <= MaxUsed
            /\ used' = [used EXCEPT ![c] = total]
            /\ spent' = [spent EXCEPT ![r] = c]
            /\ pc' = [pc EXCEPT ![r] = "relaying"]
            /\ grant' = [grant EXCEPT ![r] = NoGrant]
            /\ UNCHANGED <<now, plan, changes, cache, consuming, since, read,
                           offered, kept>>
         \/ ~fits /\ Refused(r)

\* The relayer's answer, or, for a process that dies, the lack of one: either
\* way the spend stands.
Keep(r) ==
  /\ kept' = [kept EXCEPT ![spent[r]] = @ + 1]
  /\ Finish(r)
  /\ UNCHANGED <<now, plan, changes, used, cache, offered>>

Submitted(r) == pc[r] = "relaying" /\ Keep(r)
Die(r) == pc[r] \in {"relaying", "refunding"} /\ Keep(r)

\* A DataSourceError: refused by the relayer, no answer in time, or an answer
\* that does not parse.
RelayFails_RefundsToo(r) ==
  /\ pc[r] = "relaying"
  /\ pc' = [pc EXCEPT ![r] = "refunding"]
  /\ used' = [used EXCEPT ![spent[r]] = @ - 1]
  /\ UNCHANGED <<now, plan, changes, cache, consuming, since, read, grant, spent,
                 offered, kept>>
RelayFails(r) ==
  /\ pc[r] = "relaying"
  /\ pc' = [pc EXCEPT ![r] = "refunding"]
  /\ UNCHANGED <<now, plan, changes, used, cache, consuming, since, read, grant,
                 spent, offered, kept>>

\* refundQuota, to the counter that was charged.
Refund_CurrentPeriod(r) ==
  /\ pc[r] = "refunding"
  /\ used' = [used EXCEPT ![EventPeriodStart(plan, now)] = @ - 1]
  /\ Finish(r)
  /\ UNCHANGED <<now, plan, changes, cache, offered, kept>>
Refund(r) ==
  /\ pc[r] = "refunding"
  /\ used' = [used EXCEPT ![spent[r]] = @ - 1]
  /\ Finish(r)
  /\ UNCHANGED <<now, plan, changes, cache, offered, kept>>

\* refundAllowance logs a refund that fails and lets the spend stand.
RefundFails(r) == pc[r] = "refunding" /\ Keep(r)

-----------------------------------------------------------------------------
(* The plan, the cached grants and time.                                    *)

\* materializeUnderLock commits, and then purges the cached grants.
Materialize ==
  /\ changes < MaxChanges
  /\ changes' = changes + 1
  /\ \E p \in Plans : p # plan /\ p.start <= now /\ plan' = p
  /\ purges' = [purges EXCEPT !.unlink = @ + 1]
  /\ UNCHANGED <<now, used, entry, marker, calls, offered, kept>>

\* The process may die before the unlink or before the stamp.
Unlink ==
  /\ purges.unlink > 0
  /\ entry' = NoEntry
  /\ purges' = [unlink |-> purges.unlink - 1, stamp |-> purges.stamp + 1]
  /\ UNCHANGED <<now, plan, changes, used, marker, calls, offered, kept>>

Stamp ==
  /\ purges.stamp > 0
  /\ marker' = [at |-> now,
                until |-> IF marker = NoMarker THEN now + MarkerTTL ELSE marker.until]
  /\ purges' = [purges EXCEPT !.stamp = @ - 1]
  /\ UNCHANGED <<now, plan, changes, used, entry, calls, offered, kept>>

PurgeDies ==
  /\ \E step \in {"unlink", "stamp"} :
       purges[step] > 0 /\ purges' = [purges EXCEPT ![step] = @ - 1]
  /\ UNCHANGED <<now, plan, changes, used, entry, marker, calls, offered, kept>>

Tick ==
  /\ now < MaxTime
  /\ now' = now + 1
  /\ entry' = IF entry.until <= now' THEN NoEntry ELSE entry
  /\ marker' = IF marker.until <= now' THEN NoMarker ELSE marker
  /\ UNCHANGED <<plan, changes, used, purges, calls, offered, kept>>

Next ==
  \/ \E r \in Calls :
       \/ ServeCached(r) \/ Miss(r) \/ ComputeGrants(r) \/ Store(r)
       \/ AssertWithinQuota(r) \/ Fail(r) \/ ConsumeQuota(r)
       \/ Submitted(r) \/ Die(r) \/ RelayFails(r) \/ Refund(r) \/ RefundFails(r)
  \/ Materialize \/ Unlink \/ Stamp \/ PurgeDies
  \/ Tick

Spec == Init /\ [][Next]_vars

-----------------------------------------------------------------------------
(* Properties.                                                              *)

\* However calls, refunds, renewals and stale cached grants interleave, no
\* period is ever charged beyond the largest quota computed for it
\* (consumeQuota: "two callers cannot pass the same count and overshoot the
\* allowance together").
WithinAllowance == \A c \in Times : offered[c] = Null \/ used[c] <= offered[c]

InFlight(c) == {r \in Calls : spent[r] = c}

\* Every spend of a counter is that of a call in flight or is final: a refund
\* undoes the charge it belongs to, whatever the plan and the period are by
\* then, and so no counter is ever driven negative (refundQuota).
SpendsAccounted ==
  \A c \in Times : used[c] = kept[c] + Cardinality(InFlight(c))

\* A cached grant that would be served, and whose plan is still the one in
\* force, is the one that would be computed now: caching never makes a call
\* meet its quota on the counter of a window that is over (hasClosedWindow).
CacheTransparent ==
  (entry # NoEntry /\ ~HasClosedWindow(entry.grant, now) /\ entry.of = plan)
    => entry.grant = GrantOf(plan, now)

\* The counters keep the promises of IEntitlementEnforcement.
Ledger == INSTANCE QuotaLedger WITH
  Counters <- Times, Allowances <- Quotas, Unlimited <- Null,
  open <- [c \in Times |-> Cardinality(InFlight(c))], ceiling <- offered
ImplementsLedger == Ledger!Spec
=============================================================================
