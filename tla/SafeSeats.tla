------------------------------ MODULE SafeSeats ------------------------------
(***************************************************************************)
(* The Safes of a workspace and the seats they take:                       *)
(*   src/src/modules/spaces/routes/safes/space-safes.service.ts            *)
(*   src/src/modules/spaces/domain/safes/space-safes.repository.ts         *)
(*   src/src/modules/entitlements/routes/entitlements.service.ts           *)
(*   src/src/modules/entitlements/domain/feature-package.mapper.ts         *)
(*   src/src/modules/billing/routes/billing.service.ts   choice of a plan  *)
(*                                                                         *)
(* One space.  A Safe address takes one seat however many chains it is on. *)
(* Adding Safes runs in a transaction under an advisory lock; removing     *)
(* them runs in a transaction that does not take it; and choosing a plan   *)
(* counts the seats in no transaction at all.  Every statement of a        *)
(* transaction sees what has been committed by then, and is a step; what   *)
(* the transaction writes is seen when it commits, in its last step.       *)
(*                                                                         *)
(* The actors are admins (SpaceMembers).  Cached grants are those of       *)
(* SponsoredRelays: here a request may be given any quota that has been in *)
(* force.  A payload that names a Safe twice, which conflicts with itself, *)
(* and the encryption of addresses are left out.                           *)
(***************************************************************************)
EXTENDS Integers, FiniteSets

CONSTANTS Slots,       \* Safes that may be added: records of chain and address
          Payloads,    \* bound: the Safes that one request names
          Adders, Removers, Buyers,   \* bound: requests served at a time
          SeatQuotas,  \* FEATURE_SAFE_SEATS of the plans there are
          FreeSeats,   \* what a workspace has without one
          MaxInserts,  \* bound: successful additions
          MaxMoves     \* bound: changes of plan that nobody chose here

Null == -1       \* unlimited
Unstated == -2   \* of a plan: no FEATURE_SAFE_SEATS, or one that does not parse

ASSUME SeatsAssumption ==
  /\ IsFiniteSet(Slots)
  /\ \A s \in Slots : s = [chain |-> s.chain, address |-> s.address]
  /\ Payloads \subseteq SUBSET Slots
  /\ SeatQuotas \subseteq Nat \union {Null} /\ FreeSeats \in SeatQuotas
  /\ MaxInserts \in Nat /\ MaxMoves \in Nat
  /\ "nobody" \notin Adders

VARIABLES
  space,      \* "live" or "deleted"
  rows,       \* space_safes: the insertion each row stems from, 0 for none
  inserts,    \* insertions so far: ids are never used again
  plan,       \* the seats in force; and whether their plan was chosen here and
              \* compared with those in use, and if Safes were added since (history)
  granted,    \* history: the quotas that have been in force
  moves,      \* plans that nobody chose here
  lock,       \* pg_advisory_xact_lock(SEAT_LOCK_NAMESPACE, spaceId)
  pc, wanted, allowance, used,   \* additions
  found,      \* the rows that a removal has read
  choice,     \* choices of a plan
  trail       \* the Safes of the space as the audit log tells them

adds == <<lock, pc, wanted, allowance, used>>
plans == <<plan, granted, moves, choice>>
vars == <<space, rows, inserts, plans, adds, found, trail>>

Plans == [seats : SeatQuotas, checked : BOOLEAN, grown : BOOLEAN]
NoRows == [s \in Slots |-> 0]
NoChoice == [made |-> FALSE, offer |-> FreeSeats, grown |-> FALSE]

\* What a plan on offer says of its seats, and what is in force once it is taken: a
\* feature that is absent or malformed is skipped, and the default applies
\* (mapFeaturePackage, effectiveEntitlement).
Offers == SeatQuotas \union {Unstated}
SeatsOf(offer) == IF offer = Unstated THEN FreeSeats ELSE offer

TypeOK ==
  /\ space \in {"live", "deleted"}
  /\ rows \in [Slots -> 0 .. MaxInserts]
  /\ inserts \in 0 .. MaxInserts
  /\ \A s \in Slots : rows[s] <= inserts
  /\ plan \in Plans
  /\ {FreeSeats, plan.seats} \subseteq granted /\ granted \subseteq SeatQuotas
  /\ moves \in 0 .. MaxMoves
  /\ lock \in Adders \union {"nobody"}
  /\ pc \in [Adders -> {"idle", "resolved", "counted", "admitted"}]
  /\ \A p \in Adders : pc[p] \in {"counted", "admitted"} => lock = p
  /\ wanted \in [Adders -> SUBSET Slots]
  /\ allowance \in [Adders -> SeatQuotas]
  /\ used \in [Adders -> Nat]
  /\ found \in [Removers -> [Slots -> 0 .. MaxInserts]]
  /\ choice \in [Buyers -> [made : BOOLEAN, offer : Offers, grown : BOOLEAN]]
  /\ trail \subseteq Slots

Init ==
  /\ space = "live" /\ rows = NoRows /\ inserts = 0
  /\ plan = [seats |-> FreeSeats, checked |-> FALSE, grown |-> FALSE]
  /\ granted = {FreeSeats} /\ moves = 0
  /\ lock = "nobody"
  /\ pc = [p \in Adders |-> "idle"]
  /\ wanted = [p \in Adders |-> {}]
  /\ allowance = [p \in Adders |-> FreeSeats]
  /\ used = [p \in Adders |-> 0]
  /\ found = [q \in Removers |-> NoRows]
  /\ choice = [b \in Buyers |-> NoChoice]
  /\ trail = {}

Held == {s \in Slots : rows[s] # 0}
Addresses(slots) == {s.address : s \in slots}
Seats == Cardinality(Addresses(Held))

\* fitsWithinQuota
Fits(quota, n) == quota = Null \/ n <= quota

-----------------------------------------------------------------------------
(* SpaceSafesService.create.                                                *)

\* prepareQuotaCheck resolves the grant before the transaction opens.
Resolve(p) ==
  /\ pc[p] = "idle" /\ space = "live"
  /\ \E payload \in Payloads : wanted' = [wanted EXCEPT ![p] = payload]
  /\ \E quota \in granted : allowance' = [allowance EXCEPT ![p] = quota]
  /\ pc' = [pc EXCEPT ![p] = "resolved"]
  /\ UNCHANGED <<space, rows, inserts, plans, lock, used, found, trail>>

\* lockSeats, and countSeatsBySpaceId once the lock is held.
LockAndCount_Shared(p) ==
  /\ pc[p] = "resolved"
  /\ lock' = p
  /\ used' = [used EXCEPT ![p] = Seats]
  /\ pc' = [pc EXCEPT ![p] = "counted"]
  /\ UNCHANGED <<space, rows, inserts, plans, wanted, allowance, found, trail>>
LockAndCount(p) ==
  /\ pc[p] = "resolved" /\ lock = "nobody"
  /\ lock' = p
  /\ used' = [used EXCEPT ![p] = Seats]
  /\ pc' = [pc EXCEPT ![p] = "counted"]
  /\ UNCHANGED <<space, rows, inserts, plans, wanted, allowance, found, trail>>

\* The end of the transaction frees the lock.
End(p) ==
  /\ pc' = [pc EXCEPT ![p] = "idle"]
  /\ wanted' = [wanted EXCEPT ![p] = {}]
  /\ allowance' = [allowance EXCEPT ![p] = FreeSeats]
  /\ used' = [used EXCEPT ![p] = 0]
  /\ lock' = IF lock = p THEN "nobody" ELSE lock

\* countNewSeats: what the payload asks for and the space does not hold by now.
NewSeats(p) == Cardinality(Addresses(wanted[p]) \ Addresses(Held))

\* countNewSeats, and admit with the two counts.
Admit_ForgetsNew(p) ==
  /\ pc[p] = "counted"
  /\ \/ /\ Fits(allowance[p], used[p])
        /\ pc' = [pc EXCEPT ![p] = "admitted"]
        /\ used' = [used EXCEPT ![p] = 0]
        /\ UNCHANGED <<wanted, allowance, lock>>
     \/ ~Fits(allowance[p], used[p]) /\ End(p)
  /\ UNCHANGED <<space, rows, inserts, plans, found, trail>>
Admit(p) ==
  /\ pc[p] = "counted"
  /\ \/ /\ Fits(allowance[p], used[p] + NewSeats(p))
        /\ pc' = [pc EXCEPT ![p] = "admitted"]
        /\ used' = [used EXCEPT ![p] = 0]
        /\ UNCHANGED <<wanted, allowance, lock>>
     \/ ~Fits(allowance[p], used[p] + NewSeats(p)) /\ End(p)
  /\ UNCHANGED <<space, rows, inserts, plans, found, trail>>

\* Safes that bring an address bring a seat: a plan that was checked before is
\* no longer known to fit.
Grows(p) == ~(Addresses(wanted[p]) \subseteq Addresses(Held))

\* insertRows: the unique index refuses a Safe the space holds, the foreign key
\* and the look-up for the audit log refuse a space that is gone.
InsertRows(p) ==
  /\ pc[p] = "admitted"
  /\ space = "live" /\ wanted[p] \intersect Held = {}
  /\ inserts < MaxInserts
  /\ inserts' = inserts + 1
  /\ rows' = [s \in Slots |-> IF s \in wanted[p] THEN inserts' ELSE rows[s]]
  /\ trail' = trail \union wanted[p]
  /\ plan' = [plan EXCEPT !.grown = plan.checked /\ (@ \/ Grows(p))]
  /\ choice' = [b \in Buyers |-> [choice[b] EXCEPT !.grown =
       choice[b].made /\ choice[b].offer # Unstated /\ (@ \/ Grows(p))]]
  /\ End(p)
  /\ UNCHANGED <<space, granted, moves, found>>

\* A refusal after the admission, or a failure anywhere: the transaction rolls back.
RollBack(p) ==
  /\ pc[p] # "idle"
  /\ End(p)
  /\ UNCHANGED <<space, rows, inserts, plans, found, trail>>

-----------------------------------------------------------------------------
(* SpaceSafesRepository.delete.                                             *)

FindRows(q) ==
  /\ found[q] = NoRows
  /\ \E payload \in Payloads :
       /\ payload \intersect Held # {}
       /\ found' = [found EXCEPT ![q] = [s \in Slots |-> IF s \in payload THEN rows[s] ELSE 0]]
  /\ UNCHANGED <<space, rows, inserts, plans, adds, trail>>

\* Rows are removed by their ids, and recorded whether they were still there.
RemoveRows_RecordsAllOrNone(q) ==
  /\ found[q] # NoRows
  /\ space = "live"
  /\ rows' = [s \in Slots |-> IF found[q][s] # 0 /\ rows[s] = found[q][s]
                              THEN 0 ELSE rows[s]]
  /\ trail' = IF \E s \in Slots : found[q][s] \notin {0, rows[s]} THEN trail
              ELSE {s \in trail : found[q][s] = 0}
  /\ found' = [found EXCEPT ![q] = NoRows]
  /\ UNCHANGED <<space, inserts, plans, adds>>
RemoveRows(q) ==
  /\ found[q] # NoRows
  /\ space = "live"
  /\ rows' = [s \in Slots |-> IF found[q][s] # 0 /\ rows[s] = found[q][s]
                              THEN 0 ELSE rows[s]]
  /\ trail' = {s \in trail : found[q][s] = 0}
  /\ found' = [found EXCEPT ![q] = NoRows]
  /\ UNCHANGED <<space, inserts, plans, adds>>

RemovalFails(q) ==
  /\ found[q] # NoRows
  /\ found' = [found EXCEPT ![q] = NoRows]
  /\ UNCHANGED <<space, rows, inserts, plans, adds, trail>>

-----------------------------------------------------------------------------
(* The plan.                                                                *)

\* assertSafeSeatCapacity of a checkout or of a change of plan: a plan that is
\* too small is refused.  One that says it is unlimited, or says nothing that can
\* be understood, is not compared with anything (parseSafeSeatQuota).
AssertSafeSeatCapacity_OneOver(b, offer) ==
  /\ ~choice[b].made /\ space = "live"
  /\ offer \in {Null, Unstated} \/ Seats - 1 <= offer
  /\ choice' = [choice EXCEPT ![b] = [made |-> TRUE, offer |-> offer, grown |-> FALSE]]
  /\ UNCHANGED <<space, rows, inserts, plan, granted, moves, adds, found, trail>>
AssertSafeSeatCapacity(b, offer) ==
  /\ ~choice[b].made /\ space = "live"
  /\ offer \in {Null, Unstated} \/ Seats <= offer
  /\ choice' = [choice EXCEPT ![b] = [made |-> TRUE, offer |-> offer, grown |-> FALSE]]
  /\ UNCHANGED <<space, rows, inserts, plan, granted, moves, adds, found, trail>>

\* The billing service refuses, a call fails, or the customer does not check out.
Forgo(b) ==
  /\ choice[b].made
  /\ choice' = [choice EXCEPT ![b] = NoChoice]
  /\ UNCHANGED <<space, rows, inserts, plan, granted, moves, adds, found, trail>>

\* The billing service has accepted the choice, and its webhook puts it in force
\* (updateSubscription, then SubscriptionSync).
Materialize(b) ==
  /\ choice[b].made
  /\ plan' = [seats |-> SeatsOf(choice[b].offer),
              checked |-> choice[b].offer # Unstated, grown |-> choice[b].grown]
  /\ granted' = granted \union {SeatsOf(choice[b].offer)}
  /\ choice' = [choice EXCEPT ![b] = NoChoice]
  /\ UNCHANGED <<space, rows, inserts, moves, adds, found, trail>>

\* A subscription lapses, or is changed at the billing service.
MovePlan ==
  /\ moves < MaxMoves /\ moves' = moves + 1
  /\ \E quota \in SeatQuotas \ {plan.seats} :
       /\ plan' = [seats |-> quota, checked |-> FALSE, grown |-> FALSE]
       /\ granted' = granted \union {quota}
  /\ UNCHANGED <<space, rows, inserts, choice, adds, found, trail>>

\* The Safes go with the space; the log keeps what it has.
DeleteSpace ==
  /\ space = "live" /\ space' = "deleted"
  /\ rows' = NoRows
  /\ UNCHANGED <<inserts, plans, adds, found, trail>>

Next ==
  \/ \E p \in Adders : \/ Resolve(p) \/ LockAndCount(p) \/ Admit(p)
                       \/ InsertRows(p) \/ RollBack(p)
  \/ \E q \in Removers : FindRows(q) \/ RemoveRows(q) \/ RemovalFails(q)
  \/ \E b \in Buyers : \/ Forgo(b) \/ Materialize(b)
                       \/ \E offer \in Offers : AssertSafeSeatCapacity(b, offer)
  \/ MovePlan \/ DeleteSpace

Spec == Init /\ [][Next]_vars

-----------------------------------------------------------------------------
(* Properties.                                                              *)

\* Whatever removals and changes of plan come between its two counts and its
\* insert, an addition never takes the space beyond every quota it has had
\* (create: "the seat check and the insert it admits share one" transaction).
WithinGranted == \E quota \in granted : Fits(quota, Seats)

\* A plan that was chosen here, and says how many seats it has, is too small for the
\* seats in use only if Safes were added since the check (assertSafeSeatCapacity:
\* "Refuses a plan whose FEATURE_SAFE_SEATS is below the workspace's current Safe
\* count").  It is not so of a plan that does not say it: that is never compared, and
\* may turn out too small at once, since the default is in force then.
ChosenPlanFits == plan.checked /\ ~plan.grown => Fits(plan.seats, Seats)

\* A live space holds every Safe that the audit log says it holds, however
\* removals of the same Safes overlap (SAFE_ADDED, SAFE_REMOVED).  The converse
\* fails: a removal that finds its row gone is recorded all the same.
NoPhantomSafes == space = "live" => trail \subseteq Held

\* Seats are taken within a granted quota only, step by step.
Budget == INSTANCE SeatBudget WITH
  Quotas <- SeatQuotas, Unlimited <- Null, seats <- Seats
ImplementsBudget == Budget!Spec
=============================================================================
