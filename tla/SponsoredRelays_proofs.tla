------------------------ MODULE SponsoredRelays_proofs ------------------------
(***************************************************************************)
(* Proofs about SponsoredRelays, for any number of calls, any plans and    *)
(* any bounds.                                                             *)
(***************************************************************************)
EXTENDS SponsoredRelays, FiniteSetTheorems, TLAPS

\* A quota that allows no more than another one.
NoMoreThan(q1, q2) == q2 = Null \/ (q1 # Null /\ q1 <= q2)

\* A call has charged a counter exactly from its spend to its end, and holds a
\* grant once one was resolved.
CallsHold ==
  \A r \in Calls :
    /\ pc[r] \in {"relaying", "refunding"} <=> spent[r] # Null
    /\ pc[r] \in {"storing", "granted"} => grant[r] \in Grants

\* Every grant, held or cached, was offered.
GrantsOffered ==
  /\ \A r \in Calls : grant[r] \in Grants =>
       NoMoreThan(grant[r].quota, offered[grant[r].counter])
  /\ entry # NoEntry => NoMoreThan(entry.grant.quota, offered[entry.grant.counter])

Inv == TypeOK /\ CallsHold /\ GrantsOffered /\ WithinAllowance /\ SpendsAccounted

-----------------------------------------------------------------------------
\* The window a time is in starts at or before it.
LEMMA WindowStart ==
  ASSUME NEW t \in Nat, NEW p \in Nat, p > 0
  PROVE  (t \div p) * p \in 0 .. t
<1>1. t \div p \in Nat /\ t % p \in 0 .. (p - 1)
  OBVIOUS
<1>2. t = p * (t \div p) + (t % p)
  OBVIOUS
<1>3. p * (t \div p) = (t \div p) * p /\ (t \div p) * p \in Nat
  BY <1>1
<1> QED
  BY <1>1, <1>2, <1>3

\* A computed grant names a counter and a quota of the plan it is computed from.
LEMMA GrantType ==
  ASSUME NEW p \in Plans, NEW t \in Times
  PROVE  GrantOf(p, t) \in Grants
<1> USE RelaysAssumption
<1>1. /\ p.quota \in Quotas /\ p.start \in Times \union {Null}
      /\ p.end \in Nat \union {Null}
  BY DEF Plans, Quotas, NoPlan
<1>2. t \in Nat /\ t <= MaxTime /\ 0 \in Times
  BY DEF Times
<1>3. EventPeriodStart(p, t) \in Times
  <2>1. CASE p.start # Null
    BY <1>1, <2>1 DEF EventPeriodStart
  <2>2. CASE p.start = Null /\ FreePeriod > 0
    <3>1. (t \div FreePeriod) * FreePeriod \in 0 .. t
      BY <1>2, <2>2, WindowStart
    <3> QED
      BY <1>2, <2>2, <3>1 DEF EventPeriodStart, Times
  <2>3. CASE p.start = Null /\ ~(FreePeriod > 0)
    BY <1>2, <2>3 DEF EventPeriodStart
  <2> QED
    BY <2>1, <2>2, <2>3
<1>4. ResetsAt(p, t) \in Nat \union {Null}
  <2>1. EventPeriodStart(p, t) + FreePeriod \in Nat
    BY <1>3 DEF Times
  <2> QED
    BY <1>1, <2>1 DEF ResetsAt
<1> QED
  BY <1>1, <1>3, <1>4 DEF GrantOf, Grants

\* Quotas are unlimited or natural numbers.
LEMMA QuotaType == Quotas \subseteq Nat \union {Null}
BY RelaysAssumption DEF Quotas, Plans, NoPlan

\* The larger of two quotas is a quota and allows no less than either.
LEMMA LargerQuota ==
  ASSUME NEW q1 \in Quotas, NEW q2 \in Quotas
  PROVE  /\ Larger(q1, q2) \in Quotas
         /\ NoMoreThan(q1, Larger(q1, q2))
         /\ NoMoreThan(q2, Larger(q1, q2))
BY QuotaType DEF Larger, NoMoreThan, Null

LEMMA NoMoreThanReflexive == \A q \in Quotas : NoMoreThan(q, q)
BY QuotaType DEF NoMoreThan, Null

LEMMA NoMoreThanTransitive ==
  ASSUME NEW q1 \in Quotas, NEW q2 \in Quotas, NEW q3 \in Quotas,
         NoMoreThan(q1, q2), NoMoreThan(q2, q3)
  PROVE  NoMoreThan(q1, q3)
BY QuotaType DEF NoMoreThan, Null

-----------------------------------------------------------------------------
(* Counting the calls in flight.                                            *)

LEMMA CountType ==
  ASSUME NEW c
  PROVE  IsFiniteSet(InFlight(c)) /\ Cardinality(InFlight(c)) \in Nat
<1>1. InFlight(c) \subseteq Calls
  BY DEF InFlight
<1> QED
  BY <1>1, RelaysAssumption, FS_Subset, FS_CardinalityType

\* A call that charges a counter is one more in flight there.
LEMMA SpendCounts ==
  ASSUME spent \in [Calls -> Times \union {Null}],
         NEW r \in Calls, NEW c \in Times,
         spent[r] = Null, spent' = [spent EXCEPT ![r] = c],
         NEW d \in Times
  PROVE  Cardinality(InFlight(d)') =
           IF d = c THEN Cardinality(InFlight(d)) + 1 ELSE Cardinality(InFlight(d))
<1>1. c # Null /\ d # Null
  BY DEF Times, Null
<1>2. CASE d = c
  <2>1. InFlight(d)' = InFlight(d) \union {r}
    BY <1>2 DEF InFlight
  <2>2. r \notin InFlight(d)
    BY <1>1 DEF InFlight
  <2> QED
    BY <1>2, <2>1, <2>2, CountType, FS_AddElement
<1>3. CASE d # c
  <2>1. InFlight(d)' = InFlight(d)
    BY <1>1, <1>3 DEF InFlight
  <2> QED
    BY <1>3, <2>1
<1> QED
  BY <1>2, <1>3

\* A call that ends is one less in flight where it had charged.
LEMMA FinishCounts ==
  ASSUME spent \in [Calls -> Times \union {Null}],
         NEW r \in Calls, spent' = [spent EXCEPT ![r] = Null],
         NEW d \in Times
  PROVE  /\ spent[r] = d => Cardinality(InFlight(d)) >= 1
         /\ Cardinality(InFlight(d)') =
              IF spent[r] = d THEN Cardinality(InFlight(d)) - 1
                              ELSE Cardinality(InFlight(d))
<1>1. d # Null
  BY DEF Times, Null
<1>2. CASE spent[r] = d
  <2>1. InFlight(d)' = InFlight(d) \ {r}
    BY <1>1, <1>2 DEF InFlight
  <2>2. r \in InFlight(d)
    BY <1>2 DEF InFlight
  <2>3. /\ Cardinality(InFlight(d)') = Cardinality(InFlight(d)) - 1
        /\ Cardinality(InFlight(d)') \in Nat
    BY <2>1, <2>2, CountType, FS_RemoveElement, FS_CardinalityType
  <2> QED
    BY <1>2, <2>3, CountType
<1>3. CASE spent[r] # d
  <2>1. InFlight(d)' = InFlight(d)
    BY <1>1, <1>3 DEF InFlight
  <2> QED
    BY <1>3, <2>1
<1> QED
  BY <1>2, <1>3

-----------------------------------------------------------------------------
(* The invariant is inductive.                                              *)

LEMMA InvInit == Init => Inv
<1> SUFFICES ASSUME Init PROVE Inv
  OBVIOUS
<1> USE RelaysAssumption DEF Init
<1>1. 0 \in Quotas /\ NoPlan \in Plans /\ 0 \in Times
  BY DEF Quotas, Plans, Times
<1>2. TypeOK
  BY <1>1 DEF TypeOK
<1>3. CallsHold
  BY DEF CallsHold
<1>4. NoGrant \notin Grants
  BY DEF NoGrant, Grants, Times, Null
<1>5. GrantsOffered
  BY <1>4 DEF GrantsOffered
<1>6. WithinAllowance
  BY DEF WithinAllowance
<1>7. SpendsAccounted
  <2> SUFFICES ASSUME NEW c \in Times
               PROVE  used[c] = kept[c] + Cardinality(InFlight(c))
    BY DEF SpendsAccounted
  <2>1. InFlight(c) = {}
    BY DEF InFlight, Times, Null
  <2> QED
    BY <2>1, FS_EmptySet
<1> QED
  BY <1>2, <1>3, <1>5, <1>6, <1>7 DEF Inv

\* What a call that ends does to the calls, the same for all of its actions.
LEMMA FinishKeeps ==
  ASSUME Inv, NEW r \in Calls, Finish(r), UNCHANGED <<offered, entry>>
  PROVE  /\ pc' \in [Calls -> {"idle", "computing", "storing", "granted", "relaying", "refunding"}]
         /\ consuming' \in [Calls -> BOOLEAN]
         /\ since' \in [Calls -> Times]
         /\ read' \in [Calls -> Plans]
         /\ grant' \in [Calls -> Grants \union {NoGrant}]
         /\ spent' \in [Calls -> Times \union {Null}]
         /\ CallsHold' /\ GrantsOffered'
<1> USE DEF Finish
<1>1. 0 \in Times /\ NoPlan \in Plans
  BY RelaysAssumption DEF Times, Plans
<1>2. NoGrant \notin Grants
  BY DEF NoGrant, Grants, Times, Null
<1>3. CallsHold'
  BY DEF Inv, TypeOK, CallsHold
<1>4. GrantsOffered'
  BY <1>2 DEF Inv, TypeOK, GrantsOffered
<1> QED
  BY <1>1, <1>3, <1>4 DEF Inv, TypeOK

\* A call that ends before it has spent anything changes no counter.
LEMMA RefusedKeeps ==
  ASSUME Inv, NEW r \in Calls, spent[r] = Null, Refused(r)
  PROVE  Inv'
<1> USE DEF Refused, cache
<1>1. /\ TypeOK' /\ CallsHold' /\ GrantsOffered'
  BY FinishKeeps DEF Inv, TypeOK
<1>2. WithinAllowance'
  BY DEF Inv, WithinAllowance
<1>3. SpendsAccounted'
  <2>1. spent' = spent
    BY DEF Finish, Inv, TypeOK
  <2> QED
    BY <2>1 DEF Inv, SpendsAccounted, InFlight
<1> QED
  BY <1>1, <1>2, <1>3 DEF Inv

\* A spend that becomes final leaves its counter and one call less in flight.
LEMMA KeepKeeps ==
  ASSUME Inv, NEW r \in Calls, spent[r] # Null, Keep(r)
  PROVE  Inv'
<1> DEFINE c == spent[r]
<1> USE DEF Keep, cache
<1>1. c \in Times
  BY DEF Inv, TypeOK
<1>2. \A d \in Times : /\ used[d] \in 0 .. MaxUsed /\ kept[d] \in 0 .. MaxUsed
                       /\ Cardinality(InFlight(d)) \in Nat
                       /\ used[d] = kept[d] + Cardinality(InFlight(d))
  BY CountType DEF Inv, TypeOK, SpendsAccounted
<1>3. \A d \in Times :
        /\ spent[r] = d => Cardinality(InFlight(d)) >= 1
        /\ Cardinality(InFlight(d)') =
             IF spent[r] = d THEN Cardinality(InFlight(d)) - 1
                             ELSE Cardinality(InFlight(d))
  BY FinishCounts DEF Finish, Inv, TypeOK
<1>4. /\ kept' = [kept EXCEPT ![c] = kept[c] + 1] /\ used' = used
      /\ kept[c] + 1 \in 0 .. MaxUsed
  BY <1>1, <1>2, <1>3, RelaysAssumption
<1>5. TypeOK' /\ CallsHold' /\ GrantsOffered'
  BY <1>4, FinishKeeps DEF Inv, TypeOK
<1>6. WithinAllowance'
  BY DEF Inv, WithinAllowance
<1>7. SpendsAccounted'
  <2> SUFFICES ASSUME NEW d \in Times
               PROVE  used'[d] = kept'[d] + Cardinality(InFlight(d)')
    BY DEF SpendsAccounted
  <2>1. kept'[d] = IF d = c THEN kept[d] + 1 ELSE kept[d]
    BY <1>4 DEF Inv, TypeOK
  <2> QED
    BY <1>2, <1>3, <1>4, <2>1
<1> QED
  BY <1>5, <1>6, <1>7 DEF Inv

\* A refund undoes its own charge.
LEMMA RefundKeeps ==
  ASSUME Inv, NEW r \in Calls, Refund(r)
  PROVE  Inv'
<1> DEFINE c == spent[r]
<1> USE DEF Refund, cache
<1>1. c # Null /\ c \in Times
  BY DEF Inv, TypeOK, CallsHold
<1>2. \A d \in Times : /\ used[d] \in 0 .. MaxUsed /\ kept[d] \in 0 .. MaxUsed
                       /\ Cardinality(InFlight(d)) \in Nat
                       /\ used[d] = kept[d] + Cardinality(InFlight(d))
  BY CountType DEF Inv, TypeOK, SpendsAccounted
<1>3. \A d \in Times :
        /\ spent[r] = d => Cardinality(InFlight(d)) >= 1
        /\ Cardinality(InFlight(d)') =
             IF spent[r] = d THEN Cardinality(InFlight(d)) - 1
                             ELSE Cardinality(InFlight(d))
  BY FinishCounts DEF Finish, Inv, TypeOK
<1>4. /\ used' = [used EXCEPT ![c] = used[c] - 1] /\ kept' = kept
      /\ used[c] - 1 \in 0 .. MaxUsed
  BY <1>1, <1>2, <1>3, RelaysAssumption
<1>5. TypeOK' /\ CallsHold' /\ GrantsOffered'
  <2>1. used' \in [Times -> 0 .. MaxUsed]
    BY <1>1, <1>4 DEF Inv, TypeOK
  <2>2. Finish(r) /\ UNCHANGED <<now, plan, changes, entry, marker, purges, offered, kept>>
    OBVIOUS
  <2> QED
    BY <2>1, <2>2, FinishKeeps DEF Inv, TypeOK
<1>6. \A d \in Times : used'[d] = IF d = c THEN used[d] - 1 ELSE used[d]
  BY <1>4 DEF Inv, TypeOK
<1>7. WithinAllowance'
  <2> SUFFICES ASSUME NEW d \in Times, offered[d] # Null PROVE used'[d] <= offered[d]
    BY DEF WithinAllowance
  <2>1. offered[d] \in Nat /\ used[d] <= offered[d]
    BY QuotaType DEF Inv, TypeOK, WithinAllowance
  <2> QED
    BY <1>2, <1>6, <2>1
<1>8. SpendsAccounted'
  BY <1>2, <1>3, <1>4, <1>6 DEF SpendsAccounted
<1> QED
  BY <1>5, <1>7, <1>8 DEF Inv

\* Steps that touch neither counters nor spends keep what is said of them.
LEMMA CountersKeep ==
  ASSUME Inv, UNCHANGED <<used, kept, offered, spent>>
  PROVE  WithinAllowance' /\ SpendsAccounted'
BY DEF Inv, WithinAllowance, SpendsAccounted, InFlight

LEMMA ComputeKeeps ==
  ASSUME Inv, NEW r \in Calls, ComputeGrants(r)
  PROVE  Inv'
<1> DEFINE g == GrantOf(read[r], now)
           c == g.counter
           raised == Larger(offered[c], g.quota)
<1>1. /\ pc[r] = "computing" /\ spent[r] = Null
      /\ read[r] \in Plans /\ now \in Times
  BY DEF ComputeGrants, Inv, TypeOK, CallsHold
<1>2. g \in Grants /\ c \in Times /\ g.quota \in Quotas
  BY <1>1, GrantType DEF Grants
<1>3. /\ raised \in Quotas
      /\ NoMoreThan(offered[c], raised) /\ NoMoreThan(g.quota, raised)
  BY <1>2, LargerQuota DEF Inv, TypeOK
<1>4. /\ grant' = [grant EXCEPT ![r] = g]
      /\ offered' = [offered EXCEPT ![c] = raised]
      /\ pc' \in {[pc EXCEPT ![r] = "storing"], [pc EXCEPT ![r] = "granted"]}
      /\ since' = [since EXCEPT ![r] = 0]
      /\ read' \in {read, [read EXCEPT ![r] = NoPlan]}
      /\ UNCHANGED <<now, plan, changes, used, entry, marker, purges, consuming,
                     spent, kept>>
  <2>1. [read EXCEPT ![r] = read[r]] = read
    BY DEF Inv, TypeOK
  <2> QED
    BY <2>1 DEF ComputeGrants, cache
<1> HIDE DEF g, raised
<1>5. 0 \in Times /\ NoPlan \in Plans
  BY RelaysAssumption DEF Times, Plans
<1>6. TypeOK'
  <2>1. offered' \in [Times -> Quotas]
    BY <1>2, <1>3, <1>4 DEF Inv, TypeOK
  <2>2. grant' \in [Calls -> Grants \union {NoGrant}]
    BY <1>2, <1>4 DEF Inv, TypeOK
  <2>3. read' \in [Calls -> Plans] /\ since' \in [Calls -> Times]
    BY <1>4, <1>5 DEF Inv, TypeOK
  <2>4. pc' \in [Calls -> {"idle", "computing", "storing", "granted", "relaying", "refunding"}]
    BY <1>4 DEF Inv, TypeOK
  <2> QED
    BY <1>4, <2>1, <2>2, <2>3, <2>4 DEF Inv, TypeOK
<1>7. CallsHold'
  BY <1>1, <1>2, <1>4 DEF Inv, TypeOK, CallsHold
<1>8. \A d \in Times : /\ offered[d] \in Quotas /\ offered'[d] \in Quotas
                       /\ NoMoreThan(offered[d], offered'[d])
  <2> SUFFICES ASSUME NEW d \in Times
               PROVE  /\ offered[d] \in Quotas /\ offered'[d] \in Quotas
                      /\ NoMoreThan(offered[d], offered'[d])
    OBVIOUS
  <2>1. offered[d] \in Quotas /\ offered'[d] = IF d = c THEN raised ELSE offered[d]
    BY <1>4 DEF Inv, TypeOK
  <2>2. NoMoreThan(offered[d], offered[d])
    BY <2>1, NoMoreThanReflexive
  <2> QED
    BY <1>3, <2>1, <2>2
<1>9. \A h \in Grants : NoMoreThan(h.quota, offered[h.counter])
                         => NoMoreThan(h.quota, offered'[h.counter])
  BY <1>8, NoMoreThanTransitive DEF Grants
<1>10. GrantsOffered'
  <2>1. ASSUME NEW q \in Calls, grant'[q] \in Grants
        PROVE  NoMoreThan(grant'[q].quota, offered'[grant'[q].counter])
    <3>1. CASE q = r
      <4>1. grant'[q] = g /\ offered'[c] = raised
        BY <1>2, <1>4, <3>1 DEF Inv, TypeOK
      <4> QED
        BY <1>3, <4>1
    <3>2. CASE q # r
      <4>1. grant'[q] = grant[q]
        BY <1>4, <3>2 DEF Inv, TypeOK
      <4> QED
        BY <1>9, <2>1, <4>1 DEF Inv, GrantsOffered
    <3> QED
      BY <3>1, <3>2
  <2>2. entry # NoEntry => entry.grant \in Grants
    BY DEF Inv, TypeOK
  <2>3. entry' # NoEntry => NoMoreThan(entry'.grant.quota, offered'[entry'.grant.counter])
    BY <1>4, <1>9, <2>2 DEF Inv, GrantsOffered
  <2> QED
    BY <2>1, <2>3 DEF GrantsOffered
<1>11. WithinAllowance'
  <2> SUFFICES ASSUME NEW d \in Times, offered'[d] # Null PROVE used'[d] <= offered'[d]
    BY DEF WithinAllowance
  <2>1. /\ offered[d] \in Nat \union {Null} /\ offered'[d] \in Nat \union {Null}
        /\ used' = used
    BY <1>4, <1>8, QuotaType
  <2>2. used[d] \in 0 .. MaxUsed
    BY DEF Inv, TypeOK
  <2> QED
    BY <1>8, <2>1, <2>2, RelaysAssumption DEF NoMoreThan, Inv, WithinAllowance, Null
<1>12. SpendsAccounted'
  BY <1>4 DEF Inv, SpendsAccounted, InFlight
<1> QED
  BY <1>6, <1>7, <1>10, <1>11, <1>12 DEF Inv

\* The counter's row is locked from the increment to the commit, so a call is
\* admitted on the count it leaves behind.
LEMMA ConsumeKeeps ==
  ASSUME Inv, NEW r \in Calls, ConsumeQuota(r)
  PROVE  Inv'
<1> DEFINE c == grant[r].counter
<1>1. pc[r] = "granted" /\ spent[r] = Null /\ grant[r] \in Grants
  BY DEF ConsumeQuota, Inv, CallsHold
<1>2. c \in Times /\ c # Null /\ grant[r].quota \in Quotas
      /\ NoMoreThan(grant[r].quota, offered[c])
  BY <1>1 DEF Grants, Times, Null, Inv, GrantsOffered
<1>3. used[c] \in Int
  BY <1>2, RelaysAssumption DEF Inv, TypeOK
<1>4. CASE ~Fits(grant[r].quota, used[c] + 1 - 1, 1)
  <2>1. Refused(r)
    BY <1>3, <1>4 DEF ConsumeQuota
  <2> QED
    BY <1>1, <2>1, RefusedKeeps
<1>5. CASE Fits(grant[r].quota, used[c] + 1 - 1, 1)
  <2>1. /\ Fits(grant[r].quota, used[c] + 1 - 1, 1) /\ used[c] + 1 <= MaxUsed
        /\ used' = [used EXCEPT ![c] = used[c] + 1]
        /\ spent' = [spent EXCEPT ![r] = c]
        /\ pc' = [pc EXCEPT ![r] = "relaying"]
        /\ grant' = [grant EXCEPT ![r] = NoGrant]
        /\ UNCHANGED <<now, plan, changes, entry, marker, purges, consuming,
                       since, read, offered, kept>>
    BY <1>3, <1>5 DEF ConsumeQuota, cache
  <2>2. used[c] \in 0 .. MaxUsed /\ used[c] + 1 \in 0 .. MaxUsed
    BY <1>2, <2>1, RelaysAssumption DEF Inv, TypeOK
  <2>3. TypeOK'
    BY <1>2, <2>1, <2>2 DEF Inv, TypeOK
  <2>4. CallsHold'
    BY <1>1, <1>2, <2>1 DEF Inv, TypeOK, CallsHold
  <2>5. NoGrant \notin Grants
    BY DEF NoGrant, Grants, Times, Null
  <2>6. GrantsOffered'
    BY <2>1, <2>5 DEF Inv, TypeOK, GrantsOffered
  <2>7. \A d \in Times : used'[d] = IF d = c THEN used[d] + 1 ELSE used[d]
    BY <2>1 DEF Inv, TypeOK
  <2>8. WithinAllowance'
    <3> SUFFICES ASSUME NEW d \in Times, offered[d] # Null PROVE used'[d] <= offered[d]
      BY <2>1 DEF WithinAllowance
    <3>1. /\ offered[d] \in Nat /\ used[d] <= offered[d]
          /\ grant[r].quota \in Nat \union {Null}
      BY <1>2, QuotaType DEF Inv, TypeOK, WithinAllowance
    <3> QED
      BY <1>2, <2>1, <2>2, <2>7, <3>1 DEF Fits, NoMoreThan, Null
  <2>9. SpendsAccounted'
    <3> SUFFICES ASSUME NEW d \in Times
                 PROVE  used'[d] = kept'[d] + Cardinality(InFlight(d)')
      BY DEF SpendsAccounted
    <3>1. /\ used[d] = kept[d] + Cardinality(InFlight(d))
          /\ used[d] \in Int /\ kept[d] \in Int /\ Cardinality(InFlight(d)) \in Int
      BY CountType, RelaysAssumption DEF Inv, TypeOK, SpendsAccounted
    <3>2. Cardinality(InFlight(d)') =
            IF d = c THEN Cardinality(InFlight(d)) + 1 ELSE Cardinality(InFlight(d))
      BY <1>1, <1>2, <2>1, SpendCounts DEF Inv, TypeOK
    <3> QED
      BY <2>1, <2>7, <3>1, <3>2
  <2> QED
    BY <2>3, <2>4, <2>6, <2>8, <2>9 DEF Inv
<1> QED
  BY <1>4, <1>5

LEMMA StoreKeeps ==
  ASSUME Inv, NEW r \in Calls, Store(r)
  PROVE  Inv'
<1> USE DEF Store
<1>1. grant[r] \in Grants /\ read[r] \in Plans /\ spent[r] = Null
  BY DEF Inv, TypeOK, CallsHold
<1>2. /\ entry'.grant = grant[r]
      /\ entry' \in [grant : Grants, of : Plans, until : Nat] \union {NoEntry}
  <2>1. entry # NoEntry => entry.until \in Nat
    BY DEF Inv, TypeOK
  <2>2. now + GrantsTTL \in Nat
    BY RelaysAssumption DEF Inv, TypeOK, Times
  <2> QED
    BY <1>1, <2>1, <2>2
<1>3. NoPlan \in Plans
  BY DEF Plans
<1>4. TypeOK'
  BY <1>2, <1>3 DEF Inv, TypeOK
<1>5. CallsHold'
  BY <1>1 DEF Inv, TypeOK, CallsHold
<1>6. GrantsOffered'
  BY <1>1, <1>2 DEF Inv, TypeOK, GrantsOffered
<1> QED
  BY <1>4, <1>5, <1>6, CountersKeep DEF Inv

LEMMA TickKeeps ==
  ASSUME Inv, Tick
  PROVE  Inv'
<1> USE DEF Tick, calls
<1>1. now' \in Times
  BY RelaysAssumption DEF Inv, TypeOK, Times
<1>2. entry' \in {entry, NoEntry} /\ marker' \in {marker, NoMarker}
  OBVIOUS
<1>3. TypeOK'
  BY <1>1, <1>2 DEF Inv, TypeOK
<1>4. CallsHold' /\ GrantsOffered'
  BY <1>2 DEF Inv, CallsHold, GrantsOffered
<1> QED
  BY <1>3, <1>4, CountersKeep DEF Inv

\* Changes of the plan and purges of the cached grants.
LEMMA PlanKeeps ==
  ASSUME Inv, Materialize \/ Unlink \/ Stamp \/ PurgeDies
  PROVE  Inv'
<1> USE DEF calls
<1>1. CASE Materialize
  <2>1. TypeOK'
    BY <1>1, RelaysAssumption DEF Materialize, Inv, TypeOK
  <2>2. CallsHold' /\ GrantsOffered'
    BY <1>1 DEF Materialize, Inv, CallsHold, GrantsOffered
  <2> QED
    BY <1>1, <2>1, <2>2, CountersKeep DEF Materialize, Inv
<1>2. CASE Unlink
  <2>1. TypeOK'
    BY <1>2 DEF Unlink, Inv, TypeOK
  <2>2. CallsHold' /\ GrantsOffered'
    BY <1>2 DEF Unlink, Inv, CallsHold, GrantsOffered
  <2> QED
    BY <1>2, <2>1, <2>2, CountersKeep DEF Unlink, Inv
<1>3. CASE Stamp
  <2>1. marker' \in [at : Times, until : Nat]
    <3>1. marker # NoMarker => marker.until \in Nat
      BY DEF Inv, TypeOK
    <3>2. now + MarkerTTL \in Nat /\ now \in Times
      BY RelaysAssumption DEF Inv, TypeOK, Times
    <3> QED
      BY <1>3, <3>1, <3>2 DEF Stamp
  <2>2. TypeOK'
    BY <1>3, <2>1 DEF Stamp, Inv, TypeOK
  <2>3. CallsHold' /\ GrantsOffered'
    BY <1>3 DEF Stamp, Inv, CallsHold, GrantsOffered
  <2> QED
    BY <1>3, <2>2, <2>3, CountersKeep DEF Stamp, Inv
<1>4. CASE PurgeDies
  <2>1. TypeOK'
    BY <1>4 DEF PurgeDies, Inv, TypeOK
  <2>2. CallsHold' /\ GrantsOffered'
    BY <1>4 DEF PurgeDies, Inv, CallsHold, GrantsOffered
  <2> QED
    BY <1>4, <2>1, <2>2, CountersKeep DEF PurgeDies, Inv
<1> QED
  BY <1>1, <1>2, <1>3, <1>4

LEMMA InvStep == Inv /\ [Next]_vars => Inv'
<1> SUFFICES ASSUME Inv, [Next]_vars PROVE Inv'
  OBVIOUS
<1>1. ASSUME NEW r \in Calls, ServeCached(r) PROVE Inv'
  <2> USE <1>1 DEF ServeCached, cache
  <2>1. entry.grant \in Grants /\ spent[r] = Null
    BY DEF Inv, TypeOK, CallsHold
  <2>2. TypeOK' /\ CallsHold'
    BY <2>1 DEF Inv, TypeOK, CallsHold
  <2>3. GrantsOffered'
    BY DEF Inv, TypeOK, GrantsOffered
  <2> QED
    BY <2>2, <2>3, CountersKeep DEF Inv
<1>2. ASSUME NEW r \in Calls, Miss(r) PROVE Inv'
  <2> USE <1>2 DEF Miss, cache
  <2>1. TypeOK' /\ CallsHold' /\ GrantsOffered'
    BY DEF Inv, TypeOK, CallsHold, GrantsOffered
  <2> QED
    BY <2>1, CountersKeep DEF Inv
<1>3. ASSUME NEW r \in Calls, ComputeGrants(r) PROVE Inv'
  BY <1>3, ComputeKeeps
<1>4. ASSUME NEW r \in Calls, Store(r) PROVE Inv'
  BY <1>4, StoreKeeps
<1>5. ASSUME NEW r \in Calls, AssertWithinQuota(r) PROVE Inv'
  <2>1. pc[r] = "granted" /\ spent[r] = Null
    BY <1>5 DEF AssertWithinQuota, Inv, CallsHold
  <2>2. CASE Refused(r)
    BY <2>1, <2>2, RefusedKeeps
  <2>3. CASE /\ consuming' = [consuming EXCEPT ![r] = TRUE]
             /\ pc' = [pc EXCEPT ![r] = "idle"]
             /\ grant' = [grant EXCEPT ![r] = NoGrant]
             /\ UNCHANGED <<now, plan, changes, used, cache, since, read, spent,
                            offered, kept>>
    <3> USE <2>3 DEF cache
    <3>1. NoGrant \notin Grants
      BY DEF NoGrant, Grants, Times, Null
    <3>2. TypeOK' /\ CallsHold'
      BY <2>1 DEF Inv, TypeOK, CallsHold
    <3>3. GrantsOffered'
      BY <3>1 DEF Inv, TypeOK, GrantsOffered
    <3> QED
      BY <3>2, <3>3, CountersKeep DEF Inv
  <2> QED
    BY <1>5, <2>2, <2>3 DEF AssertWithinQuota
<1>6. ASSUME NEW r \in Calls, Fail(r) PROVE Inv'
  BY <1>6, RefusedKeeps DEF Fail
<1>7. ASSUME NEW r \in Calls, ConsumeQuota(r) PROVE Inv'
  BY <1>7, ConsumeKeeps
<1>8. ASSUME NEW r \in Calls, Submitted(r) \/ Die(r) \/ RefundFails(r) PROVE Inv'
  <2>1. Keep(r) /\ spent[r] # Null
    BY <1>8 DEF Submitted, Die, RefundFails, Inv, CallsHold
  <2> QED
    BY <2>1, KeepKeeps
<1>9. ASSUME NEW r \in Calls, RelayFails(r) PROVE Inv'
  <2> USE <1>9 DEF RelayFails, cache
  <2>1. TypeOK' /\ CallsHold' /\ GrantsOffered'
    BY DEF Inv, TypeOK, CallsHold, GrantsOffered
  <2> QED
    BY <2>1, CountersKeep DEF Inv
<1>10. ASSUME NEW r \in Calls, Refund(r) PROVE Inv'
  BY <1>10, RefundKeeps
<1>11. CASE Materialize \/ Unlink \/ Stamp \/ PurgeDies
  BY <1>11, PlanKeeps
<1>12. CASE Tick
  BY <1>12, TickKeeps
<1>13. CASE UNCHANGED vars
  <2> USE <1>13 DEF vars, cache, calls
  <2>1. TypeOK' /\ CallsHold' /\ GrantsOffered'
    BY DEF Inv, TypeOK, CallsHold, GrantsOffered
  <2> QED
    BY <2>1, CountersKeep DEF Inv
<1> QED
  BY <1>1, <1>2, <1>3, <1>4, <1>5, <1>6, <1>7, <1>8, <1>9, <1>10, <1>11, <1>12,
     <1>13 DEF Next

LEMMA Invariance == Spec => []Inv
BY InvInit, InvStep, PTL DEF Spec

-----------------------------------------------------------------------------
(* The theorems.                                                            *)

\* Every variable stays within its type: in particular no counter is driven
\* negative by a refund.
THEOREM TypeCorrect == Spec => []TypeOK
<1>1. Inv => TypeOK
  BY DEF Inv
<1> QED
  BY <1>1, Invariance, PTL

\* No period is charged beyond the largest quota computed for it (consumeQuota).
THEOREM NoOverspending == Spec => []WithinAllowance
<1>1. Inv => WithinAllowance
  BY DEF Inv
<1> QED
  BY <1>1, Invariance, PTL

\* Every spend of a counter is of a call in flight or final (refundQuota).
THEOREM SpendsAreAccounted == Spec => []SpendsAccounted
<1>1. Inv => SpendsAccounted
  BY DEF Inv
<1> QED
  BY <1>1, Invariance, PTL

-----------------------------------------------------------------------------
(* What is cached was computed, at some time.                               *)

ComputedBy(g, p, time) == \E t \in 0 .. time : g = GrantOf(p, t)

\* A call that is about to store, and the entry, know the plan of their grant.
Computed ==
  /\ \A r \in Calls : pc[r] = "storing" => ComputedBy(grant[r], read[r], now)
  /\ entry # NoEntry => ComputedBy(entry.grant, entry.of, now)

LEMMA ComputedStays ==
  ASSUME NEW g, NEW p, NEW t1 \in Nat, NEW t2 \in Nat, t1 <= t2, ComputedBy(g, p, t1)
  PROVE  ComputedBy(g, p, t2)
BY DEF ComputedBy

LEMMA ComputedStep == Inv /\ Computed /\ [Next]_vars => Computed'
<1> SUFFICES ASSUME Inv, Computed, [Next]_vars PROVE Computed'
  OBVIOUS
<1> USE DEF cache, calls
<1>t. TypeOK /\ now \in Nat
  BY DEF Inv, TypeOK, Times
<1>1. ASSUME NEW r \in Calls, ComputeGrants(r) PROVE Computed'
  <2>1. /\ grant' = [grant EXCEPT ![r] = GrantOf(read[r], now)]
        /\ UNCHANGED <<now, entry>>
        /\ pc'[r] = "storing" => read'[r] = read[r]
        /\ \A q \in Calls \ {r} : pc'[q] = pc[q] /\ read'[q] = read[q]
    BY <1>t, <1>1 DEF ComputeGrants, TypeOK
  <2>2. grant'[r] = GrantOf(read[r], now) /\ \A q \in Calls \ {r} : grant'[q] = grant[q]
    BY <1>t, <2>1 DEF TypeOK
  <2>3. ComputedBy(GrantOf(read[r], now), read[r], now)
    BY <1>t DEF ComputedBy
  <2>4. \A q \in Calls : pc'[q] = "storing" => ComputedBy(grant'[q], read'[q], now')
    BY <2>1, <2>2, <2>3 DEF Computed
  <2> QED
    BY <2>1, <2>4 DEF Computed
<1>2. ASSUME NEW r \in Calls, Store(r) PROVE Computed'
  <2>1. /\ pc[r] = "storing" /\ pc'[r] = "granted" /\ UNCHANGED <<now, grant>>
        /\ entry'.grant = grant[r] /\ entry'.of = read[r]
        /\ \A q \in Calls \ {r} : pc'[q] = pc[q] /\ read'[q] = read[q]
    BY <1>t, <1>2 DEF Store, TypeOK
  <2> QED
    BY <2>1 DEF Computed
<1>3. ASSUME NEW r \in Calls,
             ServeCached(r) \/ Miss(r) \/ AssertWithinQuota(r) \/ Fail(r) \/ ConsumeQuota(r)
               \/ Submitted(r) \/ Die(r) \/ RelayFails(r) \/ Refund(r) \/ RefundFails(r)
      PROVE  Computed'
  <2>1. /\ UNCHANGED <<now, entry>> /\ pc'[r] # "storing"
        /\ \A q \in Calls \ {r} : /\ pc'[q] = pc[q] /\ read'[q] = read[q]
                                  /\ grant'[q] = grant[q]
    <3>1. CASE Finish(r) /\ UNCHANGED <<now, entry>>
      BY <1>t, <3>1 DEF Finish, TypeOK
    <3>2. CASE ServeCached(r) \/ Miss(r) \/ RelayFails(r)
      BY <1>t, <3>2 DEF ServeCached, Miss, RelayFails, TypeOK
    <3>3. CASE AssertWithinQuota(r) /\ ~Refused(r)
      BY <1>t, <3>3 DEF AssertWithinQuota, TypeOK
    <3>4. CASE ConsumeQuota(r) /\ ~Refused(r)
      BY <1>t, <3>4 DEF ConsumeQuota, TypeOK
    <3> QED
      BY <1>3, <3>1, <3>2, <3>3, <3>4
      DEF Refused, Fail, Submitted, Die, RefundFails, Keep, Refund
  <2> QED
    BY <2>1 DEF Computed
<1>4. CASE Materialize \/ Stamp \/ PurgeDies \/ UNCHANGED vars
  BY <1>4 DEF Materialize, Stamp, PurgeDies, vars, Computed
<1>5. CASE Unlink
  BY <1>5 DEF Unlink, Computed
<1>6. CASE Tick
  <2>1. /\ now' \in Nat /\ now <= now' /\ UNCHANGED <<pc, read, grant>>
        /\ entry' \in {entry, NoEntry}
    BY <1>t, <1>6 DEF Tick
  <2> QED
    BY <1>t, <2>1, ComputedStays DEF Computed
<1> QED
  BY <1>1, <1>2, <1>3, <1>4, <1>5, <1>6 DEF Next

\* Times in one window have one quotient.
LEMMA SameWindow ==
  ASSUME NEW t \in Nat, NEW n \in Nat, NEW p \in Nat, p > 0,
         t <= n, n < (t \div p) * p + p
  PROVE  (n \div p) * p = (t \div p) * p
<1> DEFINE a == t \div p
           b == n \div p
<1>1. /\ a \in Nat /\ t % p \in 0 .. (p - 1) /\ t = p * a + (t % p)
      /\ b \in Nat /\ n % p \in 0 .. (p - 1) /\ n = p * b + (n % p)
  OBVIOUS
<1>2. p * a = a * p /\ p * b = b * p /\ a * p \in Nat /\ b * p \in Nat
  BY <1>1
<1> HIDE DEF a, b
<1>3. CASE b >= a + 1
  <2>1. PICK k \in Nat : b = a + 1 + k
    <3>1. b - a - 1 \in Nat /\ b = a + 1 + (b - a - 1)
      BY <1>1, <1>3
    <3> QED
      BY <3>1
  <2>2. b * p = a * p + p + k * p /\ k * p \in Nat
    BY <1>1, <2>1
  <2> QED
    BY <1>1, <1>2, <2>2 DEF a
<1>4. CASE a >= b + 1
  <2>1. PICK k \in Nat : a = b + 1 + k
    <3>1. a - b - 1 \in Nat /\ a = b + 1 + (a - b - 1)
      BY <1>1, <1>4
    <3> QED
      BY <3>1
  <2>2. a * p = b * p + p + k * p /\ k * p \in Nat
    BY <1>1, <2>1
  <2> QED
    BY <1>1, <1>2, <2>2
<1>5. CASE a = b
  BY <1>5 DEF a, b
<1> QED
  BY <1>1, <1>3, <1>4, <1>5

\* A cached grant that would be served, of the plan in force, is the one that would
\* be computed now (hasClosedWindow): its window has not ended, and so is that of now.
THEOREM CachedIsCurrent == Spec => []CacheTransparent
<1>1. Inv /\ Computed => CacheTransparent
  <2> SUFFICES ASSUME Inv, Computed, entry # NoEntry,
                      ~HasClosedWindow(entry.grant, now), entry.of = plan
               PROVE  entry.grant = GrantOf(plan, now)
    BY DEF CacheTransparent
  <2>1. PICK t \in 0 .. now : entry.grant = GrantOf(plan, t)
    BY DEF Computed, ComputedBy
  <2>2. now \in Nat /\ t \in Nat /\ t <= now
    BY DEF Inv, TypeOK, Times
  <2>3. CASE plan.start # Null \/ ~(FreePeriod > 0)
    BY <2>1, <2>3 DEF GrantOf, EventPeriodStart, ResetsAt
  <2>4. CASE plan.start = Null /\ FreePeriod > 0
    <3>1. /\ entry.grant.resetsAt = (t \div FreePeriod) * FreePeriod + FreePeriod
          /\ (t \div FreePeriod) * FreePeriod \in Nat
      BY <2>1, <2>2, <2>4, RelaysAssumption, WindowStart
      DEF GrantOf, ResetsAt, EventPeriodStart
    <3>2. now < (t \div FreePeriod) * FreePeriod + FreePeriod
      BY <2>2, <3>1, RelaysAssumption DEF HasClosedWindow, Null
    <3>3. (now \div FreePeriod) * FreePeriod = (t \div FreePeriod) * FreePeriod
      BY <2>2, <2>4, <3>2, RelaysAssumption, SameWindow
    <3> QED
      BY <2>1, <2>4, <3>3 DEF GrantOf, EventPeriodStart, ResetsAt
  <2> QED
    BY <2>3, <2>4
<1>2. Init => Computed
  BY DEF Init, Computed
<1> QED
  BY <1>1, <1>2, ComputedStep, Invariance, PTL DEF Spec

-----------------------------------------------------------------------------
(* The refinement: each step is one of the ledger, or leaves it alone.      *)

Open == [c \in Times |-> Cardinality(InFlight(c))]

LEMMA LedgerStutters ==
  ASSUME UNCHANGED <<used, spent, offered>>
  PROVE  UNCHANGED Ledger!vars
<1>1. \A c : InFlight(c)' = InFlight(c)
  BY DEF InFlight
<1>2. [c \in Times |-> Cardinality(InFlight(c))]' = [c \in Times |-> Cardinality(InFlight(c))]
  BY <1>1
<1> QED
  BY <1>2 DEF Ledger!vars

\* A call that ends is one spend less that is open, where it had one.
LEMMA OpenFalls ==
  ASSUME Inv, NEW r \in Calls, Finish(r), spent[r] # Null
  PROVE  /\ spent[r] \in Times /\ Open[spent[r]] > 0
         /\ Open' = [Open EXCEPT ![spent[r]] = Open[spent[r]] - 1]
<1>1. spent[r] \in Times
  BY DEF Inv, TypeOK
<1>2. \A d \in Times :
        /\ spent[r] = d => Cardinality(InFlight(d)) >= 1
        /\ Cardinality(InFlight(d)') =
             IF spent[r] = d THEN Cardinality(InFlight(d)) - 1
                             ELSE Cardinality(InFlight(d))
  BY FinishCounts DEF Finish, Inv, TypeOK
<1>3. Open[spent[r]] \in Nat
  BY <1>1, CountType DEF Open
<1> QED
  BY <1>1, <1>2, <1>3 DEF Open

LEMMA KeepLedger ==
  ASSUME Inv, NEW r \in Calls, Keep(r), spent[r] # Null
  PROVE  Ledger!Next
<1>1. Ledger!Keep(spent[r])
  BY OpenFalls DEF Keep, Ledger!Keep, Open
<1> QED
  BY <1>1, OpenFalls DEF Keep, Ledger!Next

LEMMA RefundLedger ==
  ASSUME Inv, NEW r \in Calls, Refund(r)
  PROVE  Ledger!Next
<1>1. spent[r] # Null
  BY DEF Refund, Inv, CallsHold
<1>2. Ledger!GiveBack(spent[r])
  BY <1>1, OpenFalls DEF Refund, Ledger!GiveBack, Open
<1> QED
  BY <1>1, <1>2, OpenFalls DEF Refund, Ledger!Next

LEMMA ConsumeLedger ==
  ASSUME Inv, NEW r \in Calls, ConsumeQuota(r)
  PROVE  Ledger!Next \/ UNCHANGED Ledger!vars
<1> DEFINE c == grant[r].counter
<1>1. pc[r] = "granted" /\ spent[r] = Null /\ grant[r] \in Grants
  BY DEF ConsumeQuota, Inv, CallsHold
<1>2. c \in Times /\ grant[r].quota \in Quotas /\ offered[c] \in Quotas
      /\ NoMoreThan(grant[r].quota, offered[c])
  BY <1>1 DEF Grants, Inv, TypeOK, GrantsOffered
<1>3. used[c] \in Int
  BY <1>2, RelaysAssumption DEF Inv, TypeOK
<1>4. CASE ~Fits(grant[r].quota, used[c] + 1 - 1, 1)
  <2>1. Refused(r)
    BY <1>3, <1>4 DEF ConsumeQuota
  <2>2. spent' = spent
    BY <1>1, <2>1 DEF Refused, Finish, Inv, TypeOK
  <2> QED
    BY <2>1, <2>2, LedgerStutters DEF Refused
<1>5. CASE Fits(grant[r].quota, used[c] + 1 - 1, 1)
  <2>1. /\ used' = [used EXCEPT ![c] = used[c] + 1]
        /\ spent' = [spent EXCEPT ![r] = c] /\ offered' = offered
    BY <1>3, <1>5 DEF ConsumeQuota
  <2>2. Open' = [Open EXCEPT ![c] = Open[c] + 1]
    <3>1. \A d \in Times : Cardinality(InFlight(d)') =
            IF d = c THEN Cardinality(InFlight(d)) + 1 ELSE Cardinality(InFlight(d))
      BY <1>1, <1>2, <2>1, SpendCounts DEF Inv, TypeOK
    <3> QED
      BY <1>2, <3>1 DEF Open
  <2>3. Ledger!Within(used[c] + 1, offered[c])
    <3>1. grant[r].quota \in Nat \union {Null} /\ offered[c] \in Nat \union {Null}
      BY <1>2, QuotaType
    <3>2. grant[r].quota = Null \/ used[c] + 1 <= grant[r].quota
      BY <1>3, <1>5, <3>1 DEF Fits, Null
    <3>3. offered[c] = Null \/ used[c] + 1 <= offered[c]
      BY <1>2, <1>3, <3>1, <3>2 DEF NoMoreThan, Null
    <3> QED
      BY <3>3 DEF Ledger!Within
  <2>4. Ledger!Spend(c)
    BY <2>1, <2>2, <2>3 DEF Ledger!Spend, Open
  <2> QED
    BY <1>2, <2>4 DEF Ledger!Next
<1> QED
  BY <1>4, <1>5

LEMMA ComputeLedger ==
  ASSUME Inv, NEW r \in Calls, ComputeGrants(r)
  PROVE  Ledger!Next \/ UNCHANGED Ledger!vars
<1> DEFINE g == GrantOf(read[r], now)
           c == g.counter
<1>1. g \in Grants /\ c \in Times /\ g.quota \in Quotas
  BY GrantType DEF Grants, Inv, TypeOK
<1>2. /\ offered' = [offered EXCEPT ![c] = Larger(offered[c], g.quota)]
      /\ UNCHANGED <<used, spent>>
  BY DEF ComputeGrants
<1> HIDE DEF g
<1>3. offered \in [Times -> Quotas] /\ offered[c] \in Quotas
  BY <1>1 DEF Inv, TypeOK
<1>4. CASE Larger(offered[c], g.quota) = offered[c]
  <2>1. offered' = offered
    BY <1>1, <1>2, <1>3, <1>4
  <2> QED
    BY <1>2, <2>1, LedgerStutters
<1>5. CASE Larger(offered[c], g.quota) # offered[c]
  <2>1. /\ Larger(offered[c], g.quota) = g.quota
        /\ g.quota = Null \/ (offered[c] # Null /\ offered[c] < g.quota)
    BY <1>1, <1>3, <1>5, QuotaType DEF Larger, Null
  <2>2. [d \in Times |-> Cardinality(InFlight(d))]' = [d \in Times |-> Cardinality(InFlight(d))]
    BY <1>2 DEF InFlight
  <2>3. Ledger!Grant(c, g.quota)
    BY <1>2, <2>1, <2>2 DEF Ledger!Grant
  <2> QED
    BY <1>1, <2>3 DEF Ledger!Next
<1> QED
  BY <1>4, <1>5

LEMMA LedgerStep == Inv /\ [Next]_vars => [Ledger!Next]_Ledger!vars
<1> SUFFICES ASSUME Inv, [Next]_vars PROVE Ledger!Next \/ UNCHANGED Ledger!vars
  OBVIOUS
<1> USE DEF cache, calls
<1>1. ASSUME NEW r \in Calls,
             ServeCached(r) \/ Miss(r) \/ Store(r) \/ RelayFails(r)
      PROVE  UNCHANGED Ledger!vars
  <2>1. UNCHANGED <<used, spent, offered>>
    BY <1>1 DEF ServeCached, Miss, Store, RelayFails
  <2> QED
    BY <2>1, LedgerStutters
<1>2. ASSUME NEW r \in Calls, AssertWithinQuota(r) \/ Fail(r)
      PROVE  UNCHANGED Ledger!vars
  <2>1. spent[r] = Null
    BY <1>2 DEF AssertWithinQuota, Fail, Inv, CallsHold
  <2>2. UNCHANGED <<used, spent, offered>>
    BY <1>2, <2>1 DEF AssertWithinQuota, Fail, Refused, Finish, Inv, TypeOK
  <2> QED
    BY <2>2, LedgerStutters
<1>3. ASSUME NEW r \in Calls, ComputeGrants(r)
      PROVE  Ledger!Next \/ UNCHANGED Ledger!vars
  BY <1>3, ComputeLedger
<1>4. ASSUME NEW r \in Calls, ConsumeQuota(r)
      PROVE  Ledger!Next \/ UNCHANGED Ledger!vars
  BY <1>4, ConsumeLedger
<1>5. ASSUME NEW r \in Calls, Submitted(r) \/ Die(r) \/ RefundFails(r)
      PROVE  Ledger!Next
  <2>1. Keep(r) /\ spent[r] # Null
    BY <1>5 DEF Submitted, Die, RefundFails, Inv, CallsHold
  <2> QED
    BY <2>1, KeepLedger
<1>6. ASSUME NEW r \in Calls, Refund(r) PROVE Ledger!Next
  BY <1>6, RefundLedger
<1>7. CASE Materialize \/ Unlink \/ Stamp \/ PurgeDies \/ Tick \/ UNCHANGED vars
  <2>1. UNCHANGED <<used, spent, offered>>
    BY <1>7 DEF Materialize, Unlink, Stamp, PurgeDies, Tick, vars
  <2> QED
    BY <2>1, LedgerStutters
<1> QED
  BY <1>1, <1>2, <1>3, <1>4, <1>5, <1>6, <1>7 DEF Next

LEMMA LedgerInit == Init => Ledger!Init
<1> SUFFICES ASSUME Init PROVE Ledger!Init
  OBVIOUS
<1>1. \A c \in Times : InFlight(c) = {}
  BY DEF Init, InFlight, Times, Null
<1>2. [c \in Times |-> Cardinality(InFlight(c))] = [c \in Times |-> 0]
  BY <1>1, FS_EmptySet
<1> QED
  BY <1>2 DEF Init, Ledger!Init

\* The counters are the ledger that IEntitlementEnforcement promises: a spend is
\* opened within the allowance, and kept or given back once, where it was taken.
THEOREM LedgerIsKept == Spec => ImplementsLedger
<1>1. Inv /\ [Next]_vars => [Ledger!Next]_Ledger!vars
  BY LedgerStep
<1> QED
  BY <1>1, LedgerInit, Invariance, PTL DEF Spec, Ledger!Spec, ImplementsLedger
=============================================================================
