--------------------------- MODULE SafeSeats_proofs ---------------------------
(***************************************************************************)
(* Proofs about SafeSeats, for any finite set of Safes, any requests, any  *)
(* plans and any bounds.                                                   *)
(***************************************************************************)
EXTENDS SafeSeats, FiniteSetTheorems, TLAPS

\* What an addition knows under the lock still holds: the seats it counted are
\* not exceeded, and once admitted what it adds fits what it was granted.
AdditionsKnow ==
  \A p \in Adders :
    /\ pc[p] \in {"counted", "admitted"} => lock = p
    /\ pc[p] = "counted" => Seats <= used[p]
    /\ pc[p] = "admitted" =>
         Fits(allowance[p], Cardinality(Addresses(Held \union wanted[p])))
    /\ allowance[p] \in granted

\* A choice that is under way fits as well, unless Safes were added.
ChoicesFit ==
  \A b \in Buyers : choice[b].made /\ choice[b].offer # Unstated /\ ~choice[b].grown
                    => Fits(choice[b].offer, Seats)

Inv == /\ TypeOK /\ AdditionsKnow /\ ChoicesFit
       /\ WithinGranted /\ ChosenPlanFits /\ NoPhantomSafes

-----------------------------------------------------------------------------
\* The addresses of finitely many Safes are finite, and grow with the Safes.
LEMMA AddressesOf ==
  ASSUME NEW S \in SUBSET Slots, NEW T \in SUBSET S
  PROVE  /\ IsFiniteSet(Addresses(S)) /\ Cardinality(Addresses(S)) \in Nat
         /\ Addresses(T) \subseteq Addresses(S)
         /\ Cardinality(Addresses(T)) \in Nat
         /\ Cardinality(Addresses(T)) <= Cardinality(Addresses(S))
<1> DEFINE f == [s \in S |-> s.address]
<1>1. IsFiniteSet(S)
  BY FS_Subset, SeatsAssumption
<1>2. f \in Surjection(S, Addresses(S))
  BY DEF Surjection, Addresses
<1>3. IsFiniteSet(Addresses(S))
  BY <1>1, <1>2, FS_Surjection
<1>4. Addresses(T) \in SUBSET Addresses(S)
  BY DEF Addresses
<1>5. IsFiniteSet(Addresses(T)) /\ Cardinality(Addresses(T)) <= Cardinality(Addresses(S))
  BY <1>3, <1>4, FS_Subset
<1> QED
  BY <1>3, <1>4, <1>5, FS_CardinalityType

\* What fits a quota fits it with fewer Safes.
LEMMA FitsFewer ==
  ASSUME NEW S \in SUBSET Slots, NEW T \in SUBSET S, NEW quota \in SeatQuotas,
         Fits(quota, Cardinality(Addresses(S)))
  PROVE  Fits(quota, Cardinality(Addresses(T)))
<1>1. /\ Cardinality(Addresses(T)) <= Cardinality(Addresses(S))
      /\ Cardinality(Addresses(S)) \in Nat /\ Cardinality(Addresses(T)) \in Nat
  BY AddressesOf
<1> QED
  BY <1>1, SeatsAssumption DEF Fits, Null

\* The seats that a payload brings, beside those there are.
LEMMA SeatsTogether ==
  ASSUME NEW S \in SUBSET Slots, NEW T \in SUBSET Slots
  PROVE  /\ Cardinality(Addresses(T) \ Addresses(S)) \in Nat
         /\ Cardinality(Addresses(S \union T))
              = Cardinality(Addresses(S)) + Cardinality(Addresses(T) \ Addresses(S))
<1> DEFINE A == Addresses(S)
           B == Addresses(T) \ Addresses(S)
<1>1. IsFiniteSet(A) /\ IsFiniteSet(Addresses(T)) /\ Cardinality(A) \in Nat
  BY AddressesOf
<1>2. IsFiniteSet(B)
  <2>1. B \in SUBSET Addresses(T)
    OBVIOUS
  <2> QED
    BY <1>1, <2>1, FS_Subset
<1>3. Addresses(S \union T) = A \union B
  BY DEF Addresses
<1>4. A \intersect B = {}
  OBVIOUS
<1>5. Cardinality(A \union B) = Cardinality(A) + Cardinality(B) - Cardinality(A \intersect B)
  BY <1>1, <1>2, FS_Union
<1>6. Cardinality(A \intersect B) = 0
  BY <1>4, FS_EmptySet
<1>7. Cardinality(B) \in Nat
  BY <1>2, FS_CardinalityType
<1>8. Cardinality(A \union B) = Cardinality(A) + Cardinality(B)
  BY <1>1, <1>5, <1>6, <1>7
<1> QED
  BY <1>3, <1>7, <1>8

\* Whatever a plan offers, a quota is in force, and what passes the check fits it if
\* the plan says what it is.
LEMMA OffersAre ==
  ASSUME NEW offer \in Offers
  PROVE  /\ SeatsOf(offer) \in SeatQuotas
         /\ offer # Unstated => SeatsOf(offer) = offer /\ offer \in SeatQuotas
         /\ \A n : (offer = Null \/ n <= offer) => Fits(offer, n)
BY SeatsAssumption DEF Offers, SeatsOf, Fits

LEMMA HeldType == TypeOK => Held \in SUBSET Slots /\ Seats \in Nat
<1>1. Held \in SUBSET Slots
  BY DEF Held
<1> QED
  BY <1>1, AddressesOf DEF Seats

-----------------------------------------------------------------------------
\* Type correctness of the initial states, and everything else of them.
LEMMA InitInv == Init => Inv
<1> SUFFICES ASSUME Init PROVE Inv
  OBVIOUS
<1> USE SeatsAssumption DEF Init
<1>1. Held = {}
  BY DEF Held, NoRows
<1>2. Seats = 0
  <2>1. Addresses(Held) = {}
    BY <1>1 DEF Addresses
  <2> QED
    BY <2>1, FS_EmptySet DEF Seats
<1>3. TypeOK
  <2>1. NoRows \in [Slots -> 0 .. MaxInserts] /\ \A s \in Slots : NoRows[s] <= 0
    BY DEF NoRows
  <2>2. plan \in Plans /\ {FreeSeats, plan.seats} \subseteq granted
    BY DEF Plans
  <2>3. choice \in [Buyers -> [made : BOOLEAN, offer : Offers, grown : BOOLEAN]]
    BY DEF NoChoice, Offers
  <2> QED
    BY <2>1, <2>2, <2>3 DEF TypeOK
<1>4. AdditionsKnow
  BY DEF AdditionsKnow
<1>5. ChoicesFit /\ ChosenPlanFits
  BY DEF ChoicesFit, ChosenPlanFits, NoChoice
<1>6. WithinGranted
  BY <1>2 DEF WithinGranted, Fits, Null
<1>7. NoPhantomSafes
  BY DEF NoPhantomSafes
<1> QED
  BY <1>3, <1>4, <1>5, <1>6, <1>7 DEF Inv

\* Every step keeps every variable in its type.
LEMMA TypeStep == TypeOK /\ [Next]_vars => TypeOK'
<1> SUFFICES ASSUME TypeOK, [Next]_vars PROVE TypeOK'
  OBVIOUS
<1> USE SeatsAssumption DEF TypeOK, Plans, NoRows, NoChoice, plans, adds
<1>0. Seats \in Nat
  BY HeldType
<1>1. ASSUME NEW p \in Adders, Resolve(p) PROVE TypeOK'
  BY <1>1 DEF Resolve
<1>2. ASSUME NEW p \in Adders, LockAndCount(p) PROVE TypeOK'
  BY <1>0, <1>2 DEF LockAndCount
<1>3. ASSUME NEW p \in Adders, Admit(p) PROVE TypeOK'
  <2>1. UNCHANGED <<space, rows, inserts, plan, granted, moves, choice, found, trail>>
    BY <1>3 DEF Admit
  <2>2. CASE pc' = [pc EXCEPT ![p] = "admitted"] /\ used' = [used EXCEPT ![p] = 0]
             /\ UNCHANGED <<wanted, allowance, lock>>
    <3>1. \A r \in Adders : pc'[r] \in {"counted", "admitted"} => lock' = r
      BY <1>3, <2>2 DEF Admit
    <3> QED
      BY <2>1, <2>2, <3>1
  <2>3. CASE End(p)
    BY <2>1, <2>3 DEF End
  <2> QED
    BY <1>3, <2>2, <2>3 DEF Admit
<1>4. ASSUME NEW p \in Adders, InsertRows(p) PROVE TypeOK'
  <2>1. inserts' \in 0 .. MaxInserts /\ rows' \in [Slots -> 0 .. MaxInserts]
    BY <1>4 DEF InsertRows
  <2>2. \A s \in Slots : rows'[s] <= inserts'
    BY <1>4 DEF InsertRows
  <2>3. /\ pc' \in [Adders -> {"idle", "resolved", "counted", "admitted"}]
        /\ wanted' \in [Adders -> SUBSET Slots] /\ allowance' \in [Adders -> SeatQuotas]
        /\ used' \in [Adders -> Nat] /\ lock' \in Adders \union {"nobody"}
    BY <1>4 DEF InsertRows, End
  <2>7. \A r \in Adders : pc'[r] \in {"counted", "admitted"} => lock' = r
    BY <1>4 DEF InsertRows, End
  <2>4. plan' \in Plans /\ plan'.seats = plan.seats
    <3>1. Grows(p) \in BOOLEAN
      BY DEF Grows
    <3> QED
      BY <1>4, <3>1 DEF InsertRows
  <2>5. choice' \in [Buyers -> [made : BOOLEAN, offer : Offers, grown : BOOLEAN]]
    <3>1. ASSUME NEW b \in Buyers
          PROVE  [choice[b] EXCEPT !.grown = /\ choice[b].made /\ choice[b].offer # Unstated
                                             /\ choice[b].grown \/ Grows(p)]
                   \in [made : BOOLEAN, offer : Offers, grown : BOOLEAN]
      <4> DEFINE c == choice[b]
                 g == c.made /\ c.offer # Unstated /\ (c.grown \/ Grows(p))
      <4>1. c \in [made : BOOLEAN, offer : Offers, grown : BOOLEAN] /\ g \in BOOLEAN
        OBVIOUS
      <4>2. [c EXCEPT !.grown = g] \in [made : BOOLEAN, offer : Offers, grown : BOOLEAN]
        <5> HIDE DEF c, g
        <5> QED
          BY <4>1
      <4> QED
        BY <4>2
    <3> QED
      BY <1>4, <3>1 DEF InsertRows
  <2>6. trail' \in SUBSET Slots
    BY <1>4 DEF InsertRows
  <2> QED
    BY <1>4, <2>1, <2>2, <2>3, <2>4, <2>5, <2>6, <2>7, Zenon DEF InsertRows
<1>5. ASSUME NEW p \in Adders, RollBack(p) PROVE TypeOK'
  BY <1>5 DEF RollBack, End
<1>6. ASSUME NEW q \in Removers, FindRows(q) PROVE TypeOK'
  BY <1>6 DEF FindRows
<1>7. ASSUME NEW q \in Removers, RemoveRows(q) PROVE TypeOK'
  BY <1>7 DEF RemoveRows
<1>8. ASSUME NEW q \in Removers, RemovalFails(q) PROVE TypeOK'
  BY <1>8 DEF RemovalFails
<1>9. ASSUME NEW b \in Buyers, NEW offer \in Offers, AssertSafeSeatCapacity(b, offer)
      PROVE  TypeOK'
  BY <1>9 DEF AssertSafeSeatCapacity
<1>10. ASSUME NEW b \in Buyers, Forgo(b) PROVE TypeOK'
  BY <1>10 DEF Forgo, Offers
<1>11. ASSUME NEW b \in Buyers, Materialize(b) PROVE TypeOK'
  <2>1. choice[b].offer \in Offers /\ choice[b].grown \in BOOLEAN
    OBVIOUS
  <2>2. SeatsOf(choice[b].offer) \in SeatQuotas
    BY <2>1, OffersAre
  <2>3. NoChoice \in [made : BOOLEAN, offer : Offers, grown : BOOLEAN]
    BY DEF Offers
  <2>4. plan' \in Plans /\ {FreeSeats, plan'.seats} \subseteq granted'
        /\ granted' \subseteq SeatQuotas
    BY <1>11, <2>1, <2>2 DEF Materialize
  <2>5. choice' \in [Buyers -> [made : BOOLEAN, offer : Offers, grown : BOOLEAN]]
    BY <1>11, <2>3 DEF Materialize
  <2> QED
    BY <1>11, <2>4, <2>5 DEF Materialize
<1>12. CASE MovePlan
  BY <1>12 DEF MovePlan
<1>13. CASE DeleteSpace
  BY <1>13 DEF DeleteSpace
<1>14. CASE UNCHANGED vars
  BY <1>14 DEF vars
<1> QED
  BY <1>1, <1>2, <1>3, <1>4, <1>5, <1>6, <1>7, <1>8, <1>9, <1>10, <1>11, <1>12, <1>13,
     <1>14 DEF Next

-----------------------------------------------------------------------------
\* Steps that only take Safes away, and leave plans, choices and additions alone,
\* keep what is known of the seats.
LEMMA FewerSafes ==
  ASSUME Inv, TypeOK', Held' \subseteq Held, UNCHANGED <<plans, adds>>
  PROVE  /\ AdditionsKnow' /\ ChoicesFit' /\ WithinGranted' /\ ChosenPlanFits'
<1> USE DEF Inv
<1>0. UNCHANGED <<plan, granted, choice, lock, pc, wanted, allowance, used>>
  BY DEF plans, adds
<1>1. Held \in SUBSET Slots /\ Held' \in SUBSET Held /\ Seats \in Nat /\ Seats' \in Nat
  BY HeldType, AddressesOf DEF Seats
<1>2. Seats' <= Seats
  BY <1>1, AddressesOf DEF Seats
<1>3. ASSUME NEW quota \in SeatQuotas, Fits(quota, Seats) PROVE Fits(quota, Seats')
  BY <1>1, <1>3, FitsFewer DEF Seats
<1>4. AdditionsKnow'
  <2> SUFFICES ASSUME NEW p \in Adders
               PROVE  /\ pc[p] \in {"counted", "admitted"} => lock = p
                      /\ pc[p] = "counted" => Seats' <= used[p]
                      /\ pc[p] = "admitted" =>
                           Fits(allowance[p], Cardinality(Addresses(Held' \union wanted[p])))
                      /\ allowance[p] \in granted
    BY <1>0 DEF AdditionsKnow
  <2>1. pc[p] = "counted" => Seats' <= used[p]
    <3>1. used[p] \in Nat /\ (pc[p] = "counted" => Seats <= used[p])
      BY DEF AdditionsKnow, TypeOK
    <3> QED
      BY <1>1, <1>2, <3>1
  <2>2. ASSUME pc[p] = "admitted"
        PROVE  Fits(allowance[p], Cardinality(Addresses(Held' \union wanted[p])))
    <3>1. Held \union wanted[p] \in SUBSET Slots
      BY <1>1 DEF TypeOK
    <3>2. Held' \union wanted[p] \in SUBSET (Held \union wanted[p])
      BY <1>1
    <3>3. /\ allowance[p] \in SeatQuotas
          /\ Fits(allowance[p], Cardinality(Addresses(Held \union wanted[p])))
      BY <2>2 DEF AdditionsKnow, TypeOK
    <3> QED
      BY <3>1, <3>2, <3>3, FitsFewer
  <2> QED
    BY <2>1, <2>2 DEF AdditionsKnow
<1>5. ChoicesFit'
  <2> SUFFICES ASSUME NEW b \in Buyers, choice[b].made, choice[b].offer # Unstated,
                      ~choice[b].grown
               PROVE  Fits(choice[b].offer, Seats')
    BY <1>0 DEF ChoicesFit
  <2>1. choice[b].offer \in SeatQuotas
    BY OffersAre DEF TypeOK
  <2> QED
    BY <1>3, <2>1 DEF ChoicesFit
<1>6. WithinGranted'
  BY <1>0, <1>3 DEF WithinGranted, TypeOK
<1>7. ChosenPlanFits'
  BY <1>0, <1>3 DEF ChosenPlanFits, TypeOK, Plans
<1> QED
  BY <1>4, <1>5, <1>6, <1>7

\* Steps that leave the rows and the log alone do so to what is known of them.
LEMMA SameSafes ==
  ASSUME Inv, UNCHANGED <<rows, space, trail>>
  PROVE  Held' = Held /\ Seats' = Seats /\ NoPhantomSafes'
<1>1. Held' = Held
  BY DEF Held
<1> QED
  BY <1>1 DEF Seats, Inv, NoPhantomSafes

\* The step that adds Safes: the one that counted them under the lock.
LEMMA InsertStep ==
  ASSUME Inv, TypeOK', NEW p \in Adders, InsertRows(p)
  PROVE  Inv'
<1> USE DEF Inv
<1>1. Held \in SUBSET Slots /\ wanted[p] \in SUBSET Slots /\ Seats \in Nat
  BY HeldType DEF TypeOK
<1>2. Held' = Held \union wanted[p]
  <2>1. inserts' # 0
    BY DEF InsertRows, TypeOK
  <2>2. \A s \in Slots : rows'[s] = IF s \in wanted[p] THEN inserts' ELSE rows[s]
    BY DEF InsertRows
  <2> QED
    BY <1>1, <2>1, <2>2 DEF Held
<1>3. lock = p /\ pc[p] = "admitted"
  BY DEF InsertRows, AdditionsKnow
<1>4. Fits(allowance[p], Seats') /\ allowance[p] \in granted
  BY <1>2, <1>3 DEF AdditionsKnow, Seats
<1>5. granted' = granted
  BY DEF InsertRows
<1>6. AdditionsKnow'
  <2>1. lock' = "nobody"
    BY <1>3 DEF InsertRows, End
  <2>2. \A r \in Adders : pc'[r] \notin {"counted", "admitted"}
    BY <1>3 DEF InsertRows, End, AdditionsKnow, TypeOK
  <2>3. \A r \in Adders : allowance'[r] \in granted
    <3>1. FreeSeats \in granted
      BY DEF TypeOK
    <3> QED
      BY <3>1 DEF InsertRows, End, AdditionsKnow, TypeOK
  <2> QED
    BY <1>5, <2>2, <2>3 DEF AdditionsKnow
<1>7. ~Grows(p) => Seats' = Seats
  <2> HAVE ~Grows(p)
  <2>1. Addresses(Held \union wanted[p]) = Addresses(Held)
    BY DEF Grows, Addresses
  <2> QED
    BY <1>2, <2>1 DEF Seats
<1>8. ChoicesFit'
  <2> SUFFICES ASSUME NEW b \in Buyers, choice'[b].made, choice'[b].offer # Unstated,
                      ~choice'[b].grown
               PROVE  Fits(choice'[b].offer, Seats')
    BY DEF ChoicesFit
  <2>1. /\ choice[b] \in [made : BOOLEAN, offer : Offers, grown : BOOLEAN]
        /\ choice'[b] = [choice[b] EXCEPT !.grown =
             choice[b].made /\ choice[b].offer # Unstated /\ (choice[b].grown \/ Grows(p))]
    BY DEF InsertRows, TypeOK
  <2>2. /\ choice[b].made /\ choice[b].offer # Unstated
        /\ ~choice[b].grown /\ ~Grows(p) /\ choice'[b].offer = choice[b].offer
    BY <2>1 DEF Grows
  <2> QED
    BY <1>7, <2>2 DEF ChoicesFit
<1>9. ChosenPlanFits'
  <2> SUFFICES ASSUME plan'.checked, ~plan'.grown PROVE Fits(plan'.seats, Seats')
    BY DEF ChosenPlanFits
  <2>1. /\ plan \in Plans
        /\ plan' = [plan EXCEPT !.grown = plan.checked /\ (plan.grown \/ Grows(p))]
    BY DEF InsertRows, TypeOK
  <2>2. plan.checked /\ ~plan.grown /\ ~Grows(p) /\ plan'.seats = plan.seats
    BY <2>1 DEF Grows, Plans
  <2> QED
    BY <1>7, <2>2 DEF ChosenPlanFits
<1>10. WithinGranted'
  BY <1>4, <1>5 DEF WithinGranted
<1>11. NoPhantomSafes'
  BY <1>2 DEF InsertRows, NoPhantomSafes
<1> QED
  BY <1>6, <1>8, <1>9, <1>10, <1>11

\* The two counts of an addition bound the seats it leads to.
LEMMA AdmitStep ==
  ASSUME Inv, TypeOK', NEW p \in Adders, Admit(p)
  PROVE  Inv'
<1> USE DEF Inv
<1>1. UNCHANGED <<rows, space, trail, plan, granted, choice>>
  BY DEF Admit, plans
<1>2. Held' = Held /\ Seats' = Seats /\ NoPhantomSafes'
  BY <1>1, SameSafes
<1>3. ChoicesFit' /\ ChosenPlanFits' /\ WithinGranted'
  BY <1>1, <1>2 DEF ChoicesFit, ChosenPlanFits, WithinGranted
<1>4. AdditionsKnow'
  <2>1. CASE /\ Fits(allowance[p], used[p] + NewSeats(p))
             /\ pc' = [pc EXCEPT ![p] = "admitted"]
             /\ used' = [used EXCEPT ![p] = 0]
             /\ UNCHANGED <<wanted, allowance, lock>>
    <3>1. Fits(allowance[p], Cardinality(Addresses(Held \union wanted[p])))
      <4>1. Held \in SUBSET Slots /\ wanted[p] \in SUBSET Slots /\ Seats \in Nat
        BY HeldType DEF TypeOK
      <4>2. Cardinality(Addresses(Held \union wanted[p])) = Seats + NewSeats(p)
            /\ NewSeats(p) \in Nat
        BY <4>1, SeatsTogether DEF Seats, NewSeats
      <4>3. Seats <= used[p] /\ used[p] \in Nat /\ allowance[p] \in SeatQuotas
        BY DEF Admit, AdditionsKnow, TypeOK
      <4> QED
        BY <2>1, <4>1, <4>2, <4>3, SeatsAssumption DEF Fits, Null
    <3> SUFFICES ASSUME NEW r \in Adders
                 PROVE  /\ pc'[r] \in {"counted", "admitted"} => lock = r
                        /\ pc'[r] = "counted" => Seats <= used'[r]
                        /\ pc'[r] = "admitted" =>
                             Fits(allowance[r], Cardinality(Addresses(Held \union wanted[r])))
                        /\ allowance[r] \in granted
      BY <1>1, <1>2, <2>1 DEF AdditionsKnow
    <3>2. CASE r = p
      BY <2>1, <3>1, <3>2 DEF Admit, AdditionsKnow, TypeOK
    <3>3. CASE r # p
      BY <2>1, <3>3 DEF AdditionsKnow, TypeOK
    <3> QED
      BY <3>2, <3>3
  <2>2. CASE End(p)
    <3>1. FreeSeats \in granted
      BY DEF TypeOK
    <3> QED
      BY <1>1, <1>2, <2>2, <3>1 DEF End, AdditionsKnow, TypeOK
  <2> QED
    BY <2>1, <2>2 DEF Admit
<1> QED
  BY <1>2, <1>3, <1>4

-----------------------------------------------------------------------------
\* Every step keeps the invariant.
LEMMA InvStep == Inv /\ [Next]_vars => Inv'
<1> SUFFICES ASSUME Inv, [Next]_vars PROVE Inv'
  OBVIOUS
<1>0. TypeOK'
  BY TypeStep DEF Inv
<1> USE DEF Inv
<1>1. ASSUME NEW p \in Adders, Resolve(p) PROVE Inv'
  <2>1. Held' = Held /\ Seats' = Seats /\ NoPhantomSafes'
    BY <1>1, SameSafes DEF Resolve
  <2>2. UNCHANGED <<plan, granted, choice>>
    BY <1>1 DEF Resolve, plans
  <2>3. ChoicesFit' /\ ChosenPlanFits' /\ WithinGranted'
    BY <2>1, <2>2 DEF ChoicesFit, ChosenPlanFits, WithinGranted
  <2>4. AdditionsKnow'
    BY <1>1, <2>1, <2>2 DEF Resolve, AdditionsKnow, TypeOK
  <2> QED
    BY <1>0, <2>1, <2>3, <2>4
<1>2. ASSUME NEW p \in Adders, LockAndCount(p) PROVE Inv'
  <2>1. Held' = Held /\ Seats' = Seats /\ NoPhantomSafes' /\ Seats \in Nat
    BY <1>2, SameSafes, HeldType DEF LockAndCount
  <2>2. UNCHANGED <<plan, granted, choice>>
    BY <1>2 DEF LockAndCount, plans
  <2>3. ChoicesFit' /\ ChosenPlanFits' /\ WithinGranted'
    BY <2>1, <2>2 DEF ChoicesFit, ChosenPlanFits, WithinGranted
  <2>4. AdditionsKnow'
    <3>1. \A r \in Adders : pc[r] \notin {"counted", "admitted"}
      BY <1>2, SeatsAssumption DEF LockAndCount, AdditionsKnow
    <3>2. \A r \in Adders : pc'[r] # "admitted" /\ (pc'[r] = "counted" => r = p)
      BY <1>2, <3>1 DEF LockAndCount, TypeOK
    <3>3. lock' = p /\ used'[p] = Seats /\ allowance' = allowance
      BY <1>2 DEF LockAndCount, TypeOK
    <3>4. \A r \in Adders : pc'[r] = "counted" => Seats' <= used'[r]
      BY <2>1, <3>2, <3>3
    <3> QED
      BY <2>2, <3>2, <3>3, <3>4 DEF AdditionsKnow
  <2> QED
    BY <1>0, <2>1, <2>3, <2>4
<1>3. ASSUME NEW p \in Adders, Admit(p) PROVE Inv'
  BY <1>0, <1>3, AdmitStep
<1>4. ASSUME NEW p \in Adders, InsertRows(p) PROVE Inv'
  BY <1>0, <1>4, InsertStep
<1>5. ASSUME NEW p \in Adders, RollBack(p) PROVE Inv'
  <2>1. Held' = Held /\ Seats' = Seats /\ NoPhantomSafes'
    BY <1>5, SameSafes DEF RollBack
  <2>2. UNCHANGED <<plan, granted, choice>>
    BY <1>5 DEF RollBack, plans
  <2>3. ChoicesFit' /\ ChosenPlanFits' /\ WithinGranted'
    BY <2>1, <2>2 DEF ChoicesFit, ChosenPlanFits, WithinGranted
  <2>4. AdditionsKnow'
    <3>1. FreeSeats \in granted
      BY DEF TypeOK
    <3> QED
      BY <1>5, <2>1, <2>2, <3>1 DEF RollBack, End, AdditionsKnow, TypeOK
  <2> QED
    BY <1>0, <2>1, <2>3, <2>4
<1>6. ASSUME NEW q \in Removers, FindRows(q) \/ RemovalFails(q) PROVE Inv'
  <2>1. UNCHANGED <<rows, space, trail, plans, adds>>
    BY <1>6 DEF FindRows, RemovalFails
  <2>2. Held' = Held /\ NoPhantomSafes'
    BY <2>1, SameSafes
  <2> QED
    BY <1>0, <2>1, <2>2, FewerSafes
<1>7. ASSUME NEW q \in Removers, RemoveRows(q) PROVE Inv'
  <2>1. Held' \subseteq Held
    BY <1>7 DEF RemoveRows, Held
  <2>2. NoPhantomSafes'
    <3> SUFFICES ASSUME NEW s \in trail' PROVE s \in Held'
      BY DEF NoPhantomSafes
    <3>1. space = "live" /\ s \in trail /\ found[q][s] = 0
      BY <1>7 DEF RemoveRows
    <3>2. s \in Slots /\ rows[s] # 0
      BY <3>1 DEF NoPhantomSafes, Held
    <3> QED
      BY <1>7, <3>1, <3>2 DEF RemoveRows, Held
  <2>3. UNCHANGED <<plans, adds>>
    BY <1>7 DEF RemoveRows
  <2> QED
    BY <1>0, <2>1, <2>2, <2>3, FewerSafes
<1>8. ASSUME NEW b \in Buyers, NEW offer \in Offers, AssertSafeSeatCapacity(b, offer)
      PROVE  Inv'
  <2>1. Held' = Held /\ Seats' = Seats /\ NoPhantomSafes'
    BY <1>8, SameSafes DEF AssertSafeSeatCapacity
  <2>2. ChosenPlanFits' /\ WithinGranted' /\ AdditionsKnow'
    BY <1>8, <2>1 DEF AssertSafeSeatCapacity, ChosenPlanFits, WithinGranted, AdditionsKnow, adds
  <2>3. ChoicesFit'
    <3>1. offer \in {Null, Unstated} \/ Seats <= offer
      BY <1>8 DEF AssertSafeSeatCapacity
    <3>2. offer # Unstated => Fits(offer, Seats')
      BY <2>1, <3>1, OffersAre
    <3>3. /\ choice'[b].offer = offer
          /\ \A c \in Buyers \ {b} : choice'[c] = choice[c]
      BY <1>8 DEF AssertSafeSeatCapacity, TypeOK
    <3> QED
      BY <2>1, <3>2, <3>3 DEF ChoicesFit
  <2> QED
    BY <1>0, <2>1, <2>2, <2>3
<1>9. ASSUME NEW b \in Buyers, Forgo(b) PROVE Inv'
  <2>1. Held' = Held /\ Seats' = Seats /\ NoPhantomSafes'
    BY <1>9, SameSafes DEF Forgo
  <2>2. ChosenPlanFits' /\ WithinGranted' /\ AdditionsKnow'
    BY <1>9, <2>1 DEF Forgo, ChosenPlanFits, WithinGranted, AdditionsKnow, adds
  <2>3. ChoicesFit'
    BY <1>9, <2>1 DEF Forgo, ChoicesFit, NoChoice, TypeOK
  <2> QED
    BY <1>0, <2>1, <2>2, <2>3
<1>10. ASSUME NEW b \in Buyers, Materialize(b) PROVE Inv'
  <2>1. Held' = Held /\ Seats' = Seats /\ NoPhantomSafes'
    BY <1>10, SameSafes DEF Materialize
  <2>2. granted \subseteq granted'
    BY <1>10 DEF Materialize
  <2>3. WithinGranted' /\ AdditionsKnow'
    BY <1>10, <2>1, <2>2 DEF Materialize, WithinGranted, AdditionsKnow, adds
  <2>4. ChosenPlanFits'
    <3> SUFFICES ASSUME plan'.checked, ~plan'.grown PROVE Fits(plan'.seats, Seats')
      BY DEF ChosenPlanFits
    <3>1. choice[b].offer \in Offers
      BY DEF TypeOK
    <3>2. /\ choice[b].made /\ choice[b].offer # Unstated /\ ~choice[b].grown
          /\ plan'.seats = SeatsOf(choice[b].offer)
      BY <1>10 DEF Materialize
    <3> QED
      BY <2>1, <3>1, <3>2, OffersAre DEF ChoicesFit
  <2>5. ChoicesFit'
    BY <1>10, <2>1 DEF Materialize, ChoicesFit, NoChoice, TypeOK
  <2> QED
    BY <1>0, <2>1, <2>3, <2>4, <2>5
<1>11. CASE MovePlan
  <2>1. Held' = Held /\ Seats' = Seats /\ NoPhantomSafes'
    BY <1>11, SameSafes DEF MovePlan
  <2>2. granted \subseteq granted' /\ ~plan'.checked
    BY <1>11 DEF MovePlan
  <2>3. WithinGranted' /\ AdditionsKnow' /\ ChosenPlanFits' /\ ChoicesFit'
    BY <1>11, <2>1, <2>2
    DEF MovePlan, WithinGranted, AdditionsKnow, ChosenPlanFits, ChoicesFit, adds
  <2> QED
    BY <1>0, <2>1, <2>3
<1>12. CASE DeleteSpace
  <2>1. Held' \subseteq Held
    BY <1>12 DEF DeleteSpace, Held, NoRows
  <2>2. NoPhantomSafes'
    BY <1>12 DEF DeleteSpace, NoPhantomSafes
  <2>3. UNCHANGED <<plans, adds>>
    BY <1>12 DEF DeleteSpace
  <2> QED
    BY <1>0, <2>1, <2>2, <2>3, FewerSafes
<1>13. CASE UNCHANGED vars
  <2>1. UNCHANGED <<rows, space, trail, plans, adds>>
    BY <1>13 DEF vars
  <2>2. Held' = Held /\ NoPhantomSafes'
    BY <2>1, SameSafes
  <2> QED
    BY <1>0, <2>1, <2>2, FewerSafes
<1> QED
  BY <1>1, <1>2, <1>3, <1>4, <1>5, <1>6, <1>7, <1>8, <1>9, <1>10, <1>11, <1>12, <1>13
  DEF Next

-----------------------------------------------------------------------------
\* Every reachable state satisfies the invariant.
THEOREM Invariant == Spec => []Inv
<1> QED
  BY InitInv, InvStep, PTL DEF Spec

\* The variables keep their types.
THEOREM TypeCorrect == Spec => []TypeOK
<1>1. Inv => TypeOK
  BY DEF Inv
<1> QED
  BY Invariant, <1>1, PTL

\* The seats in use are within a quota the space has been granted, whatever
\* removals, additions and changes of plan interleave.
THEOREM SeatsWithinGranted == Spec => []WithinGranted
<1>1. Inv => WithinGranted
  BY DEF Inv
<1> QED
  BY Invariant, <1>1, PTL

\* A plan that was chosen here and compared with the seats in use fits, unless Safes
\* were added since; plans that do not say how many seats they have are not compared
\* (assertSafeSeatCapacity).
THEOREM ChosenPlansFit == Spec => []ChosenPlanFits
<1>1. Inv => ChosenPlanFits
  BY DEF Inv
<1> QED
  BY Invariant, <1>1, PTL

\* The audit log names no Safe that a live space does not hold.
THEOREM NoPhantoms == Spec => []NoPhantomSafes
<1>1. Inv => NoPhantomSafes
  BY DEF Inv
<1> QED
  BY Invariant, <1>1, PTL

\* A space begins without seats, as the budget does.
LEMMA BudgetInit == Init => Budget!Init
<1> SUFFICES ASSUME Init PROVE Budget!Init
  OBVIOUS
<1>1. Addresses(Held) = {}
  BY DEF Init, Held, NoRows, Addresses
<1>2. Seats = 0
  BY <1>1, FS_EmptySet DEF Seats
<1> QED
  BY <1>2, SeatsAssumption DEF Init, Budget!Init

\* Every step takes seats within a granted quota, gives seats up, records a
\* quota, or leaves both alone.
LEMMA BudgetStep == Inv /\ Inv' /\ [Next]_vars => [Budget!Next]_(Budget!vars)
<1> SUFFICES ASSUME Inv, Inv', [Next]_vars PROVE Budget!Next \/ UNCHANGED <<Seats, granted>>
  BY DEF Budget!vars
<1>0. Seats \in Nat /\ Seats' \in Nat
  <2>1. TypeOK /\ TypeOK'
    BY DEF Inv
  <2>2. Held' \in SUBSET Slots
    BY DEF Held
  <2> QED
    BY <2>1, <2>2, HeldType, AddressesOf DEF Seats
<1>1. ASSUME granted' = granted PROVE Budget!Next \/ UNCHANGED <<Seats, granted>>
  <2>1. CASE Seats' > Seats
    <3>1. \E quota \in granted : Fits(quota, Seats')
      BY <1>1 DEF Inv, WithinGranted
    <3> QED
      BY <1>1, <2>1, <3>1 DEF Budget!Next, Budget!Take, Budget!Within, Fits, Null
  <2>2. CASE Seats' < Seats
    BY <1>1, <2>2 DEF Budget!Next, Budget!Release
  <2>3. CASE Seats' = Seats
    BY <1>1, <2>3
  <2> QED
    BY <1>0, <2>1, <2>2, <2>3
<1>2. ASSUME NEW b \in Buyers, Materialize(b) PROVE Budget!Next
  <2>1. Seats' = Seats
    BY <1>2, SameSafes DEF Materialize
  <2>2. SeatsOf(choice[b].offer) \in SeatQuotas
    BY OffersAre DEF Inv, TypeOK
  <2> QED
    BY <1>2, <2>1, <2>2 DEF Materialize, Budget!Next, Budget!Grant
<1>3. ASSUME MovePlan PROVE Budget!Next
  <2>1. Seats' = Seats
    BY <1>3, SameSafes DEF MovePlan
  <2> QED
    BY <1>3, <2>1 DEF MovePlan, Budget!Next, Budget!Grant
<1>4. ASSUME NEW p \in Adders,
             Resolve(p) \/ LockAndCount(p) \/ Admit(p) \/ InsertRows(p) \/ RollBack(p)
      PROVE  granted' = granted
  BY <1>4 DEF Resolve, LockAndCount, Admit, InsertRows, RollBack, plans
<1>5. ASSUME NEW q \in Removers, FindRows(q) \/ RemoveRows(q) \/ RemovalFails(q)
      PROVE  granted' = granted
  BY <1>5 DEF FindRows, RemoveRows, RemovalFails, plans
<1>6. ASSUME NEW b \in Buyers, Forgo(b) \/ \E offer \in Offers : AssertSafeSeatCapacity(b, offer)
      PROVE  granted' = granted
  BY <1>6 DEF Forgo, AssertSafeSeatCapacity
<1>7. CASE DeleteSpace \/ UNCHANGED vars
  BY <1>1, <1>7 DEF DeleteSpace, vars, plans
<1> QED
  BY <1>1, <1>2, <1>3, <1>4, <1>5, <1>6, <1>7 DEF Next

\* Additions, removals and plans together keep the promise of SeatBudget.
THEOREM Refinement == Spec => ImplementsBudget
<1> QED
  BY Invariant, BudgetInit, BudgetStep, PTL DEF Spec, ImplementsBudget, Budget!Spec
=============================================================================
