------------------------------ MODULE SeatBudget ------------------------------
(***************************************************************************)
(* What the quota of seats promises                                        *)
(*   (src/src/modules/entitlements/domain/entitlements.rules.ts            *)
(*    src/src/modules/spaces/routes/safes/space-safes.service.ts):         *)
(* a number of seats that may fall at any time and rises only within a     *)
(* quota that the space has been granted.  Nothing is said of Safes,       *)
(* chains, locks, transactions or the order in which seats are counted.    *)
(***************************************************************************)
EXTENDS Integers

CONSTANTS Quotas, Unlimited

VARIABLES seats, granted

vars == <<seats, granted>>

Within(n, quota) == quota = Unlimited \/ n <= quota

Init == seats = 0 /\ granted \subseteq Quotas

Grant(quota) == granted' = granted \union {quota} /\ UNCHANGED seats

Take ==
  /\ seats' > seats
  /\ \E quota \in granted : Within(seats', quota)
  /\ UNCHANGED granted

Release == seats' < seats /\ UNCHANGED granted

Next == Take \/ Release \/ \E quota \in Quotas : Grant(quota)

Spec == Init /\ [][Next]_vars
=============================================================================
