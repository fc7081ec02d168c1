----------------------------- MODULE QuotaLedger -----------------------------
(***************************************************************************)
(* What IEntitlementEnforcement promises of an event-metered feature       *)
(*   (src/src/modules/entitlements/domain/entitlement-enforcement          *)
(*    .interface.ts):                                                      *)
(* each counter is a ledger of spends.  A spend is opened while it fits    *)
(* the allowance, and is closed once: it is either kept or given back, to  *)
(* the counter it was taken from.  Nothing is said of plans, caches, time  *)
(* or the calls that spend.                                                *)
(***************************************************************************)
EXTENDS Integers

CONSTANTS Counters, Allowances, Unlimited

VARIABLES used, open, ceiling

vars == <<used, open, ceiling>>

Within(n, allowance) == allowance = Unlimited \/ n <= allowance

Init ==
  /\ used = [c \in Counters |-> 0]
  /\ open = [c \in Counters |-> 0]
  /\ ceiling = [c \in Counters |-> 0]

\* The allowance of a counter is the largest one it was ever granted.
Grant(c, allowance) ==
  /\ allowance = Unlimited \/ (ceiling[c] # Unlimited /\ ceiling[c] < allowance)
  /\ ceiling' = [ceiling EXCEPT ![c] = allowance]
  /\ UNCHANGED <<used, open>>

Spend(c) ==
  /\ Within(used[c] + 1, ceiling[c])
  /\ used' = [used EXCEPT ![c] = @ + 1]
  /\ open' = [open EXCEPT ![c] = @ + 1]
  /\ UNCHANGED ceiling

Keep(c) ==
  /\ open[c] > 0
  /\ open' = [open EXCEPT ![c] = @ - 1]
  /\ UNCHANGED <<used, ceiling>>

GiveBack(c) ==
  /\ open[c] > 0
  /\ used' = [used EXCEPT ![c] = @ - 1]
  /\ open' = [open EXCEPT ![c] = @ - 1]
  /\ UNCHANGED ceiling

Next ==
  \E c \in Counters :
    \/ Spend(c) \/ Keep(c) \/ GiveBack(c)
    \/ \E allowance \in Allowances : Grant(c, allowance)

Spec == Init /\ [][Next]_vars
=============================================================================
