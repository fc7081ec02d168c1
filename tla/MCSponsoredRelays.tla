--------------------------- MODULE MCSponsoredRelays ---------------------------
(* One workspace for TLC: a plan of two relays a cycle, its renewal with one,  *)
(* and a subscription without quota and without cycle; two calls at a time.    *)
EXTENDS SponsoredRelays, TLC

MCPaidPlans == {[quota |-> 2, start |-> 0, end |-> 2],
                [quota |-> 1, start |-> 2, end |-> 4],
                [quota |-> Null, start |-> Null, end |-> Null]}

Symmetry == Permutations(Calls)
=============================================================================
