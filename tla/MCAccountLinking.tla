-------------------------- MODULE MCAccountLinking --------------------------
(* A small instance of AccountLinking: one identity whose verified email may  *)
(* have changed, another with the same email, an invitation to that email,    *)
(* and two wallets.                                                           *)
EXTENDS AccountLinking, TLC

CONSTANTS r1, r2, w1, w2, e1, e2, x1, x2

MCIdentities == {[ext |-> x1, email |-> e1], [ext |-> x1, email |-> e2],
                 [ext |-> x2, email |-> e1]}

Symmetry == Permutations({r1, r2}) \union Permutations({w1, w2})
=============================================================================
