----------------------------- MODULE MCSafeSeats -----------------------------
(* A small instance of SafeSeats: one Safe on two chains and another on one,  *)
(* two additions, two removals and one choice of plan at a time.              *)
EXTENDS SafeSeats, TLC

CONSTANTS p1, p2, q1, q2, b1, s1, s2

MCSlots == {[chain |-> "1", address |-> s1], [chain |-> "2", address |-> s1],
            [chain |-> "1", address |-> s2]}
MCPayloads == {{[chain |-> "2", address |-> s1]}, {[chain |-> "1", address |-> s2]},
               {s \in MCSlots : s.chain = "1"}}
MCQuotas == {1, 2}

Symmetry == Permutations({p1, p2}) \union Permutations({q1, q2})
=============================================================================
