----------------------------- MODULE MCAddressBook -----------------------------
(* A small instance of AddressBook: two members who ask for two addresses, and *)
(* two writers.                                                                *)
EXTENDS AddressBook, TLC

CONSTANTS m1, m2, k1, k2, v1, v2, a1, a2

Symmetry == Permutations({m1, m2}) \union Permutations({k1, k2})
            \union Permutations({v1, v2}) \union Permutations({a1, a2})
=============================================================================
