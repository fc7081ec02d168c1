---------------------------- MODULE MCSpaceMembers ----------------------------
(* The members of a space for TLC: the creator and one other user, two        *)
(* requests at a time.  Requests are alike, and so would other users be.      *)
EXTENDS SpaceMembers, TLC

Symmetry == Permutations(Requests) \union Permutations(Users \ {Creator})
=============================================================================
