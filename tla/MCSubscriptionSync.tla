-------------------------- MODULE MCSubscriptionSync --------------------------
(* The subscription sync for TLC: two deliveries are served at a time, of     *)
(* three changes to two subscriptions.  Handlers are alike, so states that    *)
(* differ only in which handler is which are checked once.                    *)
EXTENDS SubscriptionSync, TLC

Symmetry == Permutations(Handlers)
=============================================================================
