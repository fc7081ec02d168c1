----------------------------- MODULE MCChainUpdates -----------------------------
(* Small instances of ChainUpdates: two replicas that share the cache.         *)
EXTENDS ChainUpdates

CONSTANTS p1, p2, r1, r2

\* The replicas are alike and there is one announcement: p1 is the one that takes it
\* first.
FirstTaker == handling'[p2] = "unlink" => handling[p2] = "unlink" \/ failures > 0
=============================================================================
