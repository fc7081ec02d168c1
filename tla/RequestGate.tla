----------------------------- MODULE RequestGate -----------------------------
(***************************************************************************)
(* What the circuit breaker promises its callers, without its counters: a  *)
(* gate in front of an upstream service that is wide open, shut for at     *)
(* least `Timeout`, or ajar while probes decide.  While the gate is shut   *)
(* nobody passes, and it shuts for the whole timeout every time.           *)
(***************************************************************************)
EXTENDS Integers

CONSTANTS Requests, Timeout

VARIABLES gate, wait, passing

vars == <<gate, wait, passing>>

Init == gate = "wide" /\ wait = 0 /\ passing = {}

\* A request passes a gate that is not shut; the first one to try a gate whose
\* wait is over finds it ajar.
Pass(r) ==
  /\ r \notin passing
  /\ \/ gate = "shut" /\ wait = 0 /\ gate' = "ajar"
     \/ gate # "shut" /\ gate' = gate
  /\ passing' = passing \union {r}
  /\ UNCHANGED wait

\* A gate whose wait is over may also be set ajar without letting anyone in.
Unlatch ==
  /\ gate = "shut" /\ wait = 0
  /\ gate' = "ajar"
  /\ UNCHANGED <<wait, passing>>

\* A request comes back.  Its outcome may shut a gate that is not shut, for the
\* whole timeout, or open one that is ajar.
Return(r) ==
  /\ r \in passing
  /\ passing' = passing \ {r}
  /\ \/ UNCHANGED <<gate, wait>>
     \/ gate # "shut" /\ gate' = "shut" /\ wait' = Timeout
     \/ gate = "ajar" /\ gate' = "wide" /\ UNCHANGED wait

Wait == wait > 0 /\ wait' = wait - 1 /\ UNCHANGED <<gate, passing>>

\* A gate nobody has used for long is forgotten, that is opened, but never one
\* that is shut and still waiting.
Forget ==
  /\ gate = "shut" => wait = 0
  /\ gate' = "wide"
  /\ UNCHANGED <<wait, passing>>

Next ==
  \/ \E r \in Requests : Pass(r) \/ Return(r)
  \/ Unlatch \/ Wait \/ Forget

Spec == Init /\ [][Next]_vars
=============================================================================
