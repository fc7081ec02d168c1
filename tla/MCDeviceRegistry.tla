--------------------------- MODULE MCDeviceRegistry ---------------------------
(* A small instance of DeviceRegistry: a phone, with or without a key.          *)
EXTENDS DeviceRegistry, TLC

CONSTANTS d1, s1, e1, r1, r2

\* Requests differ by name alone.
Symmetry == Permutations(Requests)
=============================================================================
