CONSTANTS
  d1 = d1 s1 = s1 Anyone = Anyone e1 = e1 r1 = r1 r2 = r2
  Devices = {d1}
  Signers = {s1, Anyone}
  Events = {e1}
  Owners = {s1}
  Requests = {r1, r2}
  MaxTokens = 2
  MaxFaults = 1
SYMMETRY Symmetry
SPECIFICATION Spec
INVARIANTS
  TypeOK
  CachedSubscribersCurrent
  RegistrationsLast
  DeliveriesAsSubscribed
