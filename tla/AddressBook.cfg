CONSTANTS
  m1 = m1 m2 = m2 k1 = k1 k2 = k2 v1 = v1 v2 = v2 a1 = a1 a2 = a2
  Members = {m1, m2}
  Addresses = {a1, a2}
  Askers = {k1, k2}
  Writers = {v1, v2}
  MaxPending = 1
  MaxItems = 1
  MaxRequests = 2
  MaxRows = 3
SYMMETRY Symmetry
SPECIFICATION Spec
INVARIANTS
  TypeOK
  LimitsHoldButForOverlap
  BookAsLogged
PROPERTIES
  ImplementsDesk
CHECK_DEADLOCK FALSE
