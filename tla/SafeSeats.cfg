CONSTANTS
  p1 = p1 p2 = p2 q1 = q1 q2 = q2 b1 = b1 s1 = s1 s2 = s2
  Slots <- MCSlots
  Payloads <- MCPayloads
  Adders = {p1, p2}
  Removers = {q1, q2}
  Buyers = {b1}
  SeatQuotas <- MCQuotas
  FreeSeats = 1
  MaxInserts = 2
  MaxMoves = 1
SYMMETRY Symmetry
SPECIFICATION Spec
INVARIANTS
  TypeOK
  WithinGranted
  ChosenPlanFits
  NoPhantomSafes
PROPERTIES
  ImplementsBudget
CHECK_DEADLOCK FALSE
