CONSTANTS
  r1 = r1 r2 = r2 w1 = w1 w2 = w2 e1 = e1 e2 = e2 x1 = x1 x2 = x2
  None = None
  Identities <- MCIdentities
  Emails = {e1}
  Wallets = {w1, w2}
  Requests = {r1, r2}
  MaxUsers = 3
SYMMETRY Symmetry
SPECIFICATION Spec
INVARIANTS
  TypeOK
  SessionsKeepTheirAccount
  EveryAccountHasAWayIn
PROPERTIES
  WalletsLeaveOnDemand
CHECK_DEADLOCK FALSE
