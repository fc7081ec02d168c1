SPECIFICATION Spec
CONSTANTS
  Users = {ann, bob}
  Creator = ann
  Requests = {p1, p2}
  MaxRows = 3
  AccountDeletion = TRUE
INVARIANTS TypeOK ActiveMembersAreUsers AuditAgrees
PROPERTY LastAdminStays
SYMMETRY Symmetry
CHECK_DEADLOCK FALSE
