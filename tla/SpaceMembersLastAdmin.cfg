SPECIFICATION Spec
CONSTANTS
  Users = {ann, bob}
  Creator = ann
  Requests = {p1, p2}
  MaxRows = 2
  AccountDeletion = FALSE
INVARIANT AdminRemains
SYMMETRY Symmetry
CHECK_DEADLOCK FALSE
