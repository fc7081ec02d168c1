CONSTANTS
  p1 = p1 p2 = p2 r1 = r1 r2 = r2
  Procs = {p1, p2}
  Readers = {r1, r2}
  Kinds = {"transactions"}
  MaxChanges = 1
  SharesRequests = TRUE
  MaxFailures= 1
SPECIFICATION FairSpec
INVARIANTS
  ChainsTypeOK
  ApisCurrent
PROPERTIES
  SupportRecognised
ACTION_CONSTRAINT FirstTaker
