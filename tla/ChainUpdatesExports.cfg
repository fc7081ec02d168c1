CONSTANTS
  p1 = p1 p2 = p2 r1 = r1 r2 = r2
  Procs = {p1}
  Readers = {r1, r2}
  Kinds = {"exports"}
  MaxChanges = 1
  SharesRequests = FALSE
  MaxFailures= 0
SPECIFICATION ChainsSpec
INVARIANT ApisCurrent
