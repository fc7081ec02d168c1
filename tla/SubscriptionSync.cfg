SPECIFICATION Spec
CONSTANTS
  NSubs = 2
  Handlers = {h1, h2}
  MaxChanges = 3
  MaxTime = 3
  MaxRepeats = 1
  Kinds = {"full", "thin"}
  Overlap = TRUE
  UpstreamFails = TRUE
INVARIANTS TypeOK OneActive SettledInSync
SYMMETRY Symmetry
CHECK_DEADLOCK FALSE
