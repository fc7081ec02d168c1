SPECIFICATION FairSpec
CONSTANTS
  Readers = {r1, r2}
  FirstVersion = 0
  MaxVersion = 2
  EntryTTL = 2
  NotFoundTTL = 1
  MarkerTTL = 3
  FetchTimeout = 2
  SharesRequests = TRUE
  Crashes = TRUE
INVARIANTS TypeOK FreshAfterSeal
PROPERTY Converges
