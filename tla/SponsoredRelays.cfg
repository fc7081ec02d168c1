SPECIFICATION Spec
CONSTANTS
  Calls = {r1, r2}
  PaidPlans <- MCPaidPlans
  FreeQuota = 1
  FreePeriod = 2
  GrantsTTL = 2
  MarkerTTL = 1
  MaxChanges = 2
  MaxUsed = 2
  MaxTime = 2
INVARIANTS TypeOK WithinAllowance SpendsAccounted CacheTransparent
PROPERTY ImplementsLedger
SYMMETRY Symmetry
