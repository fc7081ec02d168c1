SPECIFICATION BreakerFairSpec
CONSTANTS
  Requests = {r1, r2, r3, r4}
  Threshold = 3
  Timeout = 3
  RollingWindow = 1
  HalfOpenRate = 66
INVARIANTS BreakerTypeOK NoLostSlot
PROPERTIES ImplementsGate NeverShutForGood HalfOpenEnds
