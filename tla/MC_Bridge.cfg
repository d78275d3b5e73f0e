CONSTANTS
  k1 = k1
  k2 = k2
  x1 = x1
  CommandLines <- TwoKinds
  Pids = {p1, p2}
  Locks = {k1, k2}
  Projects = {x1}
  Targets = {t1}
  Paths = {k1, k2, x1}
  NoPath = NoPath
  NoFlags = NoFlags
  MaxStarts = 3
SPECIFICATION FairSpec
INVARIANTS LockHeldByOne ProjectHasOneBridge SidecarFollowsMemory
PROPERTIES SignalEndsHttpBridge
CHECK_DEADLOCK FALSE
