CONSTANTS
  Calls = {c1, c2}
  Closers = {k1}
  Pump = Pump
  NoCall = NoCall
  MaxRepeats = 1
SPECIFICATION FairSpec
INVARIANTS ResponsesReachTheirCall PendingIsExact ClosedOnceWithReason
PROPERTIES ImplementsRpc LossReleasesCalls AnsweredCallReturns
CHECK_DEADLOCK FALSE
