CONSTANTS
  Targets = {t1, t2}
  c1 = c1
  Conns = {c1, c2}
  MaxCalls = 3
  Tools <- AnyTool
  Starts <- EitherStart
  ChanCap = 1
  NoTarget = NoTarget
  NoConn = NoConn
  NoPage = NoPage
  Nobody = Nobody
SPECIFICATION FairSpec
INVARIANTS OpenPagesAreCached PagesAreOfTheClient NothingOutlivesDetach DeadPagesAreOnTheirWayOut
PROPERTIES CallsReturn ReportedTabsAreReaped
CHECK_DEADLOCK FALSE
