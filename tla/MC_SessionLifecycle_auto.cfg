CONSTANTS
  Targets = {t1}
  c1 = c1
  Conns = {c1}
  MaxCalls = 2
  Tools <- PageTool
  Starts <- AutoAttach
  ChanCap = 1
  NoTarget = NoTarget
  NoConn = NoConn
  NoPage = NoPage
  Nobody = Nobody
SPECIFICATION FairSpec
PROPERTIES UserClosedTabsAreReaped
CHECK_DEADLOCK FALSE
