CONSTANTS
  Calls = {c1}
  Requests = {r1}
  Downloads = {d1}
  NoDownload = NoDownload
  Chunk = Chunk
  ChanCap = 1
  MaxEvents = 2
  MaxOnWay = 2
  MaxCommits = 3
SPECIFICATION Spec
INVARIANTS TraceMissesNothing
CHECK_DEADLOCK FALSE
