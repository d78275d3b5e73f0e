CONSTANTS
  Calls = {c1}
  Requests = {r1, r2}
  Downloads = {d1, d2}
  NoDownload = NoDownload
  Chunk = Chunk
  ChanCap = 1
  MaxEvents = 5
  MaxOnWay = 1
  MaxCommits = 4
SPECIFICATION FairSpec
INVARIANTS BooksAreTrue
PROPERTIES NavigateHearsLoad QuietEndsIdle
CHECK_DEADLOCK FALSE
