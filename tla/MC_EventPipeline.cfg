CONSTANTS
  Pages = {p1, p2}
  Methods = {m1}
  Waiters = {w1}
  Streams = {s1}
  Queries <- OnceOrTwice
  ChanCap = 1
  MergeCap = 1
  MaxEvents = 2
  MaxGuests = 1
  Visited = {p2}
  MaxCloses = 1
  NoPage = NoPage
  NoLine = NoLine
  Ended = Ended
SPECIFICATION FairSpec
INVARIANTS RingIsOwnAndOrdered EventsConserved HeardIsRecorded
PROPERTIES ImplementsWay CloseStopsCollectors EventsReachRing StreamsEnd
CHECK_DEADLOCK FALSE
