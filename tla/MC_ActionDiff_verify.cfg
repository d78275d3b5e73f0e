CONSTANTS
  RequestedCap = 2
  Times = {1, 2}
  Methods = {m1, m2}
  NoEvent = NoEvent
  a1 = a1
  Agents = {a1, a2}
  html = html
  b1 = b1
  b2 = b2
  in = in
  OK = OK
  NO = NO
  Elements <- PageElements
  Label <- PageLabel
  NoLabel = NoLabel
  Subtree <- PageSubtree
  Ignored = {}
  FileInputs = {in}
  Docs <- PageDocs
  View = 1
  DragSteps = 1
  Uses <- DropOnly
  DiffUses <- NoDiffs
  MaxCalls = 1
  MaxChanges = 1
  MaxPolls = 2
  MaxEvents = 3
  NoElement = NoElement
  NoSnapshot = NoSnapshot
  NoUse = NoUse
SPECIFICATION DiffSpec
INVARIANTS UploadMarkerIsSeen
CHECK_DEADLOCK FALSE
