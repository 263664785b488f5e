SPECIFICATION Spec
CONSTANTS
  p1 = p1
  p2 = p2
  r1 = r1
  r2 = r2
  Ids = {"a", "b"}
  First = "a"
  Pages <- OnePage
  Requests <- OneRequest
  Formats = {"png", "jpg"}
  MaxSaves = 1
  MaxBoots = 1
  Faults = {"crash"}
CHECK_DEADLOCK FALSE
INVARIANTS TypeOK  EventsKept
