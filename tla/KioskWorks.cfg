SPECIFICATION FairSpec
CONSTANTS
  k = k
  v = v
  Pages <- Both
  Touched <- Booth
  Hands = {"tap"}
  Restless <- Other
  Patient = TRUE
  Faults = {"camera", "render"}
  SlotCounts = {1, 2}
  MaxSessions = 2
  MaxSockets = 2
CHECK_DEADLOCK FALSE
INVARIANTS TypeOK 
 
