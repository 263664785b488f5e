SPECIFICATION FairSpec
CONSTANTS
  t1 = t1
  t2 = t2
  Tasks <- TwoTasks
  Captures = {1, 2, 3, 4, 5, 6, 7, 8, 9}
  MaxSessions = 3
  SlotCounts = {1, 2}
  Orderly = TRUE
  Faults = {"camera", "config"}
  MaxBoots = 0
CHECK_DEADLOCK FALSE
INVARIANTS  OwnShotsOnly  
PROPERTIES SessionSettles
