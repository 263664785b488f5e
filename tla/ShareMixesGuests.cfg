SPECIFICATION Spec
CONSTANTS
  t1 = t1
  t2 = t2
  Tasks <- TwoTasks
  Captures = {1, 2, 3, 4}
  MaxSessions = 2
  SlotCounts = {2}
  Orderly = FALSE
  Faults = {}
  MaxBoots = 0
SYMMETRY AnyTask
CHECK_DEADLOCK FALSE
INVARIANTS OwnShotsOnly
