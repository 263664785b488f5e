SPECIFICATION FairSpec
CONSTANTS
  t1 = t1
  t2 = t2
  Tasks <- TwoTasks
  Captures = {1, 2, 3}
  MaxSessions = 2
  SlotCounts = {1, 2}
  Orderly = FALSE
  Faults = {"camera", "storage", "render", "config", "restart"}
  MaxBoots = 1
CHECK_DEADLOCK FALSE
INVARIANTS TypeOK GateConsistent OneActiveSession PromisedOnDisk
PROPERTIES CapturesEnd
