SPECIFICATION FairSpec
CONSTANTS
  a = a
  b = b
  Callers <- TwoCallers
  Programs = {"shot", "test_shot", "shutdown", "status", "reconnect"}
  Faults = {"unplug", "nofile", "button", "corrupt", "config"}
  MaxPresses = 3
  MaxUnplugs = 1
  MaxBoots = 1
CHECK_DEADLOCK FALSE
INVARIANTS TypeOK 
PROPERTIES OwnAnswers EveryCallEnds
