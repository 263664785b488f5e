SPECIFICATION FairSpec
CONSTANTS
  Configs <- AllConfigs
  MaxAttempts = 2
  Depth = 2
  MaxSaves = 1
  MaxTrouble = 2
CHECK_DEADLOCK FALSE
INVARIANTS TypeOK DoneIsWhole 
PROPERTIES PartIsMended
