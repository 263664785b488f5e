SPECIFICATION FairSpec
CONSTANTS
  a = a
  b = b
  op = op
  Pictures <- TwoPictures
  Requests <- Operator
  MaxTrouble = 1
CHECK_DEADLOCK FALSE
INVARIANTS TypeOK OrphansExplained
PROPERTIES DeletedIsNotSent WindowEnforced
