SPECIFICATION FairSpec
CONSTANTS
  up1 = up1
  up2 = up2
  pr = pr
  s1 = s1
  MaxJobs = 2
  Workers <- OnePerKind
  Serves <- OneOfEach
  Sessions <- OneSession
  MaxAttempts = 3
  MaxBackoff = 2
  PrintLimit = 1
  Threads = FALSE
  Faults = {"outage", "error", "ambiguous", "storage", "crash"}
  MaxBoots = 1
CHECK_DEADLOCK FALSE
INVARIANTS TypeOK ClaimedIsHeldOrStranded VerdictsJustified CopiesBounded
PROPERTIES ImplementsDurableQueue JobsSettle StopEnds
