SPECIFICATION FairSpec
CONSTANTS
  up1 = up1
  up2 = up2
  pr = pr
  s1 = s1
  MaxJobs = 1
  Workers <- OneUpload
  Serves <- JustUpload
  Sessions <- OneSession
  MaxAttempts = 2
  MaxBackoff = 1
  PrintLimit = 1
  Threads = FALSE
  Faults = {"crash"}
  MaxBoots = 1
CHECK_DEADLOCK FALSE
PROPERTIES EveryJobSettles
