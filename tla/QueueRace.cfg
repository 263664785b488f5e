SPECIFICATION Spec
CONSTANTS
  up1 = up1
  up2 = up2
  pr = pr
  s1 = s1
  MaxJobs = 3
  Workers <- TwoUploads
  Serves <- BothUpload
  Sessions <- OneSession
  MaxAttempts = 2
  MaxBackoff = 1
  PrintLimit = 1
  Threads = TRUE
  Faults = {"error", "crash"}
  MaxBoots = 1
SYMMETRY AnyUpload
CHECK_DEADLOCK FALSE
INVARIANTS ClaimedByOne
