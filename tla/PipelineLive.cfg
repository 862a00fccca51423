\* No fault, no crash, any client: every submitted or retried job ends.
SPECIFICATION FairSpec
CONSTANTS
  Page = {p1, p2}
  MaxConcurrent = 1
  MaxRetries = 1
  MaxFaults = 0
  MaxCrashes = 0
  AmbiguousCommits = FALSE
  OneTab = FALSE
  MayDeleteProject = FALSE
  MayExpireUploads = TRUE
PROPERTIES JobEventuallyTerminal
CHECK_DEADLOCK FALSE
