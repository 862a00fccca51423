\* A crash between the save of a page and its mark, and the retry after it.
SPECIFICATION Spec
CONSTANTS
  Page = {p1, p2}
  MaxConcurrent = 2
  MaxRetries = 1
  MaxFaults = 0
  MaxCrashes = 1
  AmbiguousCommits = FALSE
  OneTab = TRUE
  MayDeleteProject = FALSE
  MayExpireUploads = FALSE
INVARIANTS DataOnce
CHECK_DEADLOCK FALSE
