\* Database calls that raise, a project deleted and uploads expired under a run.
SPECIFICATION Spec
CONSTANTS
  Page = {p1, p2}
  MaxConcurrent = 2
  MaxRetries = 2
  MaxFaults = 2
  MaxCrashes = 0
  AmbiguousCommits = FALSE
  OneTab = TRUE
  MayDeleteProject = TRUE
  MayExpireUploads = TRUE
SYMMETRY Pages
INVARIANTS TypeOK DoneHasResult DoneMeansAllDone ExcelCoversDone
CHECK_DEADLOCK FALSE
