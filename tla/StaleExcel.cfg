\* A crash in a retry after its last page, before the new workbook.
SPECIFICATION Spec
CONSTANTS
  Page = {p1}
  MaxConcurrent = 2
  MaxRetries = 1
  MaxFaults = 0
  MaxCrashes = 1
  AmbiguousCommits = FALSE
  OneTab = TRUE
  MayDeleteProject = FALSE
  MayExpireUploads = FALSE
INVARIANTS ExcelCoversDone
CHECK_DEADLOCK FALSE
