\* Two clients retry the same failed pages.
SPECIFICATION Spec
CONSTANTS
  Page = {p1, p2}
  MaxConcurrent = 2
  MaxRetries = 2
  MaxFaults = 0
  MaxCrashes = 0
  AmbiguousCommits = FALSE
  OneTab = FALSE
  MayDeleteProject = FALSE
  MayExpireUploads = FALSE
PROPERTIES DonePagesUntouched
CHECK_DEADLOCK FALSE
