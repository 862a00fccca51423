\* Crashes and restarts, retries sent from one Processing page.
SPECIFICATION Spec
CONSTANTS
  Page = {p1, p2, p3}
  MaxConcurrent = 2
  MaxRetries = 2
  MaxFaults = 0
  MaxCrashes = 2
  AmbiguousCommits = FALSE
  OneTab = TRUE
  MayDeleteProject = FALSE
  MayExpireUploads = FALSE
SYMMETRY Pages
INVARIANTS
  OneRunAtATime LiveMeansActive ConcurrencyBounded
  CountersExact TerminalMeansSettled
PROPERTIES KeepsPromise SweepRescuesStale
CHECK_DEADLOCK FALSE
