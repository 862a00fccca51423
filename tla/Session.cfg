\* One tab, two accounts, two sessions, two jobs, three operations, a request that is lost.
SPECIFICATION Spec
CONSTANTS
  MaxAccounts = 2
  MaxTokens = 2
  MaxJobs = 2
  MaxOps = 3
  MaxFaults = 1
INVARIANTS TypeOK UserAgrees
PROPERTIES KeyKept WatchEnds
CHECK_DEADLOCK FALSE
