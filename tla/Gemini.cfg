\* Two extractions at the caps of the quota, every failure of a call.
SPECIFICATION FairSpec
CONSTANTS
  Caller = {c1, c2}
  Free = Free
  RpmCap = 1
  DailyCapEnabled = TRUE
  RpdCap = 2
  MaxTries = 2
  MinutesPerDay = 2
  CleanupAge = 2
  Stall = 1
  FreeMinutes = 2
  LastMinute = 6
  MaxFaults = 1
  MaxRetries = 2
  Max503 = 2
  Max429 = 2
INVARIANTS ExtractTypeOK CountsCoverGrants LadderBounded
PROPERTIES LimitsRate ExtractionEnds
CHECK_DEADLOCK FALSE
