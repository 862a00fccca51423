\* One retry, one crash, one reload; connections break at any time.
SPECIFICATION FairSpec
CONSTANTS
  Conn = {k1, k2}
  NoConn = NoConn
  MaxRetries = 1
  MaxCrashes = 1
  MaxReloads = 1
  MaxAnswers = 1
  Patient = TRUE
  Eager = TRUE
INVARIANTS TypeOK
PROPERTIES PageSettles NotEarly
CHECK_DEADLOCK FALSE
