\* One tab, two jobs, three operations; a request lost, a result saved or a job deleted meanwhile.
SPECIFICATION Spec
CONSTANTS
  MaxData = 2
  MaxOps = 3
  MaxStray = 2
  MaxEvents = 1
INVARIANTS TypeOK ShownAsAsked DetailAgrees
PROPERTIES LoadEnds
CHECK_DEADLOCK FALSE
