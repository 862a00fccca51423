\* One editor page, left and opened again, two handlers at a time, a request or an answer lost.
SPECIFICATION Spec
CONSTANTS
  Text = {"a"}
  Slot = {1, 2}
  MaxRows = 2
  Generated = 2
  MaxFields = 3
  MaxOps = 3
  MaxOpens = 2
  MaxFaults = 1
  Patient = TRUE
INVARIANTS TypeOK ScreenAgrees OrderKept
PROPERTIES BusyEnds GeneratedKept
CHECK_DEADLOCK FALSE
