\* A request while send_stop is under way.
SPECIFICATION FairSpec
CONSTANTS
  None = None
  Streams = {s1}
  Requests = {r1, r2}
  EngineLinger = TRUE
  Cloneable = {s1}
  MaxPeeks = 2

PROPERTIES NoLateJoin
CHECK_DEADLOCK FALSE
