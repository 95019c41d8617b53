\* Two requests over two pulls of one content id, the puller and the linger fair.
SPECIFICATION FairSpec
CONSTANTS
  None = None
  Streams = {s1, s2}
  Requests = {r1, r2}
  EngineLinger = TRUE
  Cloneable = {s1}
  MaxPeeks = 1
INVARIANTS TypeOK OneLivePull LeavesClean
PROPERTIES LingerOwed Teardown PullSettles
CHECK_DEADLOCK FALSE
