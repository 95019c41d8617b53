\* Two encoders and a pull, short, long and zero periods; a queue with pieces
\* small and large against its limits; two requests and every thread that holds an
\* Arc.
SPECIFICATION MCSpec
CONSTANTS
  enc1 = enc1
  enc2 = enc2
  pull = pull
  None = None
  Nobody = Nobody
  Requests = {a, b}
  Values <- MCValues
  Follower <- MCFollower
  Periods = {0, 1, 3}
  MaxTime = 8
  Lengths = {1, 2}
  SUB_MAX_LAG = 3
  SUB_MAX_BYTES = 3
  MAX_BATCH = 2
  MaxBody = 4
  MaxClock = 4
INVARIANTS Types Punctual Counted InOrder Unblocked
PROPERTIES KeepsUp Backlog EvictedReturns
CHECK_DEADLOCK FALSE
