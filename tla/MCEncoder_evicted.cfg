\* The only listener is evicted.
SPECIFICATION FairSpec
CONSTANTS
  c1 = c1
  c2 = c2
  Clients <- MCClients
  NeedsInit = TRUE
  Linger = TRUE
  MaxPieces = 2

PROPERTIES EvictedLingers
CHECK_DEADLOCK FALSE
