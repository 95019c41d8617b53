\* A client joins while the encoder finishes.
SPECIFICATION FairSpec
CONSTANTS
  c1 = c1
  c2 = c2
  Clients <- MCClients
  NeedsInit = FALSE
  Linger = TRUE
  MaxPieces = 1

PROPERTIES FinishEndsAll
CHECK_DEADLOCK FALSE
