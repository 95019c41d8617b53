\* Two clients of an fMP4 encoder, the drainer and the clients fair.
SPECIFICATION FairSpec
CONSTANTS
  c1 = c1
  c2 = c2
  Clients <- MCClients
  NeedsInit = TRUE
  Linger = TRUE
  MaxPieces = 3
INVARIANTS TypeOK Playable
PROPERTIES EndReaches Retires Broadcasts
CHECK_DEADLOCK FALSE
