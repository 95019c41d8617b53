\* An ffmpeg that has stopped reading when the engine stops.
SPECIFICATION FairSpec
CONSTANTS
  None = None
  Formats = {adts}
  Encoders = {e1}
  Queue = 1
  Window = 1
  MaxChunks = 2

PROPERTIES EndFinishes
CHECK_DEADLOCK FALSE
