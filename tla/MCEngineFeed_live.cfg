\* The puller and the feeders are fair; ffmpeg may hang or crash, and be given
\* up on.
SPECIFICATION FeedSpec
CONSTANTS
  None = None
  Formats = {adts}
  Encoders = {e1}
  Queue = 1
  Window = 1
  MaxChunks = 4
PROPERTIES PullerReturns EofReaches
CHECK_DEADLOCK FALSE
