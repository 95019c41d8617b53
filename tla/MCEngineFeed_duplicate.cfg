\* The prime/live seam.
SPECIFICATION Spec
CONSTANTS
  None = None
  Formats = {adts}
  Encoders = {e1}
  Queue = 1
  Window = 1
  MaxChunks = 2

INVARIANTS NoDuplicate
CHECK_DEADLOCK FALSE
