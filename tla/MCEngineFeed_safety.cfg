\* Two encoders, side by side or one after the other in one slot.
SPECIFICATION Spec
CONSTANTS
  None = None
  Formats = {adts, fmp4}
  Encoders = {e1, e2}
  Queue = 1
  Window = 1
  MaxChunks = 3
SYMMETRY Symmetry
INVARIANTS TypeOK NoGap CaughtUp MapTrue EndIsFinal
CHECK_DEADLOCK FALSE
