\* Streams of up to five boxes, cut into chunks in every way.
SPECIFICATION Spec
CONSTANTS
  None = None
  Inputs <- MCInputs
  Short = 3
  Long = 5
  MaxMoof = 7
  MaxTail = 2
INVARIANTS TypeOK PassThrough CutFree Joinable
CHECK_DEADLOCK FALSE
