\* Five streams of six to nine packets, cut into chunks of a byte, a packet and a
\* byte or two packets and a byte, arriving over three ticks;
\* bodies of up to four bytes, cut anywhere and read with buffers of one or three;
\* requests of up to five lines that stop anywhere;
\* a preroll and outputs that are more than a pipe holds.
SPECIFICATION MCSpec
CONSTANTS
  Preroll = 3
  Pipe = 1
  MaxOutput = 2
  Heads <- MCHeads
  MAX_HEAD_BYTES = 15
  MAX_HEADER_LINES = 2
  None = None
  PACKET = 3
  Inputs <- MCInputs
  Sizes = {1, 4, 7}
  MaxAge = 1
  MaxBytes = 8
  TailAge = 0
  Period = 16
  MaxSaneGap = 4
  MaxTime = 2
  NL = 20
  SEMI = 21
  Buffers = {1, 3}
  TextLimit = 3
  Answers <- MCAnswers
INVARIANTS Types InStep Bounded Primed LagTrue Decoded Truthful Judged
PROPERTIES Settled Settles
CHECK_DEADLOCK FALSE
