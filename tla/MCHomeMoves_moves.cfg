\* Two generations behind a window of one; the home lost, the trainer or the
\* dashboard killed, a remote command failing.
CONSTANTS
  MaxChunks = 2
  Target = 1
  OpenAhead = 0
  Window = 1
  Last = 2
  Faults = {"link", "crash", "dashboard", "lost"}
  Overlap = FALSE
  MaxPauses = 1
  MaxFaults = 1
SPECIFICATION FairSpec
CHECK_DEADLOCK FALSE
INVARIANTS
  CursorBehindWeights
  AckedIsHere
  ChunkOnce
  ChunkKept
PROPERTIES
  RowsNeverBack
  WindowWhole
  StateArrives
