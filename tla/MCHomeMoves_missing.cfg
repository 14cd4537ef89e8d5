\* A replacement whose new container could not be created; nothing else fails.
CONSTANTS
  MaxChunks = 2
  Target = 1
  OpenAhead = 0
  Window = 1
  Last = 2
  Faults = {}
  Overlap = FALSE
  MaxPauses = 1
  MaxFaults = 1
SPECIFICATION Spec
CHECK_DEADLOCK FALSE
INVARIANT
  RemovalSweeps
