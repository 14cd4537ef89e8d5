SPECIFICATION Spec
CONSTANTS
  c1 = c1
  c2 = c2
  c3 = c3
  h1 = h1
  h2 = h2
  NoChunk = NoChunk
  Chunks = {c1, c2, c3}
  HeldOut = {}
  Damaged = {}
  Sidecars = TRUE
  Target = 1
  HoldoutChunks = 1
  OpenAhead = 2
  Window = 2
  Last = 3
  Remote = TRUE
  Redelivery = FALSE
  MaxStops = 2
SYMMETRY ChunkSymmetry
INVARIANTS
  PacedAhead
  WindowWhole
PROPERTIES
  CompleteIsFinal
  ImplementsFlow
CHECK_DEADLOCK FALSE
