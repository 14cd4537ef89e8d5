SPECIFICATION Spec
CONSTANTS
  c1 = c1
  c2 = c2
  c3 = c3
  h1 = h1
  h2 = h2
  NoChunk = NoChunk
  Chunks = {c1, h1, h2}
  HeldOut = {h1, h2}
  Damaged = {h1}
  Sidecars = TRUE
  Target = 1
  HoldoutChunks = 1
  OpenAhead = 1
  Window = 1
  Last = 2
  Remote = FALSE
  Redelivery = TRUE
  MaxStops = 1
SYMMETRY ChunkSymmetry
INVARIANTS
  ChunkOnce
  HomeInv
  HeldOutBounded
  StopLosesOne
CHECK_DEADLOCK FALSE
