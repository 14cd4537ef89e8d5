SPECIFICATION FairSpec
CONSTANTS
  c1 = c1
  c2 = c2
  c3 = c3
  h1 = h1
  h2 = h2
  NoChunk = NoChunk
  Chunks = {c1, c2, c3, h1}
  HeldOut = {}
  Damaged = {h1}
  Sidecars = FALSE
  Target = 1
  HoldoutChunks = 1
  OpenAhead = 0
  Window = 1
  Last = 2
  Remote = FALSE
  Redelivery = FALSE
  MaxStops = 1
INVARIANTS
  DamagedNeverAssigned
PROPERTIES
  TrainerFinishesUnlessOrphaned
CHECK_DEADLOCK FALSE
