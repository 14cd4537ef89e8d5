SPECIFICATION FairSpec
CONSTANTS
  MaxGen = 2
  Every = 1
  Faults = {"link", "worker", "replace", "lost", "dashboard", "bad", "trainer", "home"}
  MaxFaults = 2
INVARIANTS
  MarkHasResult
  FinishedMeansAllMatched
PROPERTIES
  NoReplayInTransit
  AllMatched
CHECK_DEADLOCK FALSE
