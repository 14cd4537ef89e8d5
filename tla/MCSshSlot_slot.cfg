SPECIFICATION FairSpec
CONSTANTS
  Roles = {"generator", "trainer"}
  Passes = {"boot", "timer"}
  Operator = {"add", "start", "pause", "remove", "discard", "redeploy", "gate", "finish"}
  MaxOutput = 1
  MaxDeploys = 2
  MaxCommands = 2
  MaxFaults = 1
  FailAfter = 1
  Batch = 1
INVARIANTS
  OutputKept
  ProbeCurrent
  FinishedIsHome
PROPERTIES
  Converges
CHECK_DEADLOCK FALSE
