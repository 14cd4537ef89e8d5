SPECIFICATION Spec
CONSTANTS
  NumEntries = 3
  NumMachines = 3
INVARIANTS
  ServesInQueueOrder
  NoMachineIdles
PROPERTY NeverLosesPlacement
CHECK_DEADLOCK FALSE
