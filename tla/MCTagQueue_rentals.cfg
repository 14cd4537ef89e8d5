SPECIFICATION Spec
CONSTANTS
  t1 = t1
  t2 = t2
  m1 = m1
  m2 = m2
  gen = gen
  train = train
  NoTag = NoTag
  NoMachine = NoMachine
  Tags = {t1, t2}
  Machines = {m1, m2}
  Roles = {gen}
  Trainers = {}
  Ssh = {m1, m2}
  Rentable = {m1, m2}
  MaxCap = 2
  Fits <- UnevenPairs
  Operator = {"enqueue", "dequeue", "release", "stop_cloud", "remove_capacity"}
  Faults = {"instance", "slots", "removal", "fatal", "dashboard", "build", "listing", "provider"}
INVARIANTS
  OneLeasePerTag
  SlotsInv
PROPERTIES
  ReleaseDiscardsNothing
CHECK_DEADLOCK FALSE
