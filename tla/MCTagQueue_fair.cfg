SPECIFICATION FairSpec
CONSTANTS
  t1 = t1
  t2 = t2
  m1 = m1
  m2 = m2
  gen = gen
  train = train
  NoTag = NoTag
  NoMachine = NoMachine
  Tags = {t1, t2}
  Machines = {m1}
  Roles = {gen}
  Trainers = {}
  Ssh = {m1}
  Rentable = {}
  MaxCap = 1
  Fits <- AllPairs
  Operator = {"remove", "enqueue", "release", "create", "delete", "set_cap"}
  Faults = {"dashboard", "fatal"}
PROPERTIES
  ReleaseEnds
  QueuedRuns
CHECK_DEADLOCK FALSE
