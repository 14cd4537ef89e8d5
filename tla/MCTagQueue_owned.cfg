SPECIFICATION Spec
CONSTANTS
  t1 = t1
  t2 = t2
  m1 = m1
  m2 = m2
  gen = gen
  train = train
  NoTag = NoTag
  NoMachine = NoMachine
  Tags = {t1, t2}
  Machines = {m1}
  Roles = {gen, train}
  Trainers = {train}
  Ssh = {m1}
  Rentable = {}
  MaxCap = 0
  Fits <- AllPairs
  Operator = {"enqueue", "dequeue", "move", "release", "requeue", "start", "pause", "add_machine", "remove_machine"}
  Faults = {"dashboard", "crash", "fatal", "drain", "term", "exit", "hand", "removal"}
INVARIANTS
  OneTagAlive
  SlotsUnderLease
  DrainedIsClean
PROPERTIES
  CustodyKept
  EndsWithCause
  ReturnsToHead
  ImplementsLifecycle
CHECK_DEADLOCK FALSE
