\* One command at a time: two mains and two pairs are enough for every overlap.
CONSTANTS
  Mains = {m1, m2}
  Gangs = {g1, g2}
  TaskIds = {t1, t2}
  MaxRetries = 3
  Kinds = {"row", "daily"}
  NoGang = NoGang
  NoTask = NoTask
  RpcCancels = TRUE
  Calm = TRUE
SPECIFICATION Spec
SYMMETRY Symmetry
INVARIANTS
  OneOfEach
  TasksAreKept
PROPERTIES
  OnlyStopsInterrupt
  ImplementsTaskQueue
