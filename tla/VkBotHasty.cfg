\* Commands at any time, before the last one has settled; without tasks.
CONSTANTS
  Mains = {m1, m2}
  Gangs = {g1, g2}
  TaskIds = {}
  MaxRetries = 0
  Kinds = {"row", "daily"}
  NoGang = NoGang
  NoTask = NoTask
  RpcCancels = FALSE
  Calm = FALSE
SPECIFICATION Spec
SYMMETRY Symmetry
INVARIANTS
  StopIsClean
