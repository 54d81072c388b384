\* Liveness under the fairness of the loop; no symmetry, which liveness forbids.  Two
\* tasks, of which one may wait behind a worker that is gone.  One pair: if commands
\* settle, a pair is over before the next is created, for its listener finds no client.
CONSTANTS
  Mains = {m1, m2}
  Gangs = {g1}
  TaskIds = {t1, t2}
  MaxRetries = 1
  Kinds = {}
  NoGang = NoGang
  NoTask = NoTask
  RpcCancels = TRUE
  Calm = TRUE
SPECIFICATION LiveSpec
PROPERTIES
  QueuedTaskFinishes
  KeepsServing
  StopIsFinal
