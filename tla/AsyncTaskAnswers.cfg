\* Two calls over channels and handlers that do not fail them; no timeout.
CONSTANTS
  Calls = {c1, c2}
  Prefetch = 1
  MaxDeliver = 1
  Faults = FALSE
  Timeouts = FALSE
  Silent = FALSE
SPECIFICATION AnswerSpec
CHECK_DEADLOCK FALSE
INVARIANTS
  AckedIsAnswered
PROPERTIES
  EveryCallIsAnswered
