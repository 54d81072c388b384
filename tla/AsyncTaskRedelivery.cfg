\* One call, everything may fail, two deliveries of its request; the timer and
\* the caller are fair, nothing else is.
CONSTANTS
  Calls = {c1}
  Prefetch = 1
  MaxDeliver = 2
  Faults = TRUE
  Timeouts = TRUE
  Silent = TRUE
SPECIFICATION TimeoutSpec
INVARIANTS
  TableServesCalls
  DeliveriesEnd
PROPERTIES
  ImplementsRpcCall
  EveryCallEnds
