\* A member who changes only after his events were handled, over two periods of a
\* game and of an excluded one.
CONSTANTS
  Users = {u1}
  Games = {portal, chess}
  Statuses = {online, idle}
  Excluded = {chess}
  Handlers = {h1}
  Copies = 1
  Calm = TRUE
  Faults = FALSE
  MaxChanges = 4
SPECIFICATION Spec
INVARIANTS
  TablesTellThePast
