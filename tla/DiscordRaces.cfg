\* Events of one member racing each other, some of them from two servers, with
\* failures, under a fair loop.
CONSTANTS
  Users = {u1}
  Games = {portal}
  Statuses = {online, idle}
  Excluded = {}
  Handlers = {h1, h2}
  Copies = 2
  Calm = FALSE
  Faults = TRUE
  MaxChanges = 2
SPECIFICATION LiveSpec
PROPERTIES
  ShortSessionsAreKept
  NoGameStaysOpen
