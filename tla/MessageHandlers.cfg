CONSTANTS
  e1 = e1
  discord = discord
  Events = {e1}
  Shapes <- MCShapes
  Asks <- MCAsks
  UserOf <- MCUserOf
  MaxDeliver = 2
  MaxHandled = 2
  Workers = 1
  MaxCalls = 3
  MaxRetries = 1
CONSTRAINT AsksMeet
SPECIFICATION Spec
CHECK_DEADLOCK FALSE
INVARIANTS
  TypeOK
  AnsweredIsSaved
  OncePerRun
  HistoryIsTrue
  ConversationHolds
