CONSTANTS
  None = None
  r1 = r1
  r2 = r2
  r3 = r3
  k1 = k1
  k2 = k2
  k3 = k3
  browser = browser
  hasty = hasty
  clerk = clerk
  Requests = {r1, r2, r3}
  Clients = {browser, hasty, clerk}
  Calm = {browser}
  Keeps <- MCKeeps
  Kinds = {"me", "guarded", "login", "logout", "create"}
  Users = {u1}
  Names = {n1}
  Mails = {m1, m2}
  Keys = {k1, k2, k3}
SYMMETRY Symmetry
CONSTRAINT CreationsApart
SPECIFICATION Spec
CHECK_DEADLOCK FALSE
INVARIANTS
  TypeOK
  SessionFollowsClient
  SessionsAreSeparate
  AccountsAreSound
