\* Two users, one of them listed twice, under the fairness of the loop.
CONSTANTS
  u1 = u1
  u2 = u2
  Users = {u1, u2}
  Games = {portal}
  NoGame = NoGame
  Order <- MCOrder
SPECIFICATION LiveSpec
INVARIANTS
  TypeOK
  OneOpenSession
PROPERTIES
  WritesOneAnswer
  FollowsSteam
