SPECIFICATION SafeSpec
CONSTANTS
  s1 = s1
  s2 = s2
  m1 = m1
  u1 = u1
  u2 = u2
  Sessions = {s1, s2}
  Replies = {m1}
  Clients = {x1}
  Users = {u1, u2}
  UserOf <- MCUserOf
  Rooms = {lobby, jam, den}
  Lobby = lobby
  None = None
  MaxCalls = 4
  MaxCrashes = 1
CHECK_DEADLOCK FALSE
INVARIANT TypeOK NoGhostRooms ListedWhereSessionIs
PROPERTY NotDroppedByOthers
