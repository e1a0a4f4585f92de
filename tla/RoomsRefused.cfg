SPECIFICATION Spec
CONSTANTS
  s1 = s1
  s2 = s2
  m1 = m1
  u1 = u1
  u2 = u2
  Sessions = {s1}
  Replies = {}
  Clients = {}
  Users = {u1, u2}
  UserOf <- MCUserOf
  Rooms = {lobby, jam}
  Lobby = lobby
  None = None
  MaxCalls = 3
  MaxCrashes = 0
CHECK_DEADLOCK FALSE
PROPERTY RefusedRoomsExist
