SPECIFICATION Spec
CONSTANTS
  None = None
  Clients = {c1, c2}
  World = World
  Rooms = Rooms
  Internal = Internal
  Agents = Agents
  Mcps = Mcps
  Containers <- ContainerOrder
  Home = Home
  Lobby = Lobby
  Fork = Fork
  LookTool = LookTool
  Look = Look
  Agent = Agent
  Mcp = Mcp
  t1 = t1
  t2 = t2
  note = note
  McpNames = {t1, t2}
  Names = {note}
  Hook = Hook
  Places = {Lobby, Fork}
  Conjured <- SomeThings
  Patterns <- SomePatterns
  Versions <- OfferedVersions
  MaxThings = 3
  MaxEquips = 4
  MaxCalls = 3
  MaxSyncs = 1
  MaxCrashes = 1
  MaxWork = 6
SYMMETRY Symmetry
INVARIANTS TypeOK SyncIsExact ForkIsFaithful WorldIsComplete
PROPERTIES DroppedStays
CHECK_DEADLOCK FALSE
