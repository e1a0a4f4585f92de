\* What a turn offers against what its user and its model had equipped.
SPECIFICATION RuntimeSpec

CONSTANTS
  Above = ".."
  Sessions = {"ana"}
  Clients = {"claude"}
  Screen <- MCScreen
  Stable <- MCStable
  Parts <- MCParts
  Tools <- MCTools
  Own <- MCOwn
  Edited <- MCEdited
  Capacity = 1
  MaxWrites = 3
  Width = 4
  Height = 2
  Wide = "W"
  Joined = "j"
  Styles <- MCStyles
  Digest <- MCDigest
  Texts <- MCTexts
  Regions <- MCRegions
  Spots <- MCSpots
  Lengths = {1, 4}
  MaxDraws = 2
  Users = {"ana"}
  Visitors = {"c1"}
  Names = {"hana"}
  Rooms = {"lobby", "attic"}
  Lobby = "lobby"
  Models = {"qwen"}
  ReadTools = {"look"}
  WriteTools = {"say"}
  McpTools = {"sample"}
  UpdateCapacity = 2
  MaxTurns = 2
  MaxUpdates = 1
  MaxChanges = 2

INVARIANTS
  EquippedIsOffered

\* Every bound is used up.
CHECK_DEADLOCK FALSE
