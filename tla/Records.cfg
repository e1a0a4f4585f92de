\* Two callers and the administrator: three commands that add a row, or five
\* others, or two of each (MaxTalk counts 3 for the one and 2 for the other);
\* three edits of the prompts at two paths; three exits among three rooms.
SPECIFICATION RecordsSpec

CONSTANTS
  None = None
  ana = ana
  ben = ben
  admin = admin
  hana = hana
  ivo = ivo
  qwen = qwen
  key1 = key1
  key2 = key2
  star = star
  lobby = lobby
  attic = attic
  cellar = cellar
  greeting = greeting
  style = style
  Clients <- MCPeople
  Admin = admin
  Humans <- MCHumans
  Models = {qwen}
  Keys <- MCKeys
  Tags = {star}
  MaxTalk = 10
  MaxMarks = 1
  Editors <- MCPeople
  Paths <- MCPaths
  MaxEdits = 3
  Diggers <- MCPeople
  Rooms <- MCRooms
  MaxDigs = 3

SYMMETRY Symmetry

INVARIANTS
  TypeOK
  OrderIsKept
  SaidIsShown
  KeysOpen
  PromptsInOrder
  RoomsLead

\* Every bound is used up.
CHECK_DEADLOCK FALSE
