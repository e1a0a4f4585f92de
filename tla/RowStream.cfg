SPECIFICATION Spec
CONSTANTS
  Mentions = {m1, m2}
  ToolUsers = {m1}
  Sessions = {s1}
  SessionOf <- OneSession
  ModelOf <- TwoModels
  MaxText = 2
  MaxCalls = 1
  ChunkCapacity = 1
  UpdateCapacity = 1
  m1 = m1
  m2 = m2
  s1 = s1
  s2 = s2
  d1 = d1
  d2 = d2
  Models = {d1, d2}
  None = None
INVARIANTS TypeOK TextIsConserved ShownOnce
PROPERTIES RepliesEnd ImplementsReply
CHECK_DEADLOCK FALSE

