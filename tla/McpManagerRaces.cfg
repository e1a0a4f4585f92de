SPECIFICATION SafeSpec
CONSTANTS
  Names = {n1}
  Endpoints = {e1, e2}
  t1 = t1
  t2 = t2
  Tools = {t1, t2}
  Offers <- OneListEach
  None = None
  Callers = {}
  MaxAdds = 3
  MaxRemoves = 1
  MaxAttempt = 1
  MaxCalls = 1
INVARIANTS EntryIsDesired EntryIsServed StatusTruthful ToolsMatchService LostEntryHasCulprit ServicesAreHeld
