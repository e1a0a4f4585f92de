SPECIFICATION SubscribedSpec
CONSTANTS
  Names = {n1}
  Endpoints = {e1, e2}
  n1 = n1
  n2 = n2
  t1 = t1
  t2 = t2
  Tools = {t1, t2}
  Offers <- OneListEach
  None = None
  Callers = {}
  MaxAdds = 2
  MaxRemoves = 1
  MaxAttempt = 0
  MaxCalls = 1
  Capacity = 2
INVARIANTS ConnectedToolsSynced
