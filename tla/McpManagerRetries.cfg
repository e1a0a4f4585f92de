SPECIFICATION Spec
CONSTANTS
  Names = {n1}
  Endpoints = {e1, e2}
  t1 = t1
  t2 = t2
  Tools = {t1, t2}
  Offers <- OneListEach
  None = None
  Callers = {c1}
  MaxAdds = 2
  MaxRemoves = 1
  MaxAttempt = 2
  MaxCalls = 1
PROPERTIES CancelledLoopsEnd RetriesForever
