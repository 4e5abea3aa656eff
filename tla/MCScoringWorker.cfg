\* Two callers, two jobs, two lifespans: the second start may find the thread of
\* the first still draining.
SPECIFICATION FairSpec
CONSTANTS
  None = None
  j1 = j1  j2 = j2  j3 = j3  c1 = c1  c2 = c2  t1 = t1  t2 = t2
  Jobs = {j1, j2}
  Callers = {c1, c2}
  Threads = {t1, t2}
  MaxResults = 1
  MaxStarts = 2
INVARIANTS
  OnePlace StopDrains
PROPERTIES
  ServiceSpec JobsFinish
CHECK_DEADLOCK FALSE
