\* One session, two processes, three threads; the sessions share the locks only,
\* and what is proved in SqliteLogProofs covers any number of them.
SPECIFICATION FairSpec
CONSTANTS
  s1 = s1  k1 = k1
  request = request  worker = worker  other = other
  p1 = p1  p2 = p2
  NoKey = NoKey
  None = None
  ValueError = ValueError
  RuntimeError = RuntimeError
  Sessions = {s1}
  Writers = {request, worker, other}
  Seqs = {1, 2}
  Keys = {k1}
  Procs = {p1, p2}
  ProcOf <- MCProcOf
INVARIANTS
  TypeOK BusyOnlyAcrossProcesses CheckedStillTrue KeysUnique SeqsUnique
PROPERTIES
  GrowsAtEnd Linearizable LocksReleased
