\* Two threads, two callers, two calls of any kind: what must eventually happen.
SPECIFICATION Spec
CONSTANTS
  NbMaxThreads = 2
  Callers = {c1, c2}
  Owner = owner
  Nobody = nobody
  Jobs = {j1, j2}
  NoJob = nojob
  Ops = {"Execute", "ExecuteAll", "TryExecute", "Shared"}
  MaxUsage = 1
  Quiesce = TRUE
PROPERTIES
  EveryJobRuns
  StopReturns
