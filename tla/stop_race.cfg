\* A program that still calls TryExecute when the pool has been stopped.
SPECIFICATION Safe
CONSTANTS
  NbMaxThreads = 2
  Callers = {c1}
  Owner = owner
  Nobody = nobody
  Jobs = {j1}
  NoJob = nojob
  Ops = {"TryExecute"}
  MaxUsage = 1
  Quiesce = FALSE
INVARIANTS
  TakesLivingThread
