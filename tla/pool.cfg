\* Two threads, two callers, three calls of any kind, from Start to Stop.
SPECIFICATION Safe
CONSTANTS
  NbMaxThreads = 2
  Callers = {c1, c2}
  Owner = owner
  Nobody = nobody
  Jobs = {j1, j2, j3}
  NoJob = nojob
  Ops = {"Execute", "ExecuteAll", "TryExecute", "Shared"}
  MaxUsage = 1
  Quiesce = TRUE
SYMMETRY Symmetry
INVARIANTS
  TypeOK
  NoLostWakeup
  CleanHandOver
  ExecutedAsOwed
  BroadcastOnce
PROPERTIES
  ImplementsJobSlots
