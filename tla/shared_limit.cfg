\* The usage limit taken literally, with two callers.
SPECIFICATION Safe
CONSTANTS
  NbMaxThreads = 2
  Callers = {c1, c2}
  Owner = owner
  Nobody = nobody
  Jobs = {j1, j2}
  NoJob = nojob
  Ops = {"Shared"}
  MaxUsage = 1
  Quiesce = TRUE
INVARIANTS
  UsageLimit
