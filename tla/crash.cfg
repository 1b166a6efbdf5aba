\* Two Threads and a thread outside the pool that crash at any time.
SPECIFICATION Spec
CONSTANTS
  Threads = {t1, t2}
  Outsider = outsider
  Nobody = nobody
  SegReport = TRUE
  MaxRestarts = 1
  MaxJobs = 3
  MaxTime = 2
INVARIANTS
  CrashedKeepsOut
  RestartNeedsDelay
PROPERTIES
  CrashAnswered
CHECK_DEADLOCK FALSE
