\* Three tasks: a chain, or one waiting for two; a second stream, a restart.
CONSTANTS
  Task = {t1, t2, t3}
  MaxDeps = 2
  MaxRuns = 2
  MaxRestarts = 1
SPECIFICATION TaskSpec
\* A chat with no task in progress does nothing more.
CHECK_DEADLOCK FALSE
INVARIANTS
  BlockedIsScheduled
