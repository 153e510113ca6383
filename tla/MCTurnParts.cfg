\* Four processes, two crashes, one process that stops answering.
\* Two turns of a chat, the second possibly while the first one winds down.
\* A loop of five rounds, the last one with a periodic pass: a window that
\* holds two growths over what a pass leaves.
CONSTANTS
  MaxSpawns = 4
  MaxCrashes = 2
  MaxPingFailures = 1
  Turn = {u1, u2}
  MaxDeaths = 1
  Window = 7
  Threshold = 5
  Margin = 1
  Kept = 3
  Slack = 1
  Growth = {2, 5}
  MicroEvery = 4
  RefillWindow = 2
  MaxRefills = 2
  MaxFailures = 2
  MaxRetries = 2
  MaxRounds = 5
SPECIFICATION PartsSpec
\* A supervisor that has shut down, or that was refused a process, is at rest;
\* a chat with no turn under way and the last round do nothing more.
CHECK_DEADLOCK FALSE
INVARIANTS
  PartsTypeOK
  SingleLineage
  NoOrphan
  
PROPERTIES
  RecoversFromExit
  AbortSettles
  CancelEndsTheStream
  EndOfALoopIsSaid
  RoundsEnd
  BreakerIsEarned
