\* Two turns, a crash in between.
CONSTANTS
  MaxTurns = 2
  MaxRounds = 1
  MaxCompactions = 0
  MaxMishaps = 1
  Mishaps = {"crash"}
  RecentReplies = 1
SPECIFICATION HistorySpec
\* The chat ends with its last turn.
CHECK_DEADLOCK FALSE
INVARIANTS
  ResumedTurnHasItsPrompt
