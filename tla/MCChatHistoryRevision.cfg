\* Two turns, the first with a steer sent into it.
CONSTANTS
  MaxTurns = 2
  MaxRounds = 1
  MaxCompactions = 0
  MaxMishaps = 1
  Mishaps = {"steer"}
  RecentReplies = 1
SPECIFICATION HistorySpec
\* The chat ends with its last turn.
CHECK_DEADLOCK FALSE
INVARIANTS
  RevisionMeansTheHostRevised
