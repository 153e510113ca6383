\* Three chats of two processes, two calls, two turns or deaths.
\* Three processes that open the store, three lock files.
\* Two sidecars, two calls of each: one is given up and another made.
\* Three turns with a tool round each, a compaction, and any two events that
\* are not part of a plain turn.
\* Two tasks that may share a worktree, two merges or removals at a time, and
\* a crash or a removal by the model.
CONSTANTS
  h1 = h1
  h2 = h2
  h3 = h3
  p1 = p1
  p2 = p2
  Chat = {h1, h2, h3}
  Process = {p1, p2}
  Home <- ThreeChats
  Category = {k1, k2}
  Call = {c1, c2}
  MaxBegun = 2
  Opener = {o1, o2, o3}
  MaxFiles = 3
  MaxProcesses = 2
  MaxReverse = 2
  MaxTurns = 3
  MaxRounds = 1
  MaxCompactions = 1
  MaxMishaps = 2
  Mishaps <- AllMishaps
  RecentReplies = 1
  Isolated = {w1, w2}
  Name = {n1, n2}
  Click = {m1, m2}
  MaxUpsets = 1
SPECIFICATION PartsSpec
\* A store that was left, a chat that has had its last turn, and tasks whose
\* worktrees are settled are ends.
CHECK_DEADLOCK FALSE
INVARIANTS
  PartsTypeOK
  AllowedByTheUser
  LastWordStands
  OwnAnswers
  OneOwner
  AttemptsLeaveAnOwner
  FaithfulChatsAreNeverRevised
  ModelKnowsTheConversation
  RecordMirrorsTheRun
  UnansweredIsOffered
  MergesLoseNothing
