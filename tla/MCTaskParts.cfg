\* A tool call: two prompts that may overlap, a cap of three ticks, time for
\* both and more.  Two runs of a loop, the second one resumed, a batch of two
\* calls, a stream.  Three tasks: a chain, or one waiting for two; a second
\* stream, a restart.
CONSTANTS
  Prompt = {a1, a2}
  Cap = 3
  AskTimeouts = {0, 2}
  Horizon = 8
  MaxLoopRuns = 2
  ToolSlot = {k1, k2}
  MaxStreams = 1
  MaxChunks = 1
  MaxSteers = 1
  Task = {t1, t2, t3}
  MaxDeps = 2
  MaxRuns = 2
  MaxRestarts = 1
SPECIFICATION PartsSpec
\* A call that has its result, a run that has returned and a chat with no task
\* under way are ends.
CHECK_DEADLOCK FALSE
INVARIANTS
  PartsTypeOK
  CapCoversTheCommand
  TimeoutWithdrawsNoPrompt
  NoTaskOutlivesTheRun
  IgnitedWhenReady
  InheritedIsTerminal
PROPERTIES
  CallReturnsUnlessAsking
  CancelEndsTheRun
  DecidedIsUnblocked
