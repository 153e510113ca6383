\* Two prompts that may overlap, a cap of three ticks, time for both and more.
CONSTANTS
  Prompt = {p1, p2}
  Cap = 3
  AskTimeouts = {0, 2}
  Horizon = 8
SPECIFICATION Spec
\* A call that has its result, and the last tick, are ends.
CHECK_DEADLOCK FALSE
INVARIANTS
  TimeoutOnlyAfterTheCap
