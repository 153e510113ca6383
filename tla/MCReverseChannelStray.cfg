CONSTANTS
  MaxProcesses = 2
  MaxReverse = 2
SPECIFICATION ChannelSpec
CHECK_DEADLOCK FALSE
INVARIANTS
  StraysAreIgnored
