\* One turn, no crash.
CONSTANTS
  Turn = {t1}
  MaxDeaths = 0
SPECIFICATION TurnSpec
CHECK_DEADLOCK FALSE
INVARIANT
  NoHostIsStranded
