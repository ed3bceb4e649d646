CONSTANTS
  Timer = {once, again}
  Recurring = {again}
  User = {u1, u2}
  Poller = {p1}
  NoTimer = NoTimer
  Periods = {1, 2}
  Hour = 3
  MaxTime = 2
  MaxJumps = 0
SPECIFICATION FairSpec
INVARIANTS NoOversleep
PROPERTIES NeverEarly DueTimersFire
CHECK_DEADLOCK FALSE
