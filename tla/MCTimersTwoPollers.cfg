CONSTANTS
  Timer = {once, again}
  Recurring = {again}
  User = {u1}
  Poller = {p1, p2}
  NoTimer = NoTimer
  Periods = {0, 2}
  Hour = 1
  MaxTime = 2
  MaxJumps = 1
SPECIFICATION Spec
SYMMETRY PollersAlike
INVARIANTS SetIsSound OneShotOnce CancelIsFinal
CHECK_DEADLOCK FALSE
