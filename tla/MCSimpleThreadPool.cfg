CONSTANTS
  Worker = {w1, w2}
  Caller = {c1, c2}
  k1 = k1
  k2 = k2
  k3 = k3
  k4 = k4
  NoTask = NoTask
  Task <- MCTask
  Child <- MCChild
SPECIFICATION FairSpec
INVARIANTS NothingLostOrDoubled NoStrandedTask
PROPERTIES AllTasksComplete DestructorReturns
CHECK_DEADLOCK FALSE
