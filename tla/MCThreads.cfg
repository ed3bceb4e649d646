CONSTANTS
  Thread = {s, t, u}
  Nobody = nobody
  MaxReaders = 4
  SemUser = {s, t, u}
  Caller = {s, t, u}
  NoCaller = nobody
  Permits = 1
  Second = 2
  MaxStarts = 3
  Fiber = {f, g}
  Main = main
  NoFiber = nofiber
  MaxUthreads = 3
  MaxCreated = 5
SPECIFICATION ThreadsSpec
INVARIANTS HoldersAreKnown HandoversAreSound CoroutinesKeepState
PROPERTIES ClassesImplementLock NobodyWaitsForEver
CHECK_DEADLOCK FALSE
