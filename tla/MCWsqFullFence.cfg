CONSTANTS
  Thief = {s1, s2}
  InitArgs <- MCInitArgs
  FullFence = TRUE
  MaxPush = 3
  Torn = Torn
  Junk = Junk
SPECIFICATION FairSpec
INVARIANTS HandedOutOnce OnlyWholeItems
PROPERTIES ImplementsDeque NothingForgotten
