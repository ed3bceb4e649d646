CONSTANTS
  Thief = {s1, s2}
  InitArgs <- MCInitArgs
  FullFence = FALSE
  MaxPush = 3
  Torn = Torn
  Junk = Junk
SPECIFICATION Spec
INVARIANTS HandedOutOnce
