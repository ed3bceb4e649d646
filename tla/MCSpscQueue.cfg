CONSTANTS
  Elem = {a, b}
  Junk = Junk
  N = 3
  MaxPush = 7
SPECIFICATION FairSpec
INVARIANTS TypeOK Fifo NoDataRace
PROPERTIES FailsOnlyWhenItMust ImplementsFifo Delivered
