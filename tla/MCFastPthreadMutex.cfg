CONSTANTS
  Thread = {t1, t2, t3}
  Nobody = Nobody
  Rounds = 2
SPECIFICATION FairSpec
INVARIANTS MutualExclusion NoLostWakeup
PROPERTIES ImplementsLock EverybodyFinishes
