CONSTANTS
  Thread = {t1, t2}
  Nobody = Nobody
  Rounds = 2
SPECIFICATION Spec
INVARIANT CounterIsExact
