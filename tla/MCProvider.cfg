SPECIFICATION Spec
CONSTANTS
  Threads = {t1, t2}
  MaxPlans = 2
  MaxWork = 2
  Statuses = {1}
INVARIANTS
  WorkIsSound
CHECK_DEADLOCK FALSE
