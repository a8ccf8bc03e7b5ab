SPECIFICATION FairSpec
CONSTANTS
  Threads = {t1, t2}
  Users = {u1, u2}
  Nobody = Nobody
  MaxTransports = 2
  MaxUses = 1
INVARIANTS
  UnusedEnds
  TimerDies
PROPERTIES
  CalledBack
  ShutEnds
CHECK_DEADLOCK FALSE
