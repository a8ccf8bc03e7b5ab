\* Three threads; a lock before the group's own for good, one after it that
\* joins and leaves.
SPECIFICATION Spec
CONSTANTS
  t1 = t1
  t2 = t2
  t3 = t3
  x = x
  y = y
  Threads = {t1, t2, t3}
  Creator = t1
  Externals = {x, y}
  Prio <- Around
  NoThread = NoThread
  End = End
  OwnLock = own_lock
  Chained = {x}
  Joining = {y}
  MaxDepth = 2
  MaxGrants = 1
  MaxHandlers = 1
SYMMETRY ThreadSymmetry
INVARIANTS
  HoldsWhatItUses
  RefsExact
  DestroyedOnce
  NoDeadlock
