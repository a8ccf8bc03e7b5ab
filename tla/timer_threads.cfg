\* Two threads schedule, cancel and poll; the heap starts at its smallest and grows.
SPECIFICATION Spec
CONSTANTS
  Entries = {e1, e2}
  Threads = {t1, t2}
  Groups = {g1}
  NoGroup = NoGroup
  Null = Null
  Size = 0
  Delays = {0, 1}
  MaxPerPoll = 2
  Serialised = TRUE
  MaxNow = 1
SYMMETRY ThreadSymmetry
INVARIANTS
  FreelistWhole
  ScheduledOnce
  RefsExact
PROPERTIES
  ImplementsService
