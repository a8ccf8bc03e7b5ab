\* The array and the ids: every full array of seven timers, emptied in every order.
SPECIFICATION FullSpec
CONSTANTS
  Entries <- SevenEntries
  Threads = {t1}
  Groups = {}
  NoGroup = NoGroup
  Null = Null
  Size = 8
  Delays = {0}
  MaxPerPoll = 1
  Serialised = TRUE
  MaxNow = 0
INVARIANTS
  ArrayWhole
CHECK_DEADLOCK FALSE
