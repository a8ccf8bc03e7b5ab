\* Two agents of either role, one or two pairs and components; one thread and two, loss and stop.
SPECIFICATION FairSpec
CONSTANTS
  Pairs <- AllPairs
  Comp <- Components
  Foundation <- Foundations
  Prio <- Priorities
  Worlds <- AllWorlds
INVARIANTS
  RolesDiffer
  NominatedByPeer
PROPERTIES
  Notified
  Succeeds
CHECK_DEADLOCK FALSE
