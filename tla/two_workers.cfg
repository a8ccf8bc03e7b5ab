\* Every kind of transaction, two polling threads.
SPECIFICATION Spec
CONSTANTS
  Workers = {w1, w2}
  Kinds <- AnyKind
  Codes <- Responses
  MaxAlt = 1
SYMMETRY WorkerSymmetry
INVARIANTS
  RefCovers
  NoUseAfterFree
  FinalStopsInvite
  NeverStranded
PROPERTIES
  FallsSilentOnlyInCallback
