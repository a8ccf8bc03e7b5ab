\* Every kind of transaction, one polling thread, fair.
SPECIFICATION FairSpec
CONSTANTS
  Workers = {w1}
  Kinds <- AnyKind
  Codes <- FewResponses
  MaxAlt = 1
INVARIANTS
  TypeOK
  NoLeak
  ProvisionalStopsInvite
PROPERTIES
  ImplementsLifecycle
  Released
  Ends
