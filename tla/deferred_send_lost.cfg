\* A response sent while the transport is still busy with another.
SPECIFICATION Spec
CONSTANTS
  Workers = {w1}
  Kinds <- UasInvite
  Codes <- Responses
  MaxAlt = 1
INVARIANTS
  DeferredSend
