\* A final response whose send is still pending in the transport.
SPECIFICATION Spec
CONSTANTS
  Workers = {w1}
  Kinds <- UasInvite
  Codes <- Responses
  MaxAlt = 1
INVARIANTS
  UasRetransmits
