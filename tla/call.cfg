\* The call over a network that delays and reorders, two operations.
SPECIFICATION FairSpec
CONSTANTS
  Ops <- CallOps
  MaxOps = 2
  Accept = TRUE
  Events = {"mismatch at answerer"}
INVARIANTS
  Agreement
  SdpAlive
  VersionTells
  GlareRejected
  ByeAfterAck
PROPERTIES
  NoHalfCall
  Answered
CHECK_DEADLOCK FALSE
