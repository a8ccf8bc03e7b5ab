\* The call when answers are late, transports fail and the 2xx is sent again.
SPECIFICATION FairSpec
CONSTANTS
  Ops = {"offerless invite", "reinvite", "hangup"}
  MaxOps = 1
  Accept = FALSE
  Events = {"timeout", "transport error", "retransmission"}
PROPERTIES
  ImplementsLifecycle
  HungUpEnds
CHECK_DEADLOCK FALSE
