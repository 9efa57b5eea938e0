SPECIFICATION Spec
CONSTANTS
  MaxCalls = 1
  MaxStrays = 1
  Framing = 74
  BrokerMax = 33554432
  QueueBytes = 33554399
  Sizes <- MCSizes
INVARIANT CalledOncePerMessage
CHECK_DEADLOCK FALSE
