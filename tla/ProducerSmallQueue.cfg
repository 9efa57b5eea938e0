SPECIFICATION Spec
CONSTANTS
  MaxCalls = 2
  MaxStrays = 1
  Framing = 74
  BrokerMax = 33554432
  QueueBytes = 1000
  Sizes <- MCSmallSizes
PROPERTY ReturnsIfRoom
CHECK_DEADLOCK FALSE
