SPECIFICATION Spec
CONSTANTS
  MaxCalls = 3
  MaxStrays = 2
  Framing = 74
  BrokerMax = 33554432
  QueueBytes = 33554399
  Sizes <- MCSizes
INVARIANTS TypeOK NoDuplicate HonestReports RejectedNeverSent HandlesReleased
  Accounted OrderKept NeverRetries
PROPERTIES ImplementsDelivery Returns
CHECK_DEADLOCK FALSE
