\* Three callers, a buffer of two, four alerts.
CONSTANTS
  Callers = {c1, c2, c3}
  BufferSize = 2
  MaxAlerts = 4
SPECIFICATION SinkSpec
INVARIANTS
  SinkTypeOK
  EveryAlertCounted
  ClosedMeansDrained
PROPERTIES
  DeliveryFinal
  EveryCloseReturns
