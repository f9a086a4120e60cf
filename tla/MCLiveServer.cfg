\* One browser that may stop reading or leave, a ring of three, a buffer of two,
\* five verdicts of which the store may refuse one.
CONSTANTS
  Clients = {c1}
  RingSize = 3
  SendBuffer = 2
  MaxVerdicts = 5
  MaxFailures = 1
SPECIFICATION Spec
INVARIANTS
  TypeOK
  RingIsNewest
  NoneMissed
  OrderKept
PROPERTIES
  PublishNeverStalls
  ClosedLeavesHub
