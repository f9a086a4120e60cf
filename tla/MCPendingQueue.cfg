\* Three workers, a ring of three that wraps and overflows.
CONSTANTS
  Workers = {w1, w2, w3}
  Capacity = 3
  MaxPushes = 7
SPECIFICATION Spec
INVARIANTS
  TypeOK
  HoldsNewest
  SurvivorsInOrder
  NoIdleWorker
PROPERTIES
  WorkersExit
  ImplementsFifo
