\* Liveness and the fair refinement: the same instance with two lines.
CONSTANTS
  Workers = {w1, w2}
  Capacity = 1
  ls = ls
  curl = curl
  Commands <- MCCommands
  Benign <- MCBenign
  Floor <- MCFloor
  FloorOn = TRUE
  MaxRisk = 0
  ErrorRisk = 0
  CacheSize = 1
  ResultsCap = 1
  MaxLines = 2
SPECIFICATION Spec
PROPERTIES
  ShutdownCompletes
  EveryPopWritten
  ImplementsStream
