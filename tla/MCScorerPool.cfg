\* Three workers, two commands that compete for a cache of one entry.
CONSTANTS
  Workers = {w1, w2, w3}
  ls = ls
  curl = curl
  nmap = nmap
  Commands <- MCCommands
  Benign <- MCBenign
  Floor <- MCFloor
  FloorOn = TRUE
  MaxRisk = 1
  ErrorRisk = 1
  CacheSize = 1
  MaxCalls = 3
SPECIFICATION PoolSpec
INVARIANTS
  PoolTypeOK
  SingleFlight
  ResultsGenuine
  ScoredOncePerResidency
  CacheAgrees
PROPERTIES
  EveryCallReturns
  ImplementsScoreOnce
