\* Safety: two workers race over a ring of one and a channel of one.
CONSTANTS
  Workers = {w1, w2}
  Capacity = 1
  ls = ls
  curl = curl
  Commands <- MCCommands
  Benign <- MCBenign
  Floor <- MCFloor
  FloorOn = TRUE
  MaxRisk = 0
  ErrorRisk = 0
  CacheSize = 1
  ResultsCap = 1
  MaxLines = 3
SPECIFICATION SafetySpec
SYMMETRY Symmetry
INVARIANTS
  ScorerTypeOK
  WrittenInOrder
  NoVerdictLost
  NoSendAfterClose
  SummaryAddsUp
