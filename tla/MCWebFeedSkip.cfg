\* A skipped frame was shown from the history (useVerdicts.ts 81).
CONSTANTS
  Clients = {c1}
  RingSize = 2
  SendBuffer = 1
  MaxVerdicts = 2
  MaxFailures = 0
  HistoryLimit = 2
  MaxItems = 2
  Times = {1, 2}
SPECIFICATION Spec
INVARIANTS
  SkippedWasLoaded
