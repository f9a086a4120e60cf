\* A page that connects twice, two verdicts with any of two times, a buffer of one.
CONSTANTS
  Clients = {c1, c2}
  RingSize = 1
  SendBuffer = 1
  MaxVerdicts = 2
  MaxFailures = 0
  HistoryLimit = 2
  MaxItems = 2
  Times = {1, 2}
SPECIFICATION Spec
VIEW View
INVARIANTS
  
  NoDoubles
