\* Safe for concurrent use (server.go 41).
CONSTANTS
  Clients = {c1}
  RingSize = 1
  SendBuffer = 1
  MaxVerdicts = 2
  MaxFailures = 1
SPECIFICATION SafetySpec
INVARIANTS
  SafeForConcurrentUse
