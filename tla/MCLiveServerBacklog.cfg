\* A freshly-connected browser receives the ring (server.go 29).
CONSTANTS
  Clients = {c1}
  RingSize = 2
  SendBuffer = 1
  MaxVerdicts = 3
  MaxFailures = 1
SPECIFICATION SafetySpec
INVARIANTS
  BacklogReceived
