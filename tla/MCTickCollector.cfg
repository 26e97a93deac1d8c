CONSTANTS
  Topics = {"tick", "bidask"}
  Callers = {c1}
  Capacity = 1
  Retries = 2
  Codes <- MCCodes
  MaxEvents = 3
  MaxFaults = 1
  MaxStops = 2
SPECIFICATION Spec
CHECK_DEADLOCK FALSE
INVARIANTS
  LeaseCoversStreams
PROPERTIES
  RenewalOpensSession
  
  QueuedIsSettled
  KeepsPromise
