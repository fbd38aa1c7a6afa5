CONSTANTS
  w1 = w1
  w2 = w2
  s1 = s1
  Works <- MCWorks
  Streams <- MCStreams
  u1 = u1
  Workers <- MCWorkers
  None = None
  MaxVersion = 2
  MaxRetry = 1
  MaxFaults = 1
  MaxUpdates = 3
SPECIFICATION UpdateSpec
INVARIANTS StatusIsTrue FallbackIsKept FallbackIsPrevious
PROPERTIES  ImplementsGate WaitEnds
CHECK_DEADLOCK FALSE
