CONSTANTS
  t1 = t1
  t2 = t2
  a1 = a1
  r1 = r1
  r2 = r2
  l1 = l1
  x1 = x1
  d1 = d1
  d2 = d2
  Terms <- MCTerms
  Asks <- MCAsks
  MaxSessions = 1
  EventRoom = 1
  MaxInputs = 1
  MaxOutputs = 1
  Requests <- MCRequests
  MaxPending = 1
  MaxTasks = 1
  Logs <- MCLogs
  Execs <- MCExecs
  MaxStreams = 1
  Buffer = 1
  MaxChunks = 2
  StreamRoom = 1
  Desks <- MCDesks
  MaxConns = 2
  MaxLosses = 1
SPECIFICATION CasesSpec
INVARIANTS SessionsAreSound
PROPERTIES SessionsSettle
CHECK_DEADLOCK FALSE
