CONSTANTS
  e1 = e1
  t1 = t1
  w1 = w1
  w2 = w2
  NoOne = NoOne
  NoRow = NoRow
  Events <- MCEvents
  Tests = {}
  Workers <- MCWorker
  Email = TRUE
  MaxAttempts = 2
  MaxClock = 0
  MaxRetries = 0
  MaxFaults = 1
SPECIFICATION FairSpec
PROPERTIES Settles FirstReportReturns
CHECK_DEADLOCK TRUE
