CONSTANTS
  e1 = e1
  t1 = t1
  w1 = w1
  w2 = w2
  NoOne = NoOne
  NoRow = NoRow
  Events <- MCEvents
  Tests <- MCTests
  Workers <- MCWorkers
  Email = FALSE
  MaxAttempts = 1
  MaxClock = 1
  MaxRetries = 1
  MaxFaults = 1
SPECIFICATION BegunSpec
INVARIANTS AttemptBudget
PROPERTIES FencedResults RecoveryIsLast
CHECK_DEADLOCK TRUE
SYMMETRY Symmetry
