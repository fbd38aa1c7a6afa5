CONSTANTS
  Releases = {1}
  Instances = {i1, i2}
  Privileged = {i1, i2}
  Capable = {i1}
  Admins = {a1}
  Reconcilers = {}
  None = None
  MaxAttempts = 2
  MaxRetry = 0
SPECIFICATION Spec
INVARIANTS
  RollbackStopsDistribution
CHECK_DEADLOCK FALSE
