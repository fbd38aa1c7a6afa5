CONSTANTS
  Releases = {1}
  Instances = {i1}
  Privileged = {i1}
  Capable = {i1}
  Admins = {a1}
  Reconcilers = {k1}
  None = None
  MaxAttempts = 3
  MaxRetry = 1
SPECIFICATION FairSpec
PROPERTIES
  PauseHoldsBack
  SecondUpgradeAfterRollback
  RollbackSettles
CONSTRAINTS
  ApprovedFirst
  UploadedOnce
  RetriedShortly
CHECK_DEADLOCK FALSE
