CONSTANTS
  Releases = {1, 2}
  Instances = {i1}
  Privileged = {i1}
  Capable = {i1}
  Admins = {a1}
  Reconcilers = {k1}
  None = None
  MaxAttempts = 3
  MaxRetry = 0
  Programs = {1, 2}
  MaxRuns = 2
  MaxFaults = 2
  Users = {u1, u2}
  MaxPid = 2
  MaxTurns = 2
SPECIFICATION FleetSpec
INVARIANTS
  RolledBackIsBack
  SetupHolds
PROPERTIES
  ImplementsControl
  DeletionKeepsWayBack
CONSTRAINTS
  ApprovedFirst
  NeverDisabled
  UploadedOnce
  ApprovedEarly
  SecondFollows
  ThirdReturns
  HastyOnce
CHECK_DEADLOCK FALSE
