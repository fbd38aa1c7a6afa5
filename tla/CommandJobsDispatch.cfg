CONSTANTS
  Jobs = {j1, j2}
  Conns = {c1, c2}
  Admins = {}
  None = None
  MaxInflight = 1
  MaxSlots = 1
  DownCap = 1
  UpCap = 1
  Service = service
  Setups = {s1, s2}
  DisplayVersions = {1, 2}
  AudioVersions = {1}
  MaxBoot = 3
  Devices = {"display"}
  Requests = {r1}
  Fast = 1
  MissingFor = 2
  PresentFor = 3
  Slow = 4
  RetryAfter = 4
  MaxChanges = 3
  Keys = {k1}
  MaxSwitches = 2
  MaxFrames = 0
  MaxInputs = 2
  Room = 1
SPECIFICATION DispatchSpec
SYMMETRY Symmetry
CONSTRAINTS
  ShortInput
  BriefBeside
INVARIANTS
  RunningIsWatched
  CommandFollowsRow
  DesktopHolds
PROPERTIES
  FinishedIsFrozen
  ImplementsLedger
CHECK_DEADLOCK FALSE
