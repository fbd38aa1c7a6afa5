CONSTANTS
  OfflineRules = {o1}
  MetricRules = {m1}
  ExpiryRules = {x1}
  Conns = {c1}
  Requests = {q1}
  Loop = Loop
  None = None
  Duration = 1
  Stability = 1
  MaxLag = 1
  MaxChanges = 1
  Windows = {"node"}
SPECIFICATION PartsSpec
INVARIANTS OpenIsWarranted
PROPERTIES RecoveryIsStable FiringIsSustained AlertsFollow
CHECK_DEADLOCK TRUE
