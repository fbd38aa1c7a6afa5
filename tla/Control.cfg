CONSTANTS
  Jobs = {j1}
  Conns = {c1}
  Admins = {a1}
  None = None
  MaxInflight = 1
  MaxSlots = 1
  DownCap = 1
  UpCap = 1
  u1 = u1
  u2 = u2
  d1 = d1
  d2 = d2
  t1 = t1
  t2 = t2
  Accounts = {u1, u2}
  Devices = {d1, d2}
  Tokens = {t1, t2, t3}
  Logins = {t1, t2}
  MaxRequests = 2
  Calls = {r1, r2}
  MaxClock = 1
  MaxCalls = 2
  e1 = e1
  e2 = e2
  m1 = m1
  m2 = m2
  s1 = s1
  MaxPool = 2
SPECIFICATION ControlSpec
INVARIANTS
  DisabledIsCut
  AccessHolds
PROPERTIES
  JobsSettle
  SocketsEnd
  RegistryFrees
  PageSettles
CHECK_DEADLOCK FALSE
