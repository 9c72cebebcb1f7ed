\* A call that waits for a refresh is cancelled, and another meets a 401.
SPECIFICATION WebSpec
CONSTANTS
  Tokens = {k1, k2}
  Requests = {r1}
  Devices = {d1}
  MaxSession = 1
  MaxClock = 0
  AbsLife = 1
  IdleLife = 1
  NoToken = NoToken
  NoDevice = NoDevice
  Tabs = {t1}
  Calls = {c1, c2}
  Posts = {p1, p2}
  Nobody = Nobody
SYMMETRY Symmetry
INVARIANT SharedRefresh
CHECK_DEADLOCK FALSE
