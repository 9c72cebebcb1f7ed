\* The user signs out after the access token has expired.
SPECIFICATION WebSpec
CONSTANTS
  Tokens = {k1, k2}
  Requests = {r1, r2}
  Devices = {d1}
  MaxSession = 1
  MaxClock = 0
  AbsLife = 1
  IdleLife = 1
  NoToken = NoToken
  NoDevice = NoDevice
  Tabs = {t1, t2}
  Calls = {c1, c2}
  Posts = {p1, p2}
  Nobody = Nobody
SYMMETRY Symmetry
INVARIANT SignOutClosesSession
CHECK_DEADLOCK FALSE
