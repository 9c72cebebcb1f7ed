\* Two tabs of one browser; a session may be refreshed twice.
SPECIFICATION WebSpec
CONSTANTS
  Tokens = {k1, k2, k3}
  Requests = {r1}
  Devices = {d1}
  MaxSession = 1
  MaxClock = 0
  AbsLife = 1
  IdleLife = 1
  NoToken = NoToken
  NoDevice = NoDevice
  Tabs = {t1, t2}
  Calls = {c1, c2}
  Posts = {p1, p2}
  Nobody = Nobody
CONSTRAINT CalmGoesOn
SYMMETRY Symmetry
INVARIANTS WebTypeOK NeverRebuffed CookieIsLive
PROPERTIES SignedInUntilSignOut
CHECK_DEADLOCK FALSE
