\* What is left to redeem after a reuse was detected and answered.
SPECIFICATION ReuseSpec
CONSTANTS
  Tokens = {t1, t2}
  Requests = {r1, r2}
  Devices = {d1}
  MaxSession = 1
  MaxClock = 0
  AbsLife = 1
  IdleLife = 1
  NoToken = NoToken
  NoDevice = NoDevice
INVARIANT ReuseRevokesFamilyAndSession
