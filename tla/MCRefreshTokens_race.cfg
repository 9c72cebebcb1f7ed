\* Two requests race on one device; a token family may rotate twice, and live
\* for three days.
SPECIFICATION Spec
CONSTANTS
  Tokens = {t1, t2, t3}
  Requests = {r1, r2}
  Devices = {d1}
  MaxSession = 2
  MaxClock = 3
  AbsLife = 3
  IdleLife = 2
  NoToken = NoToken
  NoDevice = NoDevice
  InFlight = InFlight
  Lost = Lost
  Unborn = Unborn
SYMMETRY Symmetry
CONSTRAINT OverlapOnFirstDay
INVARIANTS TypeOK OneHeirPerFamily RedeemedWithinLifetime
PROPERTIES ClosedUntilLogin HoldsBaton
