\* Two requests save their copies of one passcode row over each other.
SPECIFICATION Spec
CONSTANTS
  Requests = {r1, r2}
  MaxFailed = 2
  Lockout = 1
  TicketLife = 1
  MaxHash = 2
  MaxTicket = 1
  MaxClock = 1
SYMMETRY Symmetry
INVARIANTS TypeOK LockedWhileAlone TicketOnce EnabledHasHash
PROPERTY GoneForGood
CHECK_DEADLOCK FALSE
