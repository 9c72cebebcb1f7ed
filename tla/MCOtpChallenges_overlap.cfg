\* All kinds of challenge, two requests that overlap, and time.
SPECIFICATION Spec
CONSTANTS
  Rows = {k1, k2}
  Codes = {c1, c2, c3}
  Requests = {r1, r2}
  Purposes = {"login", "signup", "reset", "passcode", "contact"}
  NoRow = NoRow
  NoCode = NoCode
  Life = 1
  MaxClock = 2
SYMMETRY Symmetry
INVARIANTS TypeOK OwnExpiry
PROPERTY GoneForGood
CHECK_DEADLOCK FALSE
