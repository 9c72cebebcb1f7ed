\* Three requests create, poll and scan three codes.
SPECIFICATION Spec
CONSTANTS
  c1 = c1  c2 = c2  c3 = c3
  r1 = r1  r2 = r2  r3 = r3
  Codes = {c1, c2, c3}
  Requests = {r1, r2, r3}
  NoCode = NoCode
  Life = 1
  MaxClock = 3
SYMMETRY Symmetry
INVARIANT TypeOK
PROPERTY KeepsOneTime
