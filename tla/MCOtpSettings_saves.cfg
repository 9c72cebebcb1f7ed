\* Two requests save their copies of one settings row over each other.
SPECIFICATION Spec
CONSTANTS
  Requests = {r1, r2}
  MaxBatch = 2
  Size = 2
  NoCodes = NoCodes
SYMMETRY Symmetry
INVARIANTS TypeOK UnspentAreStored BackupCodeOnce
PROPERTIES GoneForGood DisabledWhileAlone
