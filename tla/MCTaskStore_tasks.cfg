\* Two requests on one process, with a restart or a failing statement.
SPECIFICATION FairSpec
CONSTANTS
  q1 = q1
  q2 = q2
  Replicas = {a}
  Requests = {q1, q2}
  MaxSaves = 2
  MaxTask = 2
  MaxVersion = 2
  MaxArrays = 2
  MaxFaults = 1
  NoReplica = NoReplica
CONSTRAINT InOrder
INVARIANTS TypeOK CreatedIsStored QuietAgreement
PROPERTIES ComesToRest
CHECK_DEADLOCK FALSE
