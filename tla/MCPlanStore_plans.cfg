\* Two overlapping requests, the constructor's load and one fault over two plans.
SPECIFICATION Spec
CONSTANTS
  Requests = {r1, r2}
  Boot = boot
  DigiCodes = {3}
  DemoCodes = {3}
  BmsCode = 2
  MaxId = 3
  MaxPlan = 2
  MaxVersion = 2
  MaxPhase = 1
  MaxObjects = 3
  MaxArrays = 3
  MaxBegun = 3
  MaxRunning = 2
  MaxFaults = 1
SYMMETRY Symmetry
CONSTRAINT Bounded
INVARIANTS TypeOK CreatedIsStored RestartShowsPlans OwnPhases
CHECK_DEADLOCK FALSE
