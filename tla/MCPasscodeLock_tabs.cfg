\* Two tabs of one browser with at most two requests on their way.
SPECIFICATION FairSpec
CONSTANTS
  Tabs = {t1, t2}
  Timeout = 1
  MaxBusy = 2
  Never = Never
INVARIANTS TypeOK LockIsArmed LockHolds
PROPERTIES IdleTabLocks
