SPECIFICATION FairSpec
CONSTANTS
  Caller = {t1, t2}
  Key = {k1, k2}
  Pool = {p1, p2}
  Nil = Nil
  MaxCalls = 3
INVARIANTS
  ManagerTypeOK
  OnePoolPerContract
  NoOrphanLoop
  CloseAllCloses
PROPERTIES
  GetReturns
  DrivesLoops
CHECK_DEADLOCK FALSE
