SPECIFICATION Spec
CONSTANTS
  Client = {c1, c2}
  Instance = {i1, i2, i3}
  NoInstance = NoInstance
  MinSize = 1
  ChangeSize = 1
  MaxSize = 2
  BatchSize = 1
  ApplyThreshold = 0
  DiscardCount = 0
  Outcome = {"ok", "err"}
  MayFail = FALSE
  MayNest = FALSE
  MayClose = FALSE
  MaxResets = 1
  MaxSignals = 1
  MaxDiscards = 1
SYMMETRY Symmetry
INVARIANTS
  WithinMaxSize
CHECK_DEADLOCK FALSE
