SPECIFICATION FairSpec
CONSTANTS
  Client = {c1, c2}
  Instance = {i1, i2, i3}
  NoInstance = NoInstance
  MinSize = 1
  ChangeSize = 2
  MaxSize = 3
  BatchSize = 2
  ApplyThreshold = 0
  DiscardCount = 0
  Outcome = {"ok"}
  MayFail = FALSE
  MayNest = FALSE
  MayClose = TRUE
  MaxResets = 1
  MaxSignals = 1
  MaxDiscards = 0
PROPERTIES
  WaitersLeave
  ImplementsLoop
  DrainsEnd
