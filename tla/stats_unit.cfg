SPECIFICATION Spec
CONSTANTS
  Client = {c1, c2}
  MaxWait = 2
  MaxBack = 1
  Tolerance = 1
  UnitPerMs = 1000
  Half = 2048
  MaxUses = 2
INVARIANTS
  SlowPoolGrows
