SPECIFICATION Spec
CONSTANTS
  Client = {c1, c2}
  MaxWait = 2
  MaxBack = 0
  Tolerance = 0
  UnitPerMs = 1
  Half = 17
  MaxUses = 3
INVARIANTS
  StatsTypeOK
  DelayAccounted
PROPERTIES
  AverageHonest
