SPECIFICATION Spec
CONSTANTS
  Slots = {s1, s2}
  Names = {f}
  Namespaces = {a, b}
  Modules = {m1}
  Objects = {o1}
  Memories = {w1}
  MaxExports = 2
  Data = {d1, d2}
  N8 = 4
  N16 = 8
  N32 = 32
  N64 = 256
INVARIANTS
  HandlesTypeOK
  NoMisuse
  OpenIsWhole
  ClosedFreesAll
  ContextDataOwn
  ArgumentsExact
  ValuesExact
SYMMETRY Symm
CHECK_DEADLOCK FALSE
