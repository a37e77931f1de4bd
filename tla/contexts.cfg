SPECIFICATION Spec
CONSTANTS
  Tx = {t1, t2, t3}
  NoTx = NoTx
  MaxIndex = 3
SYMMETRY Symmetry
INVARIANTS
  ContextTypeOK
  OwnContext
  NoStaleContext
