SPECIFICATION Spec
CONSTANTS
  MaxDepth = 2
  MaxInvokes = 3
  MaxCalls = 2
  MaxGrows = 1
INVARIANTS
  InvocationTypeOK
  NothingLeftBehind
  ViewFresh
  CacheFresh
  NoVoidEvent
  FailureReported
  IteratorMarked
CHECK_DEADLOCK FALSE
