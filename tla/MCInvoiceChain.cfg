SPECIFICATION Spec
CONSTANTS
  Requests = {r1, r2, r3}
  Amounts = {1, 2}
  TaxIds = {A, B}
  Periods = {p}
  NoPeriod = NoPeriod
  NoHash = NoHash
INVARIANTS Correlative Linked
PROPERTIES ImplementsLog EveryTransactionEnds
CHECK_DEADLOCK FALSE
