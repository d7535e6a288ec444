SPECIFICATION Spec
CONSTANTS
  Slots = {s1}
  Invoices = {i1, i2}
  Amounts = {2}
  Incoming = {1}
  RectifiedTo = {1}
  Fees = {1}
  References = {}
  Remittances = {r1, r2}
  DueDates = {}
  NoDay = NoDay
  LastDay = 0
  MaxPayments = 2
INVARIANTS LedgerBalanced DirectDebitHasReceipt
SYMMETRY Symmetry
CHECK_DEADLOCK FALSE
