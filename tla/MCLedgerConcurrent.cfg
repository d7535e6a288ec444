SPECIFICATION Spec
CONSTANTS
  Slots = {s1, s2}
  Invoices = {i1}
  Amounts = {2}
  Incoming = {1}
  RectifiedTo = {}
  Fees = {}
  References = {f1}
  Remittances = {r1}
  DueDates = {0}
  NoDay = NoDay
  LastDay = 1
  MaxPayments = 2
INVARIANTS TypeOK PaidWithinAmount StatusMatchesPaid ReceiptHasItsPayment CollectedLeavesNoneSent
PROPERTY OverdueIsFlagged
CHECK_DEADLOCK FALSE
