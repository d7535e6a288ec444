SPECIFICATION Spec
CONSTANTS
  Slots = {s1}
  Invoices = {i1, i2}
  Amounts = {1}
  Incoming = {1}
  RectifiedTo = {1}
  Fees = {}
  References = {}
  Remittances = {r1}
  DueDates = {}
  NoDay = NoDay
  LastDay = 0
  MaxPayments = 1
INVARIANT RectifiedIsCancelled
CHECK_DEADLOCK FALSE
