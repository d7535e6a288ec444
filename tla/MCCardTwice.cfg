SPECIFICATION Spec
CONSTANTS
  Slots = {s1, s2}
  Invoices = {i1}
  Amounts = {1}
  Incoming = {}
  RectifiedTo = {}
  Fees = {}
  References = {f1}
  Remittances = {}
  DueDates = {}
  NoDay = NoDay
  LastDay = 0
  MaxPayments = 2
INVARIANT CardRecordedOnce
CHECK_DEADLOCK FALSE
