SPECIFICATION Spec
CONSTANTS
  Slots = {q1, q2}
  Runs = {u1, u2}
  Students = {a}
  Months = {may}
  Exempt = {}
  Given = {"ACTIVE", "DROPPED"}
  MaxCapacity = 1
  MAX_TRIALS_PER_SESSION = 1
  MaxEnrollments = 2
  Fees = {1, 999, 4550, 12033}
  Percents = {0, 10, 33, 100}
  MonthLengths = {28, 31}
  ClassDays = {1, 9, 17, 25}
INVARIANTS TypeOK PeriodInvoicedOnce RetriesChargeNobodyAgain MonthIsShared
PROPERTIES RunBillsEveryone
SYMMETRY Symmetry
CHECK_DEADLOCK FALSE
