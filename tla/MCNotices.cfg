SPECIFICATION Spec
CONSTANTS
  a = a
  b = b
  mother = mother
  father = father
  ana = ana
  Workers = {w1}
  Students = {a, b}
  Addresses = {mother, father, ana}
  Families <- Both
  INTERVAL_DAYS = 2
  MAX_REMINDERS = 2
  WINDOW = 1
  MAX_RECIPIENTS = 300
  CONCURRENCY = 2
  Desks <- Separately
  MaxRows = 2
  MaxFaults = 2
  MaxPushes = 3
INVARIANTS OnlyFaultsRepeat RemindersSpaced
PROPERTY AllReminded
CHECK_DEADLOCK FALSE
