SPECIFICATION Spec
CONSTANTS
  Slots = {q1, q2}
  Emails = {e1, e2, e3}
  Students = {a, b}
  Teachers = {t1}
  Overlapping <- Apart
  Bulk = 1
  MaxUsers = 3
  MaxLinks = 3
INVARIANTS TypeOK InvoicedIsKept TeacherHasProfile
PROPERTIES OfficeStays LoginEndsWithItsChildren
SYMMETRY Symmetry
CHECK_DEADLOCK FALSE
