SPECIFICATION Spec
CONSTANTS
  Slots = {s1}
  Days = {1, 2}
  WeekLength = 7
  Durations = {45, 60}
  NationalDays = {1}
  Statuses = {"SCHEDULED", "COMPLETED", "CANCELLED"}
  Overlapping <- Nothing
  MaxClasses = 4
  MaxHolidays = 2
  MaxEdits = 1
  Zones <- SomeZones
PROPERTIES HeldStays
SYMMETRY Symmetry
CHECK_DEADLOCK FALSE
