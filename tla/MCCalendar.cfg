SPECIFICATION Spec
CONSTANTS
  Slots = {s1, s2}
  Days = {1, 2}
  WeekLength = 7
  Durations = {45, 60}
  NationalDays = {1}
  Statuses = {"SCHEDULED", "COMPLETED", "CANCELLED"}
  Overlapping <- Planned
  MaxClasses = 4
  MaxHolidays = 2
  MaxEdits = 1
  Zones <- SomeZones
INVARIANTS NoTwins FreeOnHolidays ComesBack LocalTimeKept
SYMMETRY Symmetry
CHECK_DEADLOCK FALSE
