SPECIFICATION Spec
CONSTANTS
  Names <- EveryPage
  Hasty <- Impatient
  MaxRequests = 3
  ClassRooms = {r1, r2}
  NoRoom = none
  Starts = {0, 1, 2}
  Lengths = {1, 2, 3}
  MaxInRooms = 3
  MaxInDay = 4
  MAX_CONFLICTS = 2
INVARIANTS
  NothingForbidden
  RefusedOnlyIfMoved
  PreviewIsOfTheChoice
  NothingStaysDisabled
  OverlapsAreSeen
CHECK_DEADLOCK FALSE
