CONSTANTS
  r1 = r1
  t1 = t1
  t2 = t2
  Id = {r1}
  Task = {t1, t2}
  RoomOf <- OneRoom
  Cleaner = Cleaner
  NoTask = NoTask
  Pool = 1
  Wait = 2
  Hours = {1, 2, 15}
  HourSecs = 2
  Half = 16
  MaxClock = 6
SPECIFICATION FairSpec
INVARIANTS
  BackBounded
PROPERTIES
  KeptWhileActive
  ImplementsTable
  LockReleased
