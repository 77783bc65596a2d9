CONSTANTS
  ip = ip
  room = room
  Key = {ip, room}
  Capacity <- Capacities
  Period = 3
  MaxBuckets = 1
  IdleTTL = 3
  Task = {t1, t2}
  Sweeper = Sweeper
  Watched = ip
  MaxClock = 4
SPECIFICATION Spec
INVARIANTS
  TypeOK
  BudgetHeld
  RetryHonest
SYMMETRY Symmetry
