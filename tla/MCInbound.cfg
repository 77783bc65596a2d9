CONSTANTS
  Capacity = 7
  Cost = 3
  MaxClock = 9
SPECIFICATION Spec
INVARIANTS
  TypeOK
  RateBounded
  DroppedOnlyOverRate
PROPERTY ImplementsBucket
CHECK_DEADLOCK FALSE
