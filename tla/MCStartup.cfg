CONSTANTS
  None = None
  Process = {p1, p2}
  Room = {r1, r2}
  Garbling <- Settings
  MaxFaults = 2
SPECIFICATION FairSpec
INVARIANTS
  TypeOK
  RoomsSurvive
  ServesMigrated
PROPERTIES
  ComesUp
  CleansUp
