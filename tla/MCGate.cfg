CONSTANTS
  s1 = s1
  s2 = s2
  s3 = s3
  s4 = s4
  ip1 = ip1
  ip2 = ip2
  ip3 = ip3
  Creation = {r}
  Socket = {s1, s2, s3, s4}
  Address = {ip1, ip2, ip3}
  AddressOf <- Addresses
  Slots = 1
  MaxPending = 2
  MaxPendingPerIp = 1
SPECIFICATION Spec
INVARIANTS
  TypeOK
  GateHolds
  PermitsConserved
  PendingConserved
  AuthBounded
PROPERTIES
  ImplementsAccess
SYMMETRY Symmetry
CHECK_DEADLOCK FALSE
