CONSTANTS
  s1 = s1
  s2 = s2
  s3 = s3
  s4 = s4
  ip1 = ip1
  ip2 = ip2
  ip3 = ip3
  Creation = {r1, r2}
  Socket = {s1, s2}
  Address = {ip1}
  AddressOf <- Two
  Slots = 1
  MaxPending = 2
  MaxPendingPerIp = 2
SPECIFICATION FairSpec
PROPERTIES
  GuardsReturn
  PermitsReturn
CHECK_DEADLOCK FALSE
