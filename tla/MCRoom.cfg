CONSTANTS
  Conn = {c1, c2, c3}
  NoConn = NoConn
  Cleaner = Cleaner
  MaxParticipants = 2
  Capacity = 2
  TextFrames = {"chat", "tree_welcome"}
SPECIFICATION Spec
INVARIANTS
  TypeOK
  NoGhosts
  NeverOverfull
  NeverResurrected
  ExpiryReachesAll
  ViewConverges
  SendersKnown
PROPERTIES
  CreatorStable
  ImplementsMembership
SYMMETRY Symmetry
