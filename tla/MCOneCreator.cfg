CONSTANTS
  Conn = {c1, c2, c3}
  NoConn = NoConn
  Cleaner = Cleaner
  MaxParticipants = 2
  Capacity = 2
  TextFrames = {"chat"}
SPECIFICATION Spec
INVARIANT OneCreator
