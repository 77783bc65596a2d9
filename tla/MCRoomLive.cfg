CONSTANTS
  Conn = {c1, c2}
  NoConn = NoConn
  Cleaner = Cleaner
  MaxParticipants = 2
  Capacity = 2
  TextFrames = {"chat"}
SPECIFICATION FairSpec
PROPERTIES
  DeletedRoomEmpties
  SlowReaderLeaves
  ImplementsTable
