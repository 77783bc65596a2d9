CONSTANTS
  PingInterval = 6
  PongTimeout = 2
  Answer = 1
  MaxUnread = 1
  MaxClock = 25
SPECIFICATION Spec
INVARIANTS
  AnsweringClientKept
  SilenceBounded
CHECK_DEADLOCK FALSE
