CONSTANTS
  Room = {r1, r2}
  Attempt = {a}
  Text <- Texts
  Nfc <- Normal
  Bytes <- Size
  Chars <- Count
  MaxBytes = 1024
  CharRange <- Lengths
  Blocklists <- Lists
  Invalid = Invalid
  None = None
SPECIFICATION Spec
INVARIANTS
  RightFailsForCause
PROPERTIES
  OnlyTheSame
CHECK_DEADLOCK FALSE
