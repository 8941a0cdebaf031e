CHECK_DEADLOCK FALSE
SPECIFICATION Spec
CONSTANTS
  HeaderLen = 2
  TrailerLen = 2
  Bodies = {0, 1, 3}
  Hints = {0, 1, 3}
  Media = 3
INVARIANT RepliesExact
INVARIANT SocketsAccounted
PROPERTY ReaderReleased
