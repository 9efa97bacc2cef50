SPECIFICATION Spec
CONSTANTS
  Publishes <- MCPublishes
  Replies <- MCReplies
  ReplyLength = 2
  BufferSize = 3
  Room = 3
INVARIANTS ReceivesPublishes
CHECK_DEADLOCK FALSE
