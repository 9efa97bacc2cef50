SPECIFICATION FairSpec
CONSTANTS
  Publishes <- MCPublishes
  Replies <- MCReplies
  ReplyLength = 2
  BufferSize = 3
  Room = 3
INVARIANTS TypeOK RightWithRoom StaticSentInOrder AllBytesCounted
PROPERTY WritesComplete
\* In the end every message is sent and received.
CHECK_DEADLOCK FALSE
