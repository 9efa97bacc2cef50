SPECIFICATION FairSpec
CONSTANTS
  Byte <- MCByte
  Message <- MCMessage
  BufferSize = 5
  MaxSent = 4
INVARIANTS TypeOK InStep RoomToRead NothingWithheld
PROPERTIES ImplementsChannel HandlesEverything
CHECK_DEADLOCK FALSE
