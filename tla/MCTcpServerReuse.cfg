SPECIFICATION FairSpec
CONSTANTS
  Name <- MCName
  Filter <- MCFilter
  Topic <- MCTopic
  MaxRequest = 1
  Address = {c1, c2}
  Message <- MCMessage
  MaxAccepts = 3
  MaxReads = 2
  MaxBatch = 2
PROPERTY OnlySubscribersReceive
CHECK_DEADLOCK FALSE
