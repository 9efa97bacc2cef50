SPECIFICATION FairSpec
CONSTANTS
  Name <- MCName
  Filter <- MCFilter
  Topic <- MCTopic
  MaxRequest = 1
  Address = {c1, c2}
  Message <- MCMessage
  MaxAccepts = 3
  MaxReads = 2
  MaxBatch = 2
INVARIANTS TypeOK NeverDeaf OpenIsManaged SubscribersLive DisconnectedForgotten
PROPERTIES SentAsSubscribed Drains
CHECK_DEADLOCK FALSE
