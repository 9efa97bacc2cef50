SPECIFICATION FairWalkSpec
CONSTANTS
  Name <- MCName
  Filter <- MCFilter
  Topic <- MCTopic
  MaxRequest = 1
INVARIANTS WalkTypeOK NoneTwice ReachesPublishedNodes ReachesMatches
PROPERTY Terminates
CHECK_DEADLOCK FALSE
