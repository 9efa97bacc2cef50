SPECIFICATION Spec
CONSTANTS
  Name <- MCName
  Filter <- MCFilter
  Topic <- MCTopic
  MaxRequest = 2
  Subscriber = {s1, s2}
  MaxCopies = 2
INVARIANTS TypeOK TreeWellFormed CacheCoherent
PROPERTY ImplementsPubSub
