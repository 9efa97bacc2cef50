SPECIFICATION Spec
CONSTANT
  Message <- MCMessage
INVARIANT NoIdMeansNone
CHECK_DEADLOCK FALSE
