SPECIFICATION Spec
CONSTANT
  Message <- MCMessage
INVARIANTS TypeOK RequestReadBack AnswerReadBack PublishReadBack TopicWhereItIs CutRight
CHECK_DEADLOCK FALSE
