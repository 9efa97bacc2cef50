SPECIFICATION Spec
CONSTANTS
  Shape <- MCShape
  Number <- MCNumber
  Index <- MCIndex
INVARIANTS
  TypeOK
  LoopsEnd
PROPERTY
  ImplementsView
\* A refused call ends the program.
CHECK_DEADLOCK FALSE
