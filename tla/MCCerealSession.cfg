SPECIFICATION SessionSpec
CONSTANTS
  Field <- MCField
  MaxFields = 5
INVARIANTS SessionTypeOK ReadsInOrder WritesInOrder ReadBack
