SPECIFICATION SessionSpec
CONSTANTS
  Field <- MCField
  MaxFields = 4
INVARIANT RoundTrip
