SPECIFICATION Spec
CONSTANTS
  Length <- WholeLength
  Keys <- MCKeys
  Values <- MixedValues
  Images <- MCImages
  MaxEdits = 3
CHECK_DEADLOCK FALSE
INVARIANT SetThenGet
