SPECIFICATION Spec
CONSTANTS
  Length <- SmallLength
  Keys <- MCKeys
  Values <- MCValues
  Images <- MCImages
  MaxEdits = 5
CHECK_DEADLOCK FALSE
INVARIANTS Consistent CrcCoversEntries
PROPERTY RefinesStore
