SPECIFICATION Spec
CONSTANTS
  d1 = d1 d2 = d2 b1 = b1 b2 = b2 e1 = e1 None = None
  Deflators = {d1, d2}
  DataBuffers = {b1, b2}
  FragmentBuffers = {e1}
  WriterQueue = 3
  HalfInt = 8
  Images <- MCImages
  Compressed <- MCCompressed
  Existing <- MCExisting
  OldData <- MCOldData
  MaxFailures = 2
CHECK_DEADLOCK FALSE
INVARIANTS Consistent CompleteFiles ExitSettled
PROPERTY Ends
