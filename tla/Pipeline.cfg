SPECIFICATION Spec
CONSTANTS
  d1 = d1 d2 = d2 f1 = f1 f2 = f2
  Deflators = {d1, d2}
  FragDeflators = {f1, f2}
  ReaderBuffers = 2
  WriterBuffers = 4
  FragmentBuffers = 2
  PerFragment = 1
  Sources <- MCSources
CHECK_DEADLOCK FALSE
INVARIANTS Consistent OrderKept
PROPERTY EndsUnlessHoarded
