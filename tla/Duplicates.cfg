SPECIFICATION Spec
CONSTANTS
  d1 = d1 None = None
  FragDeflators = {d1}
  WriterBuffers = {1, 2}
  FragmentBuffers = {1, 2}
  MaxFiles = 3
  Kinds <- MCKinds
  MaxSearches = 2
  Destinations = {FALSE, TRUE}
CHECK_DEADLOCK FALSE
INVARIANTS Consistent BlockFound FragmentFound StopsOnlyHeldUp
