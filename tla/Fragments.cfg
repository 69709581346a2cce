SPECIFICATION Spec
CONSTANTS
  d1 = d1 d2 = d2
  FragDeflators <- MCTwo
  Sizes = {2}
  MaxReads = 3
  PerFragment = 1
  WriterBuffers = 2
  Destinations = {TRUE, FALSE}
CHECK_DEADLOCK FALSE
INVARIANTS Consistent Placement Settled
PROPERTY EndsUnlessLate
