SPECIFICATION Spec
CONSTANTS
  junk = junk
  Junk <- junk
  Types <- MCTypes
  Images <- MCImages
CHECK_DEADLOCK FALSE
INVARIANTS SuccessMeansVerified Consistent DumpKept
