CONSTANTS
  Tables = 2
  MaxBlocks = 2
  MaxRuns = 2
SPECIFICATION Spec
INVARIANT Recoverable
PROPERTIES AtomicFsSpec RecoverWorks EndsUnlessFatal
