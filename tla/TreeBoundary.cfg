CONSTANTS
  Nodes <- MCNodes
  Scenarios <- BoundaryScenarios
  MetadataSize = 8
  EntryLimit = 4
  Span = 3
  Uids = 4
  Guids = 4
  CountLimit = 4
  NameLen = 3
  BlockSize = 2
  ReaderBuffers = 2
  Sizes = {0, 2, 4}
  MaxChanges = 0
SPECIFICATION Spec
PROPERTY RootBecomes
