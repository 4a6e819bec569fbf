CONSTANTS
  Byte = {0, 1}
  Unset = 2
  NODE_LENGTH = 3
  Maps <- MCMaps
  Chunks <- MCChunks
  ReadLengths = {1}
  MaxLength = 12
  MallocMayFail = TRUE
SPECIFICATION CodecSpec
INVARIANTS
  ChainIsExact
  ReadsInOrder
  AbortsOnlyWhenEmpty
  RoundTrip
PROPERTIES
  FlatCopiesAll
  EndIsTheEnd
CHECK_DEADLOCK FALSE
