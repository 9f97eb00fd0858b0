SPECIFICATION FairSpec
CONSTANTS
  FlushSize = 2
  MaxWrites = 4
INVARIANTS BufferIsLatest NothingMissing NothingTwice FullBufferIsFlushed
PROPERTIES Settles
CHECK_DEADLOCK FALSE
