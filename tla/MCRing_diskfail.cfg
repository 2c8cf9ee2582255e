CONSTANTS
  MAX_BLOCKS_QUEUED = 2
  BLOCK_COUNT = 3
  ENVIRONMENTS <- FailingDisk
SPECIFICATION Spec
INVARIANT ReportIsTrue
