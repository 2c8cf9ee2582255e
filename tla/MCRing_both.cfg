CONSTANTS
  MAX_BLOCKS_QUEUED = 2
  BLOCK_COUNT = 4
  ENVIRONMENTS <- BothClients
SPECIFICATION Spec
INVARIANTS RingInv ContentInv NoDataRace NoLostWakeup LoopNeverBlocks ReadsConfirmedData FalseOnlyIfCutShort
PROPERTIES StopIsReached PipeSpec
