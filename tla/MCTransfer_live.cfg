CONSTANTS
  BLOCK_COUNT = 3
  MAX_RETRANSMISSION_BUFFER = 4
  TABLE_LIMIT = 4
  ON_WIRE_ESTIMATE = 1
  PARAMETERS <- EveryMode
  U32 = 8
  NET_BOUND = 1
  TCP_BOUND = 4
SPECIFICATION FairSpec
PROPERTIES TransferEnds CopySpec
