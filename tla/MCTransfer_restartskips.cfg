CONSTANTS
  BLOCK_COUNT = 3
  MAX_RETRANSMISSION_BUFFER = 3
  TABLE_LIMIT = 6
  ON_WIRE_ESTIMATE = 1
  PARAMETERS <- OnlyLossless
  U32 = 16
  NET_BOUND = 1
  TCP_BOUND = 3
SPECIFICATION Spec
PROPERTIES RestartsAtGivenBlock
