CONSTANTS
  BLOCK_COUNT = 4
  MAX_RETRANSMISSION_BUFFER = 3
  TABLE_LIMIT = 12
  ON_WIRE_ESTIMATE = 1
  PARAMETERS <- OnlyLossless
  U32 = 16
  NET_BOUND = 2
  TCP_BOUND = 5
SPECIFICATION Spec
INVARIANTS LosslessIsComplete CountdownMatchesBitmap GaplessHasNoGap GapsAreQueued RequestsAreLegal
PROPERTIES RestartsAtFirstGap CopySteps
