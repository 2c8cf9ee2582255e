CONSTANTS
  PROGRAMS <- Program
  REQUEST_LISTS <- Lists
  PARTS = 3
  BLOCK_COUNT = 2
  DEAD_PASSES = 1
  REPORT_INTERVAL = 1
  HB_TIMEOUT = 2
  TRANSFERS = 2
SPECIFICATION FairSpec
INVARIANTS FeedbackInv RequestsKeepTheirParts
PROPERTIES SilentClientIsDropped StopIsObeyed StreamSpec
