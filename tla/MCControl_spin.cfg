CONSTANTS
  ENVIRONMENTS <- ClientDies
  FEEDBACK_BOUND = 2
SPECIFICATION FairSpec
PROPERTIES SessionEnds
CHECK_DEADLOCK FALSE
