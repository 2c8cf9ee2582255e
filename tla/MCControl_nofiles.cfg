CONSTANTS
  ENVIRONMENTS <- SharesNothing
  FEEDBACK_BOUND = 2
SPECIFICATION FairSpec
PROPERTIES CommandReturns
CHECK_DEADLOCK FALSE
