CONSTANTS
  ENVIRONMENTS <- FeedbackIsLate
  FEEDBACK_BOUND = 2
SPECIFICATION Spec
PROPERTIES TimeoutCloses
CHECK_DEADLOCK FALSE
