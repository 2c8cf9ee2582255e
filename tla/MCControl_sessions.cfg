CONSTANTS
  ENVIRONMENTS <- Sessions
  FEEDBACK_BOUND = 3
SPECIFICATION FairSpec
INVARIANTS SidesAgree InStep NoStaleAnswer PromptMeansListening OnlyAcceptedClients
PROPERTIES CommandReturns DeathIsNoticed
CHECK_DEADLOCK FALSE
