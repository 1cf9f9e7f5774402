CONSTANTS
  Destroys = TRUE
  MaxRequests = 3
SPECIFICATION FairSpec
CHECK_DEADLOCK FALSE
INVARIANTS ClientLife NoStrayFunction AnswersInOrder
PROPERTIES EveryRequestAnswered DestroyedGoesAway
