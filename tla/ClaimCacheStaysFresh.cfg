SPECIFICATION AppSpec
CONSTANTS
  MaxMoves = 4
  MaxActs = 2
  MaxCards = 2
INVARIANT SubscriptionKeepsCacheFresh
CHECK_DEADLOCK FALSE
