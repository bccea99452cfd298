SPECIFICATION BrowserSpec
CONSTANTS
  MaxMoves = 7
  MaxActs = 2
  MaxCards = 1
  SignatureLimit = 2
  TransactionBatch = 1
  MaxEvents = 3
  MaxTxs = 3
  MaxMounts = 2
INVARIANTS
  NothingIsPaidTwice
  ActionsLeaveFreshCache
  FeedMissesNothing
CHECK_DEADLOCK FALSE
