SPECIFICATION RulesSpec
CONSTANTS
  Drawable <- DrawnCards
  MaxHandSize = 4
  MaxU64 = 300
  U8 = 256
  U16 = 1024
  U64 = 4096
  FLIP_SCALE = 10
  MIN_STAKE = 20
  DEFAULT_AMOUNT_WHOLE = 50
  MAX_PLAYERS = 4
  MAX_BOUNTIES = 10
  ALPHA_VALUE_COPIES_IN_DECK = 2
  DECK_SIZE = 7
  SCORE_STAY_THRESHOLD = 1
  SUITS = 2
  VALUES = 2
  EFFECTS = 1
  MULTIPLIERS <- NoMultipliers
  COPIES = 0
  TREE_DEPTH = 3
  MaxLogs = 2
INVARIANTS BustMatchesLoop ScoreMatchesLoop RugPullMatchesLoop
  ClientReadsAccounts CallArrives GamesKeepApart LinesFit LogsBecomeEvents DealtCardsVerify OddsAreExact
CHECK_DEADLOCK FALSE
