SPECIFICATION Spec
CONSTANTS
  Players = {p1, p2, p3}
  Decks <- CardDecks
  Stakes = {2}
  Fees = {200}
  MaxPlayers = 3
  MinStake = 2
  SecondChanceCost = 1
  ScryCost = 2
  RolloverCap = 10
  InitialBalance = 1
  MaxRounds = 1
  MaxSessions = 1
  MaxHandSize = 4
  MaxU64 = 100000
SYMMETRY Symmetry
INVARIANTS TypeOK StatusCoherent StayedScoreStands CardsComeFromDeck HiddenBustIsStolen
PROPERTIES HandsMoveInTurn ComebackIsPaid
CHECK_DEADLOCK FALSE
