SPECIFICATION Spec
CONSTANTS
  Players = {p1, p2, p3}
  Decks <- MoneyDecks
  Stakes = {2}
  Fees = {2500}
  MaxPlayers = 4
  MinStake = 2
  SecondChanceCost = 1
  ScryCost = 1
  RolloverCap = 1
  InitialBalance = 2
  MaxRounds = 1
  MaxSessions = 1
  MaxHandSize = 2
  MaxU64 = 100000
PROPERTIES TurnSkipsInactive
CHECK_DEADLOCK FALSE
