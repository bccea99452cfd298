SPECIFICATION TableSpec
CONSTANTS
  Players = {p1, p2}
  Decks <- MoneyDecks
  Stakes = {2}
  Fees = {2500}
  MaxPlayers = 4
  MinStake = 2
  SecondChanceCost = 1
  ScryCost = 9
  RolloverCap = 1
  InitialBalance = 2
  MaxRounds = 2
  MaxSessions = 2
  MaxHandSize = 2
  MaxU64 = 100000
  MaxBounties = 1
  Rewards = {1}
PROPERTIES RoundEnds ClaimIsFinal ClaimFollowsRound
CHECK_DEADLOCK FALSE
