SPECIFICATION Spec
CONSTANTS
  Players = {p1, p2}
  Decks <- MoneyDecks
  Stakes = {1, 2, 3}
  Fees = {2500}
  MaxPlayers = 4
  MinStake = 2
  SecondChanceCost = 1
  ScryCost = 1
  RolloverCap = 1
  InitialBalance = 3
  MaxRounds = 2
  MaxSessions = 2
  MaxHandSize = 2
  MaxU64 = 12500
INVARIANTS RoundIsSeated VaultBacksPot SupplyConserved EndRoundAvailable
PROPERTIES PotGoesToBestHand ImplementsLifecycle
CHECK_DEADLOCK FALSE
