SPECIFICATION ScriptSpec
CONSTANTS
  Players = {a, b}
  A = a
  B = b
  Names = {"smoke_test", "smoke_test_bounty", "smoke_test_tokens", "smoke_test_burns", "tools"}
  Decks <- Shuffles
  Stakes = {2}
  Fees = {200}
  MaxPlayers = 4
  MinStake = 2
  SecondChanceCost = 2
  ScryCost = 1
  RolloverCap = 10
  InitialBalance = 0
  MintAmount = 10
  MaxRounds = 1
  MaxSessions = 1
  MaxHandSize = 4
  MaxU64 = 100000
  MaxBounties = 10
  Rewards = {1}
  Unreachable = 50
INVARIANTS OnlyPayoutFails PassedLeavesNothing
CHECK_DEADLOCK FALSE
