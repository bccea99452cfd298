SPECIFICATION FairSpec
CONSTANTS
  d1 = d1
  d2 = d2
  d3 = d3
  Decks <- OneCardDecks
  MaxPlayers = 2
  MaxRounds = 1
  Ticks = {t1}
  MinPlayersToCommit = 2
  MaxFailures = 1
  MaxRestarts = 1
PROPERTIES TableGetsDeck
CHECK_DEADLOCK FALSE
