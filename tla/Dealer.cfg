SPECIFICATION Spec
CONSTANTS
  d1 = d1
  d2 = d2
  d3 = d3
  Decks <- TwoCardDecks
  MaxPlayers = 2
  MaxRounds = 2
  Ticks = {t1, t2}
  MinPlayersToCommit = 2
  MaxFailures = 1
  MaxRestarts = 1
SYMMETRY Symmetry
INVARIANTS TypeOK DeckIsServable OneCommitAtATime CursorNotBehind
PROPERTIES DealtInOrder
CHECK_DEADLOCK FALSE
