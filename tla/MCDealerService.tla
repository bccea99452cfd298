--------------------------- MODULE MCDealerService ---------------------------
(***************************************************************************)
(* Small instances of DealerService for TLC.                               *)
(***************************************************************************)
EXTENDS DealerService, TLC

CONSTANTS d1, d2, d3

(* Three shuffles: one on the chain, one in memory, one of an old commit   *)
(* still under way.  A second card tells the card drawn from the next.     *)
TwoCardDecks == {<<d1, d1>>, <<d2, d2>>, <<d3, d3>>}
OneCardDecks == {<<d1>>, <<d2>>, <<d3>>}

Symmetry == Permutations({d1, d2, d3}) \cup Permutations(Ticks)
=============================================================================
