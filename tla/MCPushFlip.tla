----------------------------- MODULE MCPushFlip -----------------------------
(***************************************************************************)
(* Small instances of PushFlip for TLC: the decks it deals from.         *)
(***************************************************************************)
EXTENDS PushFlip

Symmetry == Permutations(Players)

Alpha(v) == [card_type |-> ALPHA, value |-> v]
Effect(e) == [card_type |-> PROTOCOL, value |-> e]
Times(m) == [card_type |-> MULTIPLIER, value |-> m]

(* The turn only moves on when its player is out, so a theft or a rug pull *)
(* finds cards in the hand of a player who came back: after a pair, or     *)
(* after a stay that was turned into a forfeit.  In the third deck the     *)
(* stolen card repeats one of the thief's, in the fourth it finds no slot. *)
CardDecks ==
  {<<Alpha(2), Alpha(2), Effect(VAMPIRE_ATTACK), Alpha(2), Alpha(2)>>,
   <<Alpha(2), Alpha(2), Alpha(2), Effect(VAMPIRE_ATTACK), Alpha(1)>>,
   <<Alpha(2), Alpha(2), Alpha(1), Alpha(3), Times(3), Effect(VAMPIRE_ATTACK)>>,
   <<Alpha(1), Alpha(2), Effect(RUG_PULL), Times(3), Alpha(1)>>}

(* Enough for a bust, a tie and a score of 0.                              *)
MoneyDecks == {<<Alpha(1), Alpha(1)>>}

=============================================================================
