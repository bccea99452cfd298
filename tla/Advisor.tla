------------------------------- MODULE Advisor -------------------------------
(***************************************************************************)
(* The odds the app shows a player and the advice it draws from them.  A   *)
(* probability is a pair of counts; the advice compares it with 30 per     *)
(* cent.                                                                   *)
(***************************************************************************)
EXTENDS Cards, FiniteSetsExt

CONSTANTS
  ALPHA_VALUE_COPIES_IN_DECK,  \* 4, one of each suit
  DECK_SIZE,                   \* 94
  SCORE_STAY_THRESHOLD         \* 15

PlayerAlphaValues(playerHand) ==
  {c.value : c \in {d \in ToSet(playerHand) : d.card_type = ALPHA}}

Copies(cards, value) ==
  Cardinality({i \in DOMAIN cards : cards[i].card_type = ALPHA /\ cards[i].value = value})

(* Mutant: the cards of the others are not counted.                        *)
OddsByOwnHand(playerHand, otherRevealedCards) ==
  [bustingCardsRemaining |->
     MapThenSumSet(LAMBDA v : ALPHA_VALUE_COPIES_IN_DECK - Copies(playerHand, v),
                   PlayerAlphaValues(playerHand)),
   remainingDeckSize |-> DECK_SIZE - Len(playerHand) - Len(otherRevealedCards)]

calculateBustProbability(playerHand, otherRevealedCards) ==
  LET revealed == playerHand \o otherRevealedCards
      left(v) == LET n == Copies(revealed, v) IN
                 IF n >= ALPHA_VALUE_COPIES_IN_DECK THEN 0 ELSE ALPHA_VALUE_COPIES_IN_DECK - n
  IN  [bustingCardsRemaining |-> MapThenSumSet(left, PlayerAlphaValues(playerHand)),
       remainingDeckSize |-> DECK_SIZE - Len(revealed)]

getRecommendation(odds, score) ==
  IF odds.remainingDeckSize <= 0 THEN "stay"
  ELSE IF /\ 10 * odds.bustingCardsRemaining > 3 * odds.remainingDeckSize
          /\ score > SCORE_STAY_THRESHOLD
       THEN "stay"
  ELSE "hit"

(* The panel: it knows the player's own hand only.                         *)
FlipAdvisor(playerHand, score, degenMode) ==
  IF degenMode THEN "hit"
  ELSE getRecommendation(calculateBustProbability(playerHand, << >>), score)
=============================================================================
