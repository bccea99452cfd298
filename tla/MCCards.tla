------------------------------- MODULE MCCards -------------------------------
(***************************************************************************)
(* The rules of Cards against the loops of the program, over every hand    *)
(* that can be drawn from a few cards.  A state is a hand.                 *)
(***************************************************************************)
EXTENDS Cards

CONSTANT Drawable

ASSUME DrawableAssumption == Drawable \subseteq Card

(* The alpha values of a full hand add up inside the u64.                  *)
ASSUME SumAssumption == 13 * MaxHandSize <= MaxU64

VARIABLE hand

Init == hand = << >>

Next == /\ Len(hand) < MaxHandSize
        /\ \E c \in Drawable : hand' = Append(hand, c)

Spec == Init /\ [][Next]_hand

(* An alpha value outside 1..13, a pair to be, an effect, two multipliers. *)
DrawnCards ==
  {[card_type |-> ALPHA, value |-> v] : v \in {0, 1, 2, 13}}
  \cup {[card_type |-> PROTOCOL, value |-> VAMPIRE_ATTACK]}
  \cup {[card_type |-> MULTIPLIER, value |-> m] : m \in {2, 5}}

-----------------------------------------------------------------------------
(* The loop of check_bust, with its table of the values seen; 0 for None.  *)
CheckBust(h) ==
  FoldLeft(LAMBDA acc, c :
             IF acc.bust # 0 \/ c.card_type # ALPHA \/ c.value \notin 1..13 THEN acc
             ELSE IF c.value \in acc.seen THEN [acc EXCEPT !.bust = c.value]
             ELSE [acc EXCEPT !.seen = @ \cup {c.value}],
           [seen |-> {}, bust |-> 0], h).bust

(* The two passes of calculate_hand_score.                                 *)
ScoreLoop(h) ==
  LET sum == FoldLeft(LAMBDA acc, c : IF c.card_type = ALPHA THEN acc + c.value ELSE acc, 0, h)
      product == FoldLeft(LAMBDA acc, c :
                            IF c.card_type = MULTIPLIER THEN acc * c.value ELSE acc, 1, h)
  IN  IF ~\E i \in DOMAIN h : h[i].card_type = MULTIPLIER THEN sum
      ELSE IF sum * product > MaxU64 THEN MaxU64
      ELSE sum * product

(* The search of the rug pull: the position of the best alpha card so far. *)
BestAlpha(h) ==
  FoldLeft(LAMBDA acc, i :
             IF h[i].card_type = ALPHA /\ h[i].value > acc.best_val
             THEN [best_val |-> h[i].value, best_idx |-> i] ELSE acc,
           [best_val |-> 0, best_idx |-> 0], [i \in 1..Len(h) |-> i]).best_idx

-----------------------------------------------------------------------------
(* The bust rule finds a bust exactly when check_bust does, at the card it *)
(* names: hit stores that card's value as bust_card_value.                 *)
BustMatchesLoop ==
  /\ IsBust(hand) <=> CheckBust(hand) # 0
  /\ \A i \in 1..Len(hand) : BustsAt(hand, i) => CheckBust(hand) = hand[i].value

(* The score rule returns what calculate_hand_score accumulates.           *)
ScoreMatchesLoop == CalculateHandScore(hand) = ScoreLoop(hand)

(* The rug pull's rule selects exactly the card its loop ends on: the      *)
(* first of equals, and none when no alpha card beats 0.                   *)
RugPullMatchesLoop ==
  \A i \in 1..MaxHandSize : IsHighestAlpha(hand, i) <=> BestAlpha(hand) = i
=============================================================================
