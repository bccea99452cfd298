-------------------------------- MODULE Cards --------------------------------
(***************************************************************************)
(* The cards of PushFlip and the pure functions the on-chain program       *)
(* computes over a hand: the bust rule, the score, the card a rug pull     *)
(* takes and the card a second chance gives up.                            *)
(*                                                                         *)
(* A card is a record of its type and value.  The suit is abstracted: it   *)
(* only enters the Merkle leaf, and two cards that differ in nothing else  *)
(* behave alike.  A hand is a sequence of cards, oldest first, and a       *)
(* position is 1-based here where the program's is 0-based.                *)
(*                                                                         *)
(* The rules are stated by what they select rather than as loops, so that  *)
(* an action can pick the position with an existential.  MCCards checks    *)
(* them against the loops of the source.                                   *)
(***************************************************************************)
EXTENDS Integers, Sequences, SequencesExt

CONSTANTS
  MaxHandSize,  \* MAX_HAND_SIZE, the slots of a PlayerState's hand (10)
  MaxU64        \* u64::MAX, where the score saturates

ASSUME HandSizeAssumption == MaxHandSize \in Nat \ {0}
ASSUME U64Assumption == MaxU64 \in Nat

ALPHA == "alpha"
PROTOCOL == "protocol"
MULTIPLIER == "multiplier"

(* The effects a protocol card carries in its value. *)
RUG_PULL == 0
AIRDROP == 1
VAMPIRE_ATTACK == 2

Card == [card_type: {ALPHA, PROTOCOL, MULTIPLIER}, value: 0..13]

Hand == {h \in Seq(Card) : Len(h) <= MaxHandSize}

-----------------------------------------------------------------------------
(* check_bust: the first card, in hand order, whose alpha value an earlier *)
(* alpha card of the hand already shows.  Values outside 1..13 are skipped. *)

(* Mutant: the card type is not tested.                                    *)
IsCounted(c) == c.value \in 1..13

IsCountedAlpha(c) == c.card_type = ALPHA /\ c.value \in 1..13

RepeatsAt(hand, i) ==
  /\ IsCountedAlpha(hand[i])
  /\ \E j \in 1..(i - 1) : IsCountedAlpha(hand[j]) /\ hand[j].value = hand[i].value

BustsAt(hand, i) ==
  /\ i \in 1..Len(hand)
  /\ RepeatsAt(hand, i)
  /\ \A j \in 1..(i - 1) : ~RepeatsAt(hand, j)

IsBust(hand) == \E i \in 1..Len(hand) : RepeatsAt(hand, i)

-----------------------------------------------------------------------------
(* calculate_hand_score: the alpha values' sum times the product of the    *)
(* multipliers (1 when there is none), saturating at u64::MAX.             *)

PositionsOf(hand, type) == {i \in DOMAIN hand : hand[i].card_type = type}

AlphaSum(hand) == MapThenSumSet(LAMBDA i : hand[i].value, PositionsOf(hand, ALPHA))

MultiplierProduct(hand) ==
  FoldFunctionOnSet(LAMBDA a, b : a * b, 1, [i \in DOMAIN hand |-> hand[i].value],
                    PositionsOf(hand, MULTIPLIER))

(* Mutant: the product wraps around.                                       *)
WrapAround(n) == n % (MaxU64 + 1)

Saturate(n) == IF n \in 0..MaxU64 THEN n ELSE MaxU64

CalculateHandScore(hand) == Saturate(AlphaSum(hand) * MultiplierProduct(hand))

-----------------------------------------------------------------------------
(* The rug pull's choice: the earliest of the highest alpha cards.  A hand *)
(* without an alpha card above 0 has no such position.                     *)

(* Mutant: a later card of the same value replaces the best one.           *)
IsLastHighestAlpha(hand, i) ==
  /\ i \in 1..Len(hand)
  /\ hand[i].card_type = ALPHA /\ hand[i].value > 0
  /\ \A j \in PositionsOf(hand, ALPHA) :
       /\ hand[j].value <= hand[i].value
       /\ j > i => hand[j].value < hand[i].value

IsHighestAlpha(hand, i) ==
  /\ i \in 1..Len(hand)
  /\ hand[i].card_type = ALPHA /\ hand[i].value > 0
  /\ \A j \in PositionsOf(hand, ALPHA) :
       /\ hand[j].value <= hand[i].value
       /\ j < i => hand[j].value < hand[i].value

(* pop_card: the last card, if there is one.                               *)
(* Mutant: the first card is given up.                                     *)
PopFirstCard(hand) == IF hand = << >> THEN hand ELSE Tail(hand)

PopCard(hand) == IF hand = << >> THEN hand ELSE Front(hand)
=============================================================================
