---------------------------- MODULE PushFlipPlay ----------------------------
(***************************************************************************)
(* Theorems of PushFlip about a round: the flags and scores of an account, *)
(* whose hand may move, who comes back and who is paid, where the cards in *)
(* the hands come from, that a round can be ended, and which hands may     *)
(* hide a bust.                                                            *)
(*                                                                         *)
(* They all follow from what one instruction can do to one account, which  *)
(* AccountStep lists.                                                      *)
(***************************************************************************)
EXTENDS PushFlipProofs

USE DEF ACTIVE, BUST, STAYED

Ps(q) == player_state[q]

Kept(q) == Ps(q)' = Ps(q)

(* join_round, leave_game between rounds, start_round.                     *)
Cleared(q) == ~round_active /\ \E s \in Nat : Ps(q)' = FreshPlayerState(s)

(* leave_game in a round.                                                  *)
Forfeits(q) ==
  /\ ~Ps(q)'.is_active /\ Ps(q)'.inactive_reason = BUST /\ Ps(q)'.score = 0
  /\ Ps(q)'.hand = Ps(q).hand

(* hit, when the draw busts.                                               *)
Busts(q) ==
  /\ IsCurrentPlayer(q) /\ Ps(q).is_active /\ draw_counter' = draw_counter + 1
  /\ ~Ps(q)'.is_active /\ Ps(q)'.inactive_reason = BUST /\ Ps(q)'.score = Ps(q).score

(* The player draws, robs, is robbed or scries, and stays in the round.    *)
PlaysOn(q) ==
  /\ Ps(q).is_active /\ Ps(q)'.is_active
  /\ Ps(q)'.inactive_reason = Ps(q).inactive_reason
  /\ Ps(q)'.score = Ps(q).score
  /\ Ps(q)'.bust_card_value = Ps(q).bust_card_value
  /\ Len(Ps(q)'.hand) > Len(Ps(q).hand) =>
       IsCurrentPlayer(q) /\ draw_counter' = draw_counter + 1

(* stay.                                                                   *)
Stands(q) ==
  /\ Ps(q).is_active /\ ~Ps(q)'.is_active
  /\ Ps(q)'.inactive_reason = STAYED
  /\ Ps(q)'.score = CalculateHandScore(Ps(q)'.hand)
  /\ Ps(q)'.bust_card_value = Ps(q).bust_card_value
  /\ Ps(q)'.hand = Ps(q).hand

(* burn_second_chance.                                                     *)
ComesBack(q) ==
  /\ Ps(q).inactive_reason = BUST /\ Ps(q)'.inactive_reason = ACTIVE /\ Ps(q)'.is_active
  /\ ~Ps(q).has_used_second_chance /\ Ps(q)'.has_used_second_chance
  /\ Ps(q)'.bust_card_value = 0 /\ Ps(q)'.score = Ps(q).score
  /\ Len(Ps(q)'.hand) <= Len(Ps(q).hand)
  /\ supply' = supply - SecondChanceCost

AccountMove(q) ==
  \/ Kept(q) \/ Cleared(q) \/ Forfeits(q) \/ Busts(q)
  \/ PlaysOn(q) \/ Stands(q) \/ ComesBack(q)

-----------------------------------------------------------------------------
(* What each instruction does to the account of a player q.                *)

(* Everybody's account is a PlayerState before and after.                  *)
LEMMA AccountsTyped ==
  ASSUME TypeOK
  PROVE  /\ player_state \in [Players -> PlayerState]
         /\ \A q \in Players : /\ player_state[q] \in PlayerState
                               /\ Len(player_state[q].hand) \in Nat
BY DEF TypeOK, PlayerTypeOK, PlayerState, Hand

(* hit draws one card, and the hand grows by it.                           *)
LEMMA DrawGrows ==
  ASSUME TypeOK, NEW p \in Players, CanDraw(p)
  PROVE  IsCurrentPlayer(p) /\ Ps(p).is_active /\ p \in accounts
BY DEF CanDraw, IsCurrentPlayer, Ps

(* hit, when the draw busts: the turn's player is out, nobody else moves.  *)
LEMMA HitBustMove ==
  ASSUME TypeOK, NEW p \in Players, NEW q \in Players, HitBust(p)
  PROVE  AccountMove(q)
<1>0. player_state \in [Players -> PlayerState]
  BY AccountsTyped
<1>1. PICK v, h : player_state' = [player_state EXCEPT ![p].hand = h,
                                   ![p].is_active = FALSE,
                                   ![p].inactive_reason = BUST,
                                   ![p].bust_card_value = v]
  BY DEF HitBust
<1>2. IsCurrentPlayer(p) /\ Ps(p).is_active /\ draw_counter' = draw_counter + 1
  BY DrawGrows DEF HitBust, CountDraw
<1>3. CASE q = p
  <2>1. /\ Ps(q)'.is_active = FALSE /\ Ps(q)'.inactive_reason = BUST
        /\ Ps(q)'.score = Ps(q).score
    BY <1>0, <1>1, <1>3 DEF Ps, PlayerState
  <2> QED BY <1>2, <1>3, <2>1 DEF AccountMove, Busts
<1>4. CASE q # p
  BY <1>0, <1>1, <1>4 DEF AccountMove, Kept, Ps
<1> QED BY <1>3, <1>4

(* The owner of a hand that is written plays on.                           *)
LEMMA HandWritten ==
  ASSUME TypeOK, NEW q \in Players, NEW h, Ps(q).is_active, Ps(q)' = [Ps(q) EXCEPT !.hand = h],
         Len(h) > Len(Ps(q).hand) => IsCurrentPlayer(q) /\ draw_counter' = draw_counter + 1
  PROVE  AccountMove(q)
<1>1. Ps(q) \in PlayerState
  BY AccountsTyped DEF Ps
<1>2. /\ Ps(q)'.is_active = Ps(q).is_active /\ Ps(q)'.hand = h
      /\ Ps(q)'.inactive_reason = Ps(q).inactive_reason
      /\ Ps(q)'.score = Ps(q).score /\ Ps(q)'.bust_card_value = Ps(q).bust_card_value
  BY <1>1 DEF PlayerState
<1> QED BY <1>2 DEF AccountMove, PlaysOn

(* hit, when the card has no effect or names no target.                    *)
LEMMA HitPlainMove ==
  ASSUME TypeOK, NEW p \in Players, NEW q \in Players, HitPlain(p)
  PROVE  AccountMove(q)
<1>0. player_state \in [Players -> PlayerState]
  BY AccountsTyped
<1>1. player_state' = [player_state EXCEPT ![p].hand = DrawnHand(p)]
  BY DEF HitPlain
<1>2. IsCurrentPlayer(p) /\ Ps(p).is_active /\ draw_counter' = draw_counter + 1
  BY DrawGrows DEF HitPlain, CountDraw
<1>3. CASE q = p
  <2>1. Ps(q)' = [Ps(q) EXCEPT !.hand = DrawnHand(p)]
    BY <1>0, <1>1, <1>3 DEF Ps
  <2> QED BY <1>2, <1>3, <2>1, HandWritten
<1>4. CASE q # p
  BY <1>0, <1>1, <1>4 DEF AccountMove, Kept, Ps
<1> QED BY <1>3, <1>4

(* A rug pull or a theft: the target's hand shrinks, the player's grows.   *)
LEMMA TwoHandsMove ==
  ASSUME TypeOK, NEW p \in Players, NEW t \in Players, NEW q \in Players, NEW h, NEW k,
         CanDraw(p), IsTarget(p, t), draw_counter' = draw_counter + 1,
         player_state' = [player_state EXCEPT ![p].hand = h, ![t].hand = k],
         Len(k) <= Len(Ps(t).hand), Len(k) \in Nat
  PROVE  AccountMove(q)
<1>0. player_state \in [Players -> PlayerState] /\ t # p /\ Ps(t).is_active
      /\ Len(Ps(t).hand) \in Nat
  BY AccountsTyped DEF IsTarget, Ps
<1>1. IsCurrentPlayer(p) /\ Ps(p).is_active
  BY DrawGrows
<1>2. CASE q = p
  <2>1. Ps(q)' = [Ps(q) EXCEPT !.hand = h]
    BY <1>0, <1>2 DEF Ps
  <2> QED BY <1>1, <1>2, <2>1, HandWritten
<1>3. CASE q = t
  <2>1. Ps(q)' = [Ps(q) EXCEPT !.hand = k]
    BY <1>0, <1>3 DEF Ps
  <2>2. ~(Len(k) > Len(Ps(q).hand))
    BY <1>0, <1>3
  <2> QED BY <1>0, <1>3, <2>1, <2>2, HandWritten
<1>4. CASE q # p /\ q # t
  BY <1>0, <1>4 DEF AccountMove, Kept, Ps
<1> QED BY <1>2, <1>3, <1>4

(* hit, when a rug pull takes the target's best card.                      *)
LEMMA HitRugPullMove ==
  ASSUME TypeOK, NEW p \in Players, NEW t \in Players, NEW q \in Players, HitRugPull(p, t)
  PROVE  AccountMove(q)
<1>0. player_state \in [Players -> PlayerState] /\ t # p
  BY AccountsTyped DEF HitRugPull, IsTarget
<1>1. PICK i \in 1..MaxHandSize :
       /\ IsHighestAlpha(player_state[t].hand, i)
       /\ player_state' = [player_state EXCEPT ![p].hand = DrawnHand(p),
                                               ![t].hand = RemoveAt(@, i)]
  BY DEF HitRugPull
<1> DEFINE k == RemoveAt(player_state[t].hand, i)
<1>2. player_state' = [player_state EXCEPT ![p].hand = DrawnHand(p), ![t].hand = k]
  BY <1>0, <1>1
<1>3. Len(k) \in Nat /\ Len(k) <= Len(Ps(t).hand)
  <2>1. player_state[t].hand \in Seq(Card) /\ i \in 1..Len(player_state[t].hand)
    BY <1>0, <1>1 DEF IsHighestAlpha, PlayerState, Hand
  <2>2. Len(k) = Len(player_state[t].hand) - 1 /\ k \in Seq(Card)
    BY <2>1, RemoveAtType
  <2> HIDE DEF k
  <2> QED BY <2>1, <2>2 DEF Ps
<1> HIDE DEF k
<1> QED BY <1>2, <1>3, TwoHandsMove DEF HitRugPull, DrawsEffect, CountDraw

(* hit, when a vampire attack steals the target's last card.               *)
LEMMA HitVampireAttackMove ==
  ASSUME TypeOK, NEW p \in Players, NEW t \in Players, NEW q \in Players,
         HitVampireAttack(p, t)
  PROVE  AccountMove(q)
<1> DEFINE h == Append(DrawnHand(p), Last(player_state[t].hand))
           k == Front(player_state[t].hand)
<1>0. player_state \in [Players -> PlayerState] /\ t # p
  BY AccountsTyped DEF HitVampireAttack, IsTarget
<1>1. player_state' = [player_state EXCEPT ![p].hand = h, ![t].hand = k]
  BY <1>0 DEF HitVampireAttack
<1>2. Len(k) \in Nat /\ Len(k) <= Len(Ps(t).hand)
  <2>1. player_state[t].hand \in Seq(Card) /\ player_state[t].hand # << >>
    BY <1>0 DEF HitVampireAttack, PlayerState, Hand
  <2>2. Len(k) = Len(player_state[t].hand) - 1 /\ k \in Seq(Card)
    BY <2>1, FrontType
  <2> HIDE DEF k
  <2> QED BY <2>1, <2>2 DEF Ps
<1> HIDE DEF h, k
<1> QED BY <1>1, <1>2, TwoHandsMove DEF HitVampireAttack, DrawsEffect, CountDraw

(* stay.                                                                   *)
LEMMA StayMove ==
  ASSUME TypeOK, NEW p \in Players, NEW q \in Players, Stay(p)
  PROVE  AccountMove(q)
<1> DEFINE n == CalculateHandScore(player_state[p].hand)
<1>0. player_state \in [Players -> PlayerState]
  BY AccountsTyped
<1>1. /\ player_state' = [player_state EXCEPT ![p].score = n, ![p].is_active = FALSE,
                                              ![p].inactive_reason = STAYED]
      /\ player_state[p].is_active
  BY DEF Stay
<1>2. CASE q = p
  <2>0. n = CalculateHandScore(Ps(q).hand)
    BY <1>2 DEF Ps
  <2> HIDE DEF n
  <2>1. /\ Ps(q)'.is_active = FALSE /\ Ps(q)'.inactive_reason = STAYED
        /\ Ps(q)'.score = n /\ Ps(q)'.hand = Ps(q).hand
        /\ Ps(q)'.bust_card_value = Ps(q).bust_card_value
    BY <1>0, <1>1, <1>2 DEF Ps, PlayerState
  <2>2. Ps(q).is_active /\ Ps(q)'.score = CalculateHandScore(Ps(q)'.hand)
    BY <1>1, <1>2, <2>0, <2>1 DEF Ps
  <2> QED BY <2>1, <2>2 DEF AccountMove, Stands
<1>3. CASE q # p
  BY <1>0, <1>1, <1>3 DEF AccountMove, Kept, Ps
<1> QED BY <1>2, <1>3

(* burn_second_chance: the busting card goes, nothing else of the hand.    *)
LEMMA BurnSecondChanceMove ==
  ASSUME TypeOK, NEW p \in Players, NEW q \in Players, BurnSecondChance(p)
  PROVE  AccountMove(q)
<1> DEFINE h == PopCard(player_state[p].hand)
<1>0. player_state \in [Players -> PlayerState]
  BY AccountsTyped
<1>1. Len(h) <= Len(player_state[p].hand)
  <2>1. player_state[p].hand \in Seq(Card) /\ Len(player_state[p].hand) \in Nat
    BY <1>0 DEF PlayerState, Hand
  <2>2. CASE player_state[p].hand = << >>
    BY <2>1, <2>2 DEF PopCard
  <2>3. CASE player_state[p].hand # << >>
    <3>1. Len(Front(player_state[p].hand)) = Len(player_state[p].hand) - 1
      BY <2>1, <2>3, FrontType
    <3>2. h = Front(player_state[p].hand)
      BY <2>3 DEF PopCard
    <3> HIDE DEF h
    <3> QED BY <2>1, <3>1, <3>2
  <2> QED BY <2>2, <2>3
<1>2. player_state' = [player_state EXCEPT ![p].hand = h, ![p].is_active = TRUE,
                                           ![p].inactive_reason = ACTIVE,
                                           ![p].bust_card_value = 0,
                                           ![p].has_used_second_chance = TRUE]
  BY DEF BurnSecondChance
<1>3. /\ Ps(p).inactive_reason = BUST /\ ~Ps(p).has_used_second_chance
      /\ supply' = supply - SecondChanceCost
  BY DEF BurnSecondChance, Burn, Ps
<1> HIDE DEF h
<1>4. CASE q = p
  <2>1. /\ Ps(q)'.hand = h /\ Ps(q)'.inactive_reason = ACTIVE
        /\ Ps(q)'.bust_card_value = 0 /\ Ps(q)'.score = Ps(q).score
        /\ Ps(q)'.is_active = TRUE /\ Ps(q)'.has_used_second_chance = TRUE
    BY <1>0, <1>2, <1>4 DEF Ps, PlayerState
  <2>2. Len(Ps(q)'.hand) <= Len(Ps(q).hand)
    BY <1>1, <1>4, <2>1 DEF Ps
  <2> QED BY <1>3, <1>4, <2>1, <2>2 DEF AccountMove, ComesBack
<1>5. CASE q # p
  BY <1>0, <1>2, <1>5 DEF AccountMove, Kept, Ps
<1> QED BY <1>4, <1>5

(* burn_scry.                                                              *)
LEMMA BurnScryMove ==
  ASSUME TypeOK, NEW p \in Players, NEW q \in Players, BurnScry(p)
  PROVE  AccountMove(q)
<1>0. player_state \in [Players -> PlayerState] /\ Len(Ps(q).hand) \in Nat
  BY AccountsTyped DEF Ps
<1>1. /\ player_state' = [player_state EXCEPT ![p].has_used_scry = TRUE]
      /\ player_state[p].is_active
  BY DEF BurnScry
<1>2. CASE q = p
  <2>1. /\ Ps(q)'.is_active = Ps(q).is_active /\ Ps(q)'.hand = Ps(q).hand
        /\ Ps(q)'.inactive_reason = Ps(q).inactive_reason /\ Ps(q)'.score = Ps(q).score
        /\ Ps(q)'.bust_card_value = Ps(q).bust_card_value
    BY <1>0, <1>1, <1>2 DEF Ps, PlayerState
  <2>2. Ps(q).is_active /\ ~(Len(Ps(q)'.hand) > Len(Ps(q).hand))
    BY <1>0, <1>1, <1>2, <2>1 DEF Ps
  <2> QED BY <2>1, <2>2 DEF AccountMove, PlaysOn
<1>3. CASE q # p
  BY <1>0, <1>1, <1>3 DEF AccountMove, Kept, Ps
<1> QED BY <1>2, <1>3

(* leave_game in a round: the score goes, the hand stays.                  *)
LEMMA ForfeitMove ==
  ASSUME TypeOK, NEW p \in Players, NEW q \in Players, ForfeitMidRound(p)
  PROVE  AccountMove(q)
<1>0. player_state \in [Players -> PlayerState]
  BY AccountsTyped
<1>1. player_state' = [player_state EXCEPT ![p].is_active = FALSE,
                                           ![p].inactive_reason = BUST, ![p].score = 0]
  BY DEF ForfeitMidRound
<1>2. CASE q = p
  <2>1. /\ Ps(q)'.is_active = FALSE /\ Ps(q)'.inactive_reason = BUST
        /\ Ps(q)'.score = 0 /\ Ps(q)'.hand = Ps(q).hand
    BY <1>0, <1>1, <1>2 DEF Ps, PlayerState
  <2> QED BY <2>1 DEF AccountMove, Forfeits
<1>3. CASE q # p
  BY <1>0, <1>1, <1>3 DEF AccountMove, Kept, Ps
<1> QED BY <1>2, <1>3

(* join_round, leave_game between rounds and start_round write fresh       *)
(* accounts, and none of them runs while a round does.                     *)
LEMMA ClearedMove ==
  ASSUME TypeOK, NEW p \in Players, NEW q \in Players,
         \/ \E stake \in Stakes : JoinRound(p, stake)
         \/ LeaveBetweenRounds(p)
         \/ StartRound
  PROVE  AccountMove(q)
<1>0. player_state \in [Players -> PlayerState]
  BY AccountsTyped
<1>1. CASE \E stake \in Stakes : JoinRound(p, stake)
  <2>1. PICK s \in Nat : player_state' = [player_state EXCEPT ![p] = FreshPlayerState(s)]
    BY <1>1, ParameterAssumption DEF JoinRound
  <2>2. ~round_active
    BY <1>1 DEF JoinRound
  <2> QED BY <1>0, <2>1, <2>2 DEF AccountMove, Cleared, Kept, Ps
<1>2. CASE LeaveBetweenRounds(p)
  <2>1. ~round_active /\ player_state' = [player_state EXCEPT ![p] = FreshPlayerState(0)]
    BY <1>2 DEF LeaveBetweenRounds
  <2> QED BY <1>0, <2>1 DEF AccountMove, Cleared, Kept, Ps
<1>3. CASE StartRound
  <2>1. ~round_active /\ Ps(q)' = IF q \in Seated
                                  THEN FreshPlayerState(player_state[q].staked_amount)
                                  ELSE player_state[q]
    BY <1>3 DEF StartRound, Ps
  <2>2. player_state[q].staked_amount \in Nat
    BY <1>0 DEF PlayerState
  <2> QED BY <2>1, <2>2 DEF AccountMove, Cleared, Kept, Ps
<1> QED BY <1>1, <1>2, <1>3

(* What one instruction, whoever signs it, can do to one account.          *)
LEMMA AccountStep ==
  ASSUME TypeOK, [Next]_vars, NEW q \in Players
  PROVE  AccountMove(q)
<1>1. CASE UNCHANGED player_state
  BY <1>1 DEF AccountMove, Kept, Ps
<1>2. CASE \E p \in Players, stake \in Stakes : JoinRound(p, stake)
  BY <1>2, ClearedMove
<1>3. CASE \E p \in Players : LeaveGame(p)
  BY <1>3, ClearedMove, ForfeitMove DEF LeaveGame
<1>4. CASE StartRound
  BY <1>4, ClearedMove
<1>5. CASE \E p, t \in Players : Hit(p, t)
  BY <1>5, HitBustMove, HitPlainMove, HitRugPullMove, HitVampireAttackMove DEF Hit
<1>6. CASE \E p \in Players : Stay(p)
  BY <1>6, StayMove
<1>7. CASE \E p \in Players : BurnSecondChance(p) \/ BurnScry(p)
  BY <1>7, BurnSecondChanceMove, BurnScryMove
<1>8. CASE EndRound
  <2>1. UNCHANGED player_state
    BY <1>8 DEF EndRound, EndRoundWithWinner, EndRoundRollover, EndRoundSweep,
                FinishRound, playerVars
  <2> QED BY <1>1, <2>1
<1>9. CASE \/ \E fee \in Fees : Initialize(fee)
           \/ InitVault
           \/ CloseGame
           \/ \E deck \in Decks : CommitDeck(deck)
           \/ UNCHANGED vars
  <2>1. UNCHANGED player_state
    BY <1>9 DEF Initialize, InitVault, CloseGame, CommitDeck, playerVars, vars
  <2> QED BY <1>1, <2>1
<1> QED BY <1>2, <1>3, <1>4, <1>5, <1>6, <1>7, <1>8, <1>9 DEF Next

-----------------------------------------------------------------------------
(* The flags and the score of an account, open or not: what StatusCoherent *)
(* and StayedScoreStands say of the open ones, and inductive.              *)
Coherent ==
  \A p \in Players :
    /\ Ps(p).is_active <=> Ps(p).inactive_reason = ACTIVE
    /\ Ps(p).score > 0 => Ps(p).inactive_reason = STAYED
    /\ Ps(p).bust_card_value > 0 => Ps(p).inactive_reason = BUST
    /\ Ps(p).inactive_reason = STAYED => Ps(p).score = CalculateHandScore(Ps(p).hand)

(* No instruction leaves the flags of an account at odds.                  *)
LEMMA NextCoherent ==
  ASSUME TypeOK, TypeOK', Coherent, [Next]_vars
  PROVE  Coherent'
<1> SUFFICES ASSUME NEW q \in Players
             PROVE  /\ Ps(q)'.is_active <=> Ps(q)'.inactive_reason = ACTIVE
                    /\ Ps(q)'.score > 0 => Ps(q)'.inactive_reason = STAYED
                    /\ Ps(q)'.bust_card_value > 0 => Ps(q)'.inactive_reason = BUST
                    /\ Ps(q)'.inactive_reason = STAYED =>
                         Ps(q)'.score = CalculateHandScore(Ps(q)'.hand)
  BY DEF Coherent, Ps
<1>1. /\ Ps(q).is_active <=> Ps(q).inactive_reason = ACTIVE
      /\ Ps(q).score > 0 => Ps(q).inactive_reason = STAYED
      /\ Ps(q).bust_card_value > 0 => Ps(q).inactive_reason = BUST
      /\ Ps(q).inactive_reason = STAYED => Ps(q).score = CalculateHandScore(Ps(q).hand)
  BY DEF Coherent
<1>2. CASE Kept(q)
  BY <1>1, <1>2 DEF Kept
<1>3. CASE Cleared(q)
  BY <1>3 DEF Cleared, FreshPlayerState
<1>4. CASE Forfeits(q)
  BY <1>4 DEF Forfeits
<1>5. CASE Busts(q)
  BY <1>1, <1>5 DEF Busts
<1>6. CASE PlaysOn(q)
  BY <1>1, <1>6 DEF PlaysOn
<1>7. CASE Stands(q)
  BY <1>1, <1>7 DEF Stands
<1>8. CASE ComesBack(q)
  BY <1>1, <1>8 DEF ComesBack
<1> QED BY <1>2, <1>3, <1>4, <1>5, <1>6, <1>7, <1>8, AccountStep DEF AccountMove

(* Before the first session every account is fresh.                        *)
LEMMA InitCoherent ==
  ASSUME Init
  PROVE  Coherent
BY DEF Init, Coherent, FreshPlayerState, Ps

(* The inductive invariant behind the theorems below.                      *)
LEMMA AlwaysCoherent == Spec => []Coherent
<1>1. Init => Coherent
  BY InitCoherent
<1>2. TypeOK /\ TypeOK' /\ Coherent /\ [Next]_vars => Coherent'
  BY NextCoherent
<1> QED BY <1>1, <1>2, TypeCorrect, PTL DEF Spec

(* However hit, stay, leave_game and burn_second_chance follow one         *)
(* another, active means no reason, only a player who stayed holds a score *)
(* and only one who busted a bust value.                                   *)
THEOREM StatusIsCoherent == Spec => []StatusCoherent
<1>1. TypeOK /\ Coherent => StatusCoherent
  BY DEF TypeOK, PlayerTypeOK, Coherent, StatusCoherent, Ps
<1> QED BY <1>1, TypeCorrect, AlwaysCoherent, PTL

(* The score stay wrote is the score of the hand for as long as the player *)
(* has stayed, whatever the others draw or burn.                           *)
THEOREM StayedScoreIsTrue == Spec => []StayedScoreStands
<1>1. TypeOK /\ Coherent => StayedScoreStands
  BY DEF TypeOK, PlayerTypeOK, Coherent, StayedScoreStands, Ps
<1> QED BY <1>1, TypeCorrect, AlwaysCoherent, PTL

-----------------------------------------------------------------------------
(* What a step may never do.                                               *)

(* A hand grows only by its active owner's draw, in turn, and the hand of  *)
(* a player who is and stays out is left alone.                            *)
THEOREM HandsOnlyMoveInTurn == Spec => HandsMoveInTurn
<1> DEFINE Move == \A p \in Seated :
       round_active /\ round_active' =>
         /\ Len(player_state'[p].hand) > Len(player_state[p].hand) =>
              /\ IsCurrentPlayer(p) /\ player_state[p].is_active
              /\ draw_counter' = draw_counter + 1
         /\ ~player_state[p].is_active /\ ~player_state'[p].is_active =>
              player_state'[p].hand = player_state[p].hand
<1>1. TypeOK /\ TypeOK' /\ [Next]_vars => Move
  <2> SUFFICES ASSUME TypeOK, TypeOK', [Next]_vars, NEW p \in Seated,
                      round_active, round_active'
               PROVE  /\ Len(Ps(p)'.hand) > Len(Ps(p).hand) =>
                           /\ IsCurrentPlayer(p) /\ Ps(p).is_active
                           /\ draw_counter' = draw_counter + 1
                      /\ ~Ps(p).is_active /\ ~Ps(p)'.is_active => Ps(p)'.hand = Ps(p).hand
    BY DEF Ps
  <2>1. p \in Players
    BY DEF TypeOK, TurnTypeOK, Seated
  <2>2. Len(Ps(p).hand) \in Nat /\ Len(Ps(p)'.hand) \in Nat
    BY <2>1 DEF TypeOK, PlayerTypeOK, PlayerState, Hand, Ps
  <2>3. AccountMove(p)
    BY <2>1, AccountStep
  <2> QED
    BY <2>2, <2>3 DEF AccountMove, Kept, Cleared, Forfeits, Busts, PlaysOn, Stands, ComesBack
<1>2. TypeOK /\ TypeOK' /\ [Next]_vars => [Move]_vars
  BY <1>1
<1> QED BY <1>2, TypeCorrect, PTL DEF Spec, HandsMoveInTurn

(* A player who is out comes back at most once, only from a bust, and only *)
(* by burning the price.                                                   *)
THEOREM ComebackIsBought == Spec => ComebackIsPaid
<1> DEFINE Move == \A p \in accounts :
       round_active /\ round_active' /\ ~player_state[p].is_active /\ player_state'[p].is_active =>
         /\ player_state[p].inactive_reason = BUST
         /\ ~player_state[p].has_used_second_chance /\ player_state'[p].has_used_second_chance
         /\ supply' = supply - SecondChanceCost
<1>1. TypeOK /\ [Next]_vars => Move
  <2> SUFFICES ASSUME TypeOK, [Next]_vars, NEW p \in accounts, round_active, round_active',
                      ~Ps(p).is_active, Ps(p)'.is_active
               PROVE  /\ Ps(p).inactive_reason = BUST
                      /\ ~Ps(p).has_used_second_chance /\ Ps(p)'.has_used_second_chance
                      /\ supply' = supply - SecondChanceCost
    BY DEF Ps
  <2>1. p \in Players
    BY DEF TypeOK, PlayerTypeOK
  <2>2. AccountMove(p)
    BY <2>1, AccountStep
  <2> QED
    BY <2>2 DEF AccountMove, Kept, Cleared, Forfeits, Busts, PlaysOn, Stands, ComesBack
<1>2. TypeOK /\ [Next]_vars => [Move]_vars
  BY <1>1
<1> QED BY <1>2, TypeCorrect, PTL DEF Spec, ComebackIsPaid

(* What PotGoesToBestHand says of a step.                                  *)
StayedPlayers == {p \in Seated : player_state[p].inactive_reason = STAYED}
PaidPlayers == {p \in Players : wallet'[p] # wallet[p]}
Worth(p) == CalculateHandScore(player_state[p].hand)

PotIsWellPaid ==
  /\ pot_amount' = 0
  /\ \A p \in Seated : ~player_state[p].is_active
  /\ PaidPlayers = {} => StayedPlayers = {} /\ rollover_count = RolloverCap
  /\ \A p \in PaidPlayers :
       /\ p \in StayedPlayers
       /\ \A q \in StayedPlayers : Worth(q) <= Worth(p)
       /\ wallet'[p] = wallet[p] + pot_amount - (treasury' - treasury)
  /\ Cardinality(PaidPlayers) <= 1

(* A winner is paid: the rake leaves something of the pot, and the highest *)
(* score is the highest worth since every score is its hand's.             *)
LEMMA WinnerIsPaid ==
  ASSUME TypeOK, Coherent, NEW w \in 1..Len(turn_order), EndRoundWithWinner(w),
         pot_amount' < pot_amount
  PROVE  PotIsWellPaid
<1> DEFINE p == turn_order[w]
<1>1. /\ turn_order \in Seq(Players) /\ wallet \in [Players -> Nat]
      /\ treasury \in Nat /\ pot_amount \in Nat
  BY U64Assumption DEF TypeOK, TurnTypeOK, TokenTypeOK, PotTypeOK
<1>2. p \in Players /\ p \in Seated
  BY <1>1, ElementOfSeq DEF Seated
<1>3. Rake \in Nat /\ Rake < pot_amount
  <2>1. pot_amount' = 0
    BY DEF EndRoundWithWinner
  <2>2. pot_amount > 0
    BY <1>1, <2>1
  <2>3. Rake \in 0..pot_amount /\ Rake < pot_amount
    BY <2>2, RakeType
  <2> QED BY <1>1, <2>3
<1>4. /\ wallet' = [wallet EXCEPT ![p] = @ + (pot_amount - Rake)]
      /\ treasury' = treasury + Rake /\ pot_amount' = 0
      /\ \A q \in Seated : ~player_state[q].is_active
  BY DEF EndRoundWithWinner, CanEndRound
<1>5. \A q \in StayedPlayers : Worth(q) <= Worth(p)
  <2>1. ASSUME NEW q \in StayedPlayers
        PROVE  Worth(q) <= Worth(p)
    <3>1. PICK i \in StayedSeats : turn_order[i] = q
      BY DEF StayedPlayers, Seated, StayedSeats
    <3>2. player_state[q].score <= player_state[p].score
      BY <3>1 DEF EndRoundWithWinner, IsWinningSeat
    <3>3. q \in Players /\ player_state[q].inactive_reason = STAYED
      BY <1>1, <3>1, ElementOfSeq DEF StayedPlayers, StayedSeats
    <3>4. player_state[p].inactive_reason = STAYED
      BY DEF EndRoundWithWinner, IsWinningSeat, StayedSeats
    <3>5. player_state[q].score = Worth(q) /\ player_state[p].score = Worth(p)
      <4> HIDE DEF p
      <4> QED BY <1>2, <3>3, <3>4 DEF Coherent, Ps, Worth
    <3> QED BY <3>2, <3>5
  <2> QED BY <2>1
<1>6. p \in StayedPlayers
  BY <1>2 DEF EndRoundWithWinner, IsWinningSeat, StayedSeats, StayedPlayers
<1> HIDE DEF p
<1>7. PaidPlayers = {p}
  <2>1. wallet[p] \in Nat /\ wallet'[p] = wallet[p] + (pot_amount - Rake)
    BY <1>1, <1>2, <1>4
  <2>2. wallet'[p] # wallet[p]
    BY <1>1, <1>3, <2>1
  <2>3. \A q \in Players : q # p => wallet'[q] = wallet[q]
    BY <1>1, <1>4
  <2> QED BY <1>2, <2>2, <2>3 DEF PaidPlayers
<1>8. wallet'[p] = wallet[p] + pot_amount - (treasury' - treasury)
  <2>1. wallet[p] \in Nat /\ wallet'[p] = wallet[p] + (pot_amount - Rake)
    BY <1>1, <1>2, <1>4
  <2> QED BY <1>1, <1>3, <1>4, <2>1
<1>9. Cardinality(PaidPlayers) <= 1
  <2>1. Cardinality({p}) = 1
    BY FS_Singleton
  <2> QED BY <1>7, <2>1
<1> QED BY <1>4, <1>5, <1>6, <1>7, <1>8, <1>9 DEF PotIsWellPaid

(* A swept pot goes to nobody's wallet, and only at the cap.               *)
LEMMA SweepIsLate ==
  ASSUME TypeOK, EndRoundSweep
  PROVE  PotIsWellPaid
<1>1. rollover_count = RolloverCap
  <2>1. rollover_count \in 0..RolloverCap /\ RolloverCap \in Nat
    BY ParameterAssumption DEF TypeOK, PotTypeOK
  <2> QED BY <2>1 DEF EndRoundSweep
<1>2. PaidPlayers = {}
  BY DEF EndRoundSweep, PaidPlayers
<1>3. StayedPlayers = {}
  BY DEF EndRoundSweep, StayedSeats, StayedPlayers, Seated
<1>4. Cardinality(PaidPlayers) <= 1
  BY <1>2, FS_EmptySet
<1> QED BY <1>1, <1>2, <1>3, <1>4 DEF PotIsWellPaid, EndRoundSweep, CanEndRound

(* The other instructions take nothing out of the pot.                     *)
LEMMA PotOnlyEnds ==
  ASSUME TypeOK, VaultBacksPot, [Next]_vars, pot_amount' < pot_amount
  PROVE  \/ \E w \in 1..Len(turn_order) : EndRoundWithWinner(w)
         \/ EndRoundSweep
<1> USE DEF sessionVars, potVars
<1>0. pot_amount \in Nat
  BY U64Assumption DEF TypeOK, PotTypeOK
<1>1. pot_amount' # pot_amount
  BY <1>0
<1>2. CASE (\E fee \in Fees : Initialize(fee)) \/ CloseGame
  <2>1. pot_amount = 0 /\ pot_amount' = 0
    BY <1>2 DEF Initialize, CloseGame, ClearSession, VaultBacksPot
  <2> QED BY <1>1, <2>1
<1>3. ASSUME NEW p \in Players, NEW stake \in Stakes, JoinRound(p, stake)
      PROVE  FALSE
  <2> DEFINE staked == IF vault_ready THEN stake ELSE 0
  <2>1. staked \in Nat /\ pot_amount' = pot_amount + staked
    BY <1>3, ParameterAssumption DEF JoinRound
  <2> QED BY <1>0, <2>1
<1>4. CASE \E p \in Players : LeaveGame(p)
  BY <1>1, <1>4 DEF LeaveGame, LeaveBetweenRounds, ForfeitMidRound
<1>5. CASE \/ InitVault
           \/ \E deck \in Decks : CommitDeck(deck)
           \/ StartRound
  BY <1>1, <1>5 DEF InitVault, CommitDeck, StartRound
<1>6. CASE \E p, t \in Players : Hit(p, t)
  BY <1>1, <1>6 DEF Hit, HitBust, HitPlain, HitRugPull, HitVampireAttack, CountDraw
<1>7. CASE \E p \in Players : Stay(p) \/ BurnSecondChance(p) \/ BurnScry(p)
  BY <1>1, <1>7 DEF Stay, BurnSecondChance, BurnScry
<1>8. CASE EndRound
  BY <1>1, <1>8 DEF EndRound, EndRoundRollover
<1>9. CASE UNCHANGED vars
  BY <1>1, <1>9 DEF vars
<1> QED BY <1>2, <1>3, <1>4, <1>5, <1>6, <1>7, <1>8, <1>9 DEF Next

(* The pot leaves the vault only as a round ends with everybody out, whole:*)
(* to one of the best hands that stayed, less the rake, or swept at the    *)
(* cap when nobody stayed.                                                 *)
THEOREM BestHandTakesPot == Spec => PotGoesToBestHand
<1> DEFINE Move == pot_amount' < pot_amount =>
       LET stayed == {p \in Seated : player_state[p].inactive_reason = STAYED}
           paid == {p \in Players : wallet'[p] # wallet[p]}
           worth(p) == CalculateHandScore(player_state[p].hand)
       IN /\ pot_amount' = 0
          /\ \A p \in Seated : ~player_state[p].is_active
          /\ paid = {} => stayed = {} /\ rollover_count = RolloverCap
          /\ \A p \in paid :
               /\ p \in stayed
               /\ \A q \in stayed : worth(q) <= worth(p)
               /\ wallet'[p] = wallet[p] + pot_amount - (treasury' - treasury)
          /\ Cardinality(paid) <= 1
<1>1. TypeOK /\ VaultBacksPot /\ Coherent /\ [Next]_vars => Move
  <2> SUFFICES ASSUME TypeOK, VaultBacksPot, Coherent, [Next]_vars, pot_amount' < pot_amount
               PROVE  PotIsWellPaid
    BY DEF PotIsWellPaid, StayedPlayers, PaidPlayers, Worth
  <2> QED BY PotOnlyEnds, WinnerIsPaid, SweepIsLate
<1>2. TypeOK /\ VaultBacksPot /\ Coherent /\ [Next]_vars => [Move]_vars
  BY <1>1
<1> QED BY <1>2, TypeCorrect, VaultIsExact, AlwaysCoherent, PTL DEF Spec, PotGoesToBestHand

-----------------------------------------------------------------------------
(* The cards in the hands come from the deck.                              *)

(* The copies of c in one hand, in all hands, and among the cards dealt.   *)
Held(p, c) == CopiesOf(Ps(p).hand, Len(Ps(p).hand), c)
HeldBy(c) == [p \in Seated |-> Held(p, c)]
InHands(c) == SumOver(HeldBy(c), Seated)
Dealt(c) == CopiesOf(merkle_root, draw_counter, c)

InPlay == round_active /\ accounts \subseteq Seated

HandsWithinDeal == InPlay => \A c : InHands(c) <= Dealt(c)

(* The sum CardsComeFromDeck is stated with is the one over the hands.     *)
LEMMA HandsAreSummed == HandsWithinDeal => CardsComeFromDeck
<1> DEFINE copies(p, c) == Cardinality({i \in 1..Len(player_state[p].hand) :
                                          player_state[p].hand[i] = c})
           all(c) == MapThenSumSet(LAMBDA p : copies(p, c), Seated)
<1>1. ASSUME NEW c
      PROVE  InHands(c) = all(c)
  <2> DEFINE Solves(k) == k = [s \in SUBSET Seated |->
                                 IF s = {} THEN 0
                                 ELSE HeldBy(c)[AnyOf(s)] + k[s \ {AnyOf(s)}]]
             SolvesAll(k) == k = [s \in SUBSET Seated |->
                                    IF s = {} THEN 0
                                    ELSE copies(AnyOf(s), c) + k[s \ {AnyOf(s)}]]
  <2>1. InHands(c) = (CHOOSE k : Solves(k))[Seated]
    BY DEF InHands, SumOver, MapThenSumSet, MapThenFoldSet, AnyOf
  <2>2. all(c) = (CHOOSE k : SolvesAll(k))[Seated]
    BY DEF MapThenSumSet, MapThenFoldSet, AnyOf
  <2>3. \A k : Solves(k) <=> SolvesAll(k)
    <3>1. ASSUME NEW s \in SUBSET Seated, s # {}
          PROVE  HeldBy(c)[AnyOf(s)] = copies(AnyOf(s), c)
      <4>1. AnyOf(s) \in Seated
        BY <3>1 DEF AnyOf
      <4> QED BY <4>1 DEF HeldBy, Held, CopiesOf, Ps
    <3> QED BY <3>1
  <2> HIDE DEF Solves, SolvesAll
  <2>4. (CHOOSE k : Solves(k)) = (CHOOSE k : SolvesAll(k))
    BY <2>3
  <2> QED BY <2>1, <2>2, <2>4
<1> HIDE DEF InHands
<1> QED BY <1>1 DEF CardsComeFromDeck, HandsWithinDeal, InPlay, Dealt, CopiesOf

(* A hand and a seat are what their types say, and the seats are finite.   *)
LEMMA HandsTyped ==
  ASSUME TypeOK
  PROVE  /\ IsFiniteSet(Seated) /\ Seated \subseteq Players
         /\ merkle_root \in Seq(Card) /\ draw_counter \in Nat
         /\ \A q \in Players : Ps(q).hand \in Seq(Card) /\ Len(Ps(q).hand) \in Nat
<1>1. Seated \subseteq Players
  BY ElementOfSeq DEF TypeOK, TurnTypeOK, Seated
<1>2. IsFiniteSet(Seated)
  BY <1>1, ParameterAssumption, FS_Subset
<1>3. merkle_root \in Seq(Card) /\ draw_counter \in Nat
  <2>1. merkle_root \in Decks \/ merkle_root = << >>
    BY DEF TypeOK, DeckTypeOK
  <2>2. Decks \subseteq Seq(Card) /\ << >> \in Seq(Card)
    BY ParameterAssumption
  <2> QED BY <2>1, <2>2 DEF TypeOK, DeckTypeOK
<1>4. \A q \in Players : Ps(q).hand \in Seq(Card) /\ Len(Ps(q).hand) \in Nat
  BY AccountsTyped DEF Ps, PlayerState, Hand
<1> QED BY <1>1, <1>2, <1>3, <1>4

(* How the hands of the seats change bounds how their sum does.            *)
LEMMA InHandsStep ==
  ASSUME TypeOK, TypeOK', NEW c, turn_order' = turn_order
  PROVE  /\ InHands(c) \in Int /\ InHands(c)' \in Int /\ Dealt(c) \in Nat
         /\ (\A q \in Seated : Held(q, c)' <= Held(q, c)) => InHands(c)' <= InHands(c)
         /\ \A p \in Seated, n \in Int :
              (/\ \A q \in Seated : q # p => Held(q, c)' <= Held(q, c)
               /\ Held(p, c)' <= Held(p, c) + n)
              => InHands(c)' <= InHands(c) + n
         /\ \A p, t \in Seated, n, e \in Int :
              (/\ p # t
               /\ \A q \in Seated : q # p /\ q # t => Held(q, c)' <= Held(q, c)
               /\ Held(t, c)' <= Held(t, c) - e
               /\ Held(p, c)' <= Held(p, c) + e + n)
              => InHands(c)' <= InHands(c) + n
<1> DEFINE f == HeldBy(c)
           g == HeldBy(c)'
<1>1. Seated' = Seated /\ IsFiniteSet(Seated) /\ Seated \subseteq Players
  BY HandsTyped DEF Seated
<1>2. \A q \in Seated : Held(q, c) \in Int /\ Held(q, c)' \in Int
  <2>1. ASSUME NEW q \in Seated
        PROVE  Held(q, c) \in Int
    BY <1>1, HandsTyped, CopiesCount DEF Held
  <2>2. ASSUME NEW q \in Seated
        PROVE  Held(q, c)' \in Int
    <3>1. Len(Ps(q)'.hand) \in Nat
      BY <1>1 DEF TypeOK, PlayerTypeOK, PlayerState, Hand, Ps
    <3> QED BY <3>1, CopiesCount DEF Held
  <2> QED BY <2>1, <2>2
<1>3. \A q \in Seated : f[q] = Held(q, c) /\ g[q] = Held(q, c)'
  BY <1>1 DEF HeldBy
<1>4. InHands(c) = SumOver(f, Seated) /\ InHands(c)' = SumOver(g, Seated)
  BY <1>1 DEF InHands
<1>5. Dealt(c) \in Nat
  BY HandsTyped, CopiesCount DEF Dealt
<1> HIDE DEF f, g
<1>6. \A q \in Seated : f[q] \in Int /\ g[q] \in Int
  BY <1>2, <1>3
<1>7. InHands(c) \in Int /\ InHands(c)' \in Int
  BY <1>1, <1>4, <1>6, SumTakeOut
<1>8. ASSUME \A q \in Seated : Held(q, c)' <= Held(q, c)
      PROVE  InHands(c)' <= InHands(c)
  <2>1. \A q \in Seated : g[q] \in Int /\ f[q] \in Int /\ g[q] <= f[q]
    BY <1>3, <1>6, <1>8
  <2> QED BY <1>1, <1>4, <2>1, SumMonotone
<1>9. ASSUME NEW p \in Seated, NEW n \in Int,
             \A q \in Seated : q # p => Held(q, c)' <= Held(q, c),
             Held(p, c)' <= Held(p, c) + n
      PROVE  InHands(c)' <= InHands(c) + n
  <2>1. (\A q \in Seated : q # p => g[q] <= f[q]) /\ g[p] <= f[p] + n
    BY <1>3, <1>9
  <2> QED BY <1>1, <1>4, <1>6, <2>1, SumGrows
<1>10. ASSUME NEW p \in Seated, NEW t \in Seated, NEW n \in Int, NEW e \in Int, p # t,
              \A q \in Seated : q # p /\ q # t => Held(q, c)' <= Held(q, c),
              Held(t, c)' <= Held(t, c) - e,
              Held(p, c)' <= Held(p, c) + e + n
       PROVE  InHands(c)' <= InHands(c) + n
  <2>1. /\ \A q \in Seated : q # p /\ q # t => g[q] <= f[q]
        /\ g[t] <= f[t] - e /\ g[p] <= f[p] + e + n
    BY <1>3, <1>10
  <2> QED BY <1>1, <1>4, <1>6, <1>10, <2>1, SumMoves
<1> QED BY <1>5, <1>7, <1>8, <1>9, <1>10

(* A step that deals nothing and lets no hand grow.                        *)
LEMMA QuietHands ==
  ASSUME TypeOK, TypeOK', HandsWithinDeal,
         UNCHANGED <<turn_order, accounts, merkle_root, draw_counter>>, round_active' => round_active,
         \A c : \A q \in Players : Held(q, c)' <= Held(q, c)
  PROVE  HandsWithinDeal'
<1>1. Seated' = Seated /\ Seated \subseteq Players
  BY HandsTyped DEF Seated
<1>2. ASSUME NEW c, InPlay'
      PROVE  InHands(c)' <= Dealt(c)'
  <2>1. Dealt(c)' = Dealt(c)
    BY DEF Dealt
  <2>2. InHands(c) <= Dealt(c)
    BY <1>1, <1>2 DEF InPlay, HandsWithinDeal
  <2>3. InHands(c)' <= InHands(c)
    BY <1>1, InHandsStep
  <2>4. InHands(c) \in Int /\ InHands(c)' \in Int /\ Dealt(c) \in Nat
    BY InHandsStep
  <2> QED BY <2>1, <2>2, <2>3, <2>4
<1> QED BY <1>2 DEF HandsWithinDeal

(* hit: whatever the drawn card does, all hands together gain that card.   *)
LEMMA HitHands ==
  ASSUME TypeOK, TypeOK', RoundIsSeated, HandsWithinDeal,
         NEW p \in Players, NEW t \in Players, Hit(p, t)
  PROVE  HandsWithinDeal'
<1>1. CanDraw(p) /\ CountDraw
  BY DEF Hit, HitBust, HitPlain, HitRugPull, HitVampireAttack, DrawsEffect
<1>2. /\ p \in accounts /\ round_active
      /\ UNCHANGED <<turn_order, accounts, merkle_root>> /\ draw_counter' = draw_counter + 1
  BY <1>1 DEF CanDraw, IsCurrentPlayer, CountDraw
<1>3. SUFFICES ASSUME NEW c, InPlay'
               PROVE  InHands(c)' <= Dealt(c)'
  BY DEF HandsWithinDeal
<1>4. InPlay /\ p \in Seated
  BY <1>2, <1>3 DEF InPlay, Seated
<1>5. /\ Seated \subseteq Players /\ merkle_root \in Seq(Card) /\ draw_counter \in Nat
      /\ \A q \in Players : Ps(q).hand \in Seq(Card) /\ Len(Ps(q).hand) \in Nat
      /\ player_state \in [Players -> PlayerState]
  BY HandsTyped, AccountsTyped
<1> DEFINE n == IF NextCard = c THEN 1 ELSE 0
<1>6. n \in Int /\ NextCard \in Card
  BY <1>1, NextCardType
<1>7. Dealt(c)' = Dealt(c) + n
  BY <1>2, <1>5, CopiesCount DEF Dealt, NextCard
<1>8. CopiesOf(DrawnHand(p), Len(DrawnHand(p)), c) = Held(p, c) + n
  BY <1>5, <1>6, CopiesAppend DEF DrawnHand, Held, Ps
<1> HIDE DEF n
<1>9. \A q \in Players : Held(q, c) \in Int
  BY <1>5, CopiesCount DEF Held
<1>10. ASSUME InHands(c)' <= InHands(c) + n
       PROVE  InHands(c)' <= Dealt(c)'
  <2>1. InHands(c) <= Dealt(c)
    BY <1>4 DEF HandsWithinDeal
  <2>2. InHands(c) \in Int /\ InHands(c)' \in Int /\ Dealt(c) \in Nat
    BY <1>2, InHandsStep
  <2> QED BY <1>6, <1>7, <1>10, <2>1, <2>2
<1>11. CASE HitBust(p) \/ HitPlain(p)
  <2>1. Ps(p)'.hand = DrawnHand(p) /\ \A q \in Players : q # p => Ps(q)' = Ps(q)
    <3>1. CASE HitPlain(p)
      <4>1. player_state' = [player_state EXCEPT ![p].hand = DrawnHand(p)]
        BY <3>1 DEF HitPlain
      <4> QED BY <1>5, <4>1 DEF Ps, PlayerState
    <3>2. CASE HitBust(p)
      <4>1. PICK v : player_state' = [player_state EXCEPT ![p].hand = DrawnHand(p),
                                                          ![p].is_active = FALSE,
                                                          ![p].inactive_reason = BUST,
                                                          ![p].bust_card_value = v]
        BY <3>2 DEF HitBust
      <4> QED BY <1>5, <4>1 DEF Ps, PlayerState
    <3> QED BY <1>11, <3>1, <3>2
  <2>2. Held(p, c)' = Held(p, c) + n
    BY <1>8, <2>1 DEF Held
  <2>3. \A q \in Seated : q # p => Held(q, c)' = Held(q, c)
    BY <1>5, <2>1 DEF Held
  <2>4. \A q \in Seated : q # p => Held(q, c)' <= Held(q, c)
    BY <1>5, <1>9, <2>3
  <2>5. Held(p, c)' <= Held(p, c) + n
    BY <1>6, <1>9, <2>2
  <2>6. InHands(c)' <= InHands(c) + n
    BY <1>2, <1>4, <1>6, <2>4, <2>5, InHandsStep
  <2> QED BY <1>10, <2>6
<1>12. ASSUME NEW h, NEW k, IsTarget(p, t),
              player_state' = [player_state EXCEPT ![p].hand = h, ![t].hand = k]
       PROVE  /\ t # p /\ t \in Seated /\ Ps(p)'.hand = h /\ Ps(t)'.hand = k
              /\ \A q \in Seated : q # p /\ q # t => Held(q, c)' <= Held(q, c)
  <2>1. t # p /\ t \in Seated
    BY <1>4, <1>12 DEF IsTarget, InPlay
  <2>2. Ps(p)'.hand = h /\ Ps(t)'.hand = k
        /\ \A q \in Players : q # p /\ q # t => Ps(q)' = Ps(q)
    BY <1>5, <1>12, <2>1 DEF Ps, PlayerState
  <2>3. \A q \in Seated : q # p /\ q # t => Held(q, c)' = Held(q, c)
    BY <1>5, <2>2 DEF Held
  <2> QED BY <1>5, <1>9, <2>1, <2>2, <2>3
<1>13. CASE HitRugPull(p, t)
  <2>1. PICK i \in 1..MaxHandSize :
         /\ IsHighestAlpha(player_state[t].hand, i)
         /\ player_state' = [player_state EXCEPT ![p].hand = DrawnHand(p),
                                                 ![t].hand = RemoveAt(@, i)]
    BY <1>13 DEF HitRugPull
  <2> DEFINE k == RemoveAt(player_state[t].hand, i)
  <2>2. IsTarget(p, t) /\ t # p
    BY <1>13 DEF HitRugPull, IsTarget
  <2>3. player_state' = [player_state EXCEPT ![p].hand = DrawnHand(p), ![t].hand = k]
    BY <1>5, <2>1, <2>2
  <2>4. CopiesOf(k, Len(k), c) <= Held(t, c)
    BY <1>5, <2>1, CopiesRemoveAt DEF IsHighestAlpha, Held, Ps
  <2> HIDE DEF k
  <2>5. /\ t # p /\ t \in Seated /\ Ps(p)'.hand = DrawnHand(p) /\ Ps(t)'.hand = k
        /\ \A q \in Seated : q # p /\ q # t => Held(q, c)' <= Held(q, c)
    BY <1>12, <2>2, <2>3
  <2>6. Held(p, c)' = Held(p, c) + n /\ Held(t, c)' <= Held(t, c)
    BY <1>8, <2>4, <2>5 DEF Held
  <2>7. \A q \in Seated : q # p => Held(q, c)' <= Held(q, c)
    BY <2>5, <2>6
  <2>8. Held(p, c)' <= Held(p, c) + n
    BY <1>6, <1>9, <2>6
  <2>9. InHands(c)' <= InHands(c) + n
    BY <1>2, <1>4, <1>6, <2>7, <2>8, InHandsStep
  <2> QED BY <1>10, <2>9
<1>14. CASE HitVampireAttack(p, t)
  <2> DEFINE x == Last(player_state[t].hand)
             h == Append(DrawnHand(p), x)
             k == Front(player_state[t].hand)
             e == IF x = c THEN 1 ELSE 0
  <2>1. /\ player_state' = [player_state EXCEPT ![p].hand = h, ![t].hand = Front(@)]
        /\ IsTarget(p, t) /\ t # p /\ player_state[t].hand # << >>
    BY <1>14 DEF HitVampireAttack, IsTarget
  <2>2. player_state' = [player_state EXCEPT ![p].hand = h, ![t].hand = k]
    BY <1>5, <2>1
  <2>3. e \in Int /\ x \in Card
    BY <1>5, <2>1, FrontType DEF Ps
  <2>4. Held(t, c) = CopiesOf(k, Len(k), c) + e
    BY <1>5, <2>1, CopiesFront DEF Held, Ps
  <2>5. CopiesOf(h, Len(h), c) = CopiesOf(DrawnHand(p), Len(DrawnHand(p)), c) + e
    <3>1. DrawnHand(p) \in Seq(Card)
      BY <1>1, NextCardType DEF Hand
    <3> QED BY <2>3, <3>1, CopiesAppend
  <2>6. CopiesOf(k, Len(k), c) \in Nat
    <3>1. Len(k) \in Nat
      BY <1>5, <2>1, FrontType DEF Ps
    <3> QED BY <3>1, CopiesCount
  <2> HIDE DEF h, k, e, x
  <2>7. /\ t # p /\ t \in Seated /\ Ps(p)'.hand = h /\ Ps(t)'.hand = k
        /\ \A q \in Seated : q # p /\ q # t => Held(q, c)' <= Held(q, c)
    BY <1>12, <2>1, <2>2
  <2>8. Held(p, c)' = Held(p, c) + n + e /\ Held(t, c)' = Held(t, c) - e
    BY <1>6, <1>8, <1>9, <2>3, <2>4, <2>5, <2>6, <2>7 DEF Held
  <2>9. Held(t, c)' <= Held(t, c) - e /\ Held(p, c)' <= Held(p, c) + e + n
    BY <1>6, <1>9, <2>3, <2>8
  <2>10. InHands(c)' <= InHands(c) + n
    BY <1>2, <1>4, <1>6, <2>3, <2>7, <2>9, InHandsStep
  <2> QED BY <1>10, <2>10
<1> QED BY <1>11, <1>13, <1>14 DEF Hit

(* stay, leave_game in a round, the burns and init_vault: no hand grows.   *)
LEMMA StandingHands ==
  ASSUME TypeOK, TypeOK', HandsWithinDeal, NEW p \in Players,
         Stay(p) \/ ForfeitMidRound(p) \/ BurnSecondChance(p) \/ BurnScry(p)
  PROVE  HandsWithinDeal'
<1>0. player_state \in [Players -> PlayerState]
  BY AccountsTyped
<1>1. UNCHANGED <<turn_order, accounts, merkle_root, draw_counter, round_active>>
  <2>1. CASE Stay(p)
    BY <2>1 DEF Stay, deckVars, roundVars
  <2>2. CASE ForfeitMidRound(p) \/ BurnSecondChance(p) \/ BurnScry(p)
    BY <2>2 DEF ForfeitMidRound, BurnSecondChance, BurnScry, sessionVars, turnVars, roundVars,
                deckVars
  <2> QED BY <2>1, <2>2
<1>2. \A q \in Players : q # p => Ps(q)' = Ps(q)
  BY <1>0 DEF Stay, ForfeitMidRound, BurnSecondChance, BurnScry, Ps
<1>3. Ps(p)'.hand = Ps(p).hand \/ Ps(p)'.hand = PopCard(Ps(p).hand)
  <2>1. CASE Stay(p)
    <3>1. PICK n : player_state' = [player_state EXCEPT ![p].score = n,
                                                        ![p].is_active = FALSE,
                                                        ![p].inactive_reason = STAYED]
      BY <2>1 DEF Stay
    <3> QED BY <1>0, <3>1 DEF Ps, PlayerState
  <2>2. CASE ForfeitMidRound(p) \/ BurnScry(p)
    BY <1>0, <2>2 DEF ForfeitMidRound, BurnScry, Ps, PlayerState
  <2>3. CASE BurnSecondChance(p)
    <3>1. PICK h : h = PopCard(Ps(p).hand)
      OBVIOUS
    <3>2. player_state' = [player_state EXCEPT ![p].hand = h,
                                               ![p].is_active = TRUE,
                                               ![p].inactive_reason = ACTIVE,
                                               ![p].bust_card_value = 0,
                                               ![p].has_used_second_chance = TRUE]
      BY <1>0, <2>3, <3>1, Zenon DEF BurnSecondChance, Ps
    <3>3. Ps(p)'.hand = h
      BY <1>0, <3>2 DEF Ps, PlayerState
    <3> QED BY <3>1, <3>3
  <2> QED BY <2>1, <2>2, <2>3
<1>4. ASSUME NEW c, NEW q \in Players
      PROVE  Held(q, c)' <= Held(q, c)
  <2>1. Ps(q).hand \in Seq(Card) /\ Len(Ps(q).hand) \in Nat
    BY HandsTyped
  <2>2. Held(q, c) \in Nat
    BY <2>1, CopiesCount DEF Held
  <2>3. CASE Ps(q)'.hand = Ps(q).hand
    BY <2>2, <2>3 DEF Held
  <2>4. CASE Ps(q)'.hand = Front(Ps(q).hand) /\ Ps(q).hand # << >>
    <3> DEFINE k == Front(Ps(q).hand)
               e == IF Last(Ps(q).hand) = c THEN 1 ELSE 0
    <3>1. Len(k) \in Nat
      BY <2>1, <2>4, FrontType
    <3>2. Held(q, c) = CopiesOf(k, Len(k), c) + e
      BY <2>1, <2>4, CopiesFront DEF Held
    <3>3. e \in Nat
      OBVIOUS
    <3> HIDE DEF k, e
    <3>4. CopiesOf(k, Len(k), c) \in Nat
      BY <3>1, CopiesCount
    <3>5. Held(q, c)' = CopiesOf(k, Len(k), c)
      BY <2>4 DEF Held, k
    <3> QED BY <3>2, <3>3, <3>4, <3>5
  <2> QED BY <1>2, <1>3, <2>3, <2>4 DEF PopCard
<1> QED BY <1>1, <1>4, QuietHands

(* start_round: the seated players' hands are empty.                       *)
LEMMA StartingHands ==
  ASSUME TypeOK, TypeOK', StartRound
  PROVE  HandsWithinDeal'
<1>1. SUFFICES ASSUME NEW c
               PROVE  InHands(c)' <= Dealt(c)'
  BY DEF HandsWithinDeal
<1>2. turn_order' = turn_order /\ draw_counter' = draw_counter /\ merkle_root' = merkle_root
  BY DEF StartRound, deckVars
<1>3. Seated' = Seated /\ IsFiniteSet(Seated) /\ Seated \subseteq Players
  BY <1>2, HandsTyped DEF Seated
<1>4. ASSUME NEW q \in Seated
      PROVE  Held(q, c)' = 0
  <2>1. Ps(q)'.hand = << >>
    BY <1>3 DEF StartRound, Ps, FreshPlayerState
  <2> QED BY <2>1, CopiesCount DEF Held
<1>5. InHands(c)' = 0
  <2> DEFINE g == HeldBy(c)'
  <2>1. \A q \in Seated : g[q] = 0
    BY <1>3, <1>4 DEF HeldBy
  <2>2. InHands(c)' = SumOver(g, Seated)
    BY <1>3 DEF InHands
  <2> HIDE DEF g
  <2>3. SumOver(g, Seated) = Cardinality(Seated) * 0
    BY <1>3, <2>1, SumConstant
  <2>4. Cardinality(Seated) \in Nat
    BY <1>3, FS_CardinalityType
  <2> QED BY <2>2, <2>3, <2>4
<1>6. Dealt(c)' \in Nat
  <2>1. Dealt(c) \in Nat
    BY <1>2, InHandsStep
  <2> QED BY <1>2, <2>1 DEF Dealt
<1> QED BY <1>5, <1>6

(* Every instruction keeps the hands within what was dealt.                *)
LEMMA NextHands ==
  ASSUME TypeOK, RoundIsSeated, HandsWithinDeal, [Next]_vars
  PROVE  HandsWithinDeal'
<1>0. TypeOK'
  BY NextType
<1>1. ASSUME ~round_active'
      PROVE  HandsWithinDeal'
  BY <1>1 DEF HandsWithinDeal, InPlay
<1>2. CASE (\E fee \in Fees : Initialize(fee)) \/ CloseGame
  BY <1>1, <1>2 DEF Initialize, CloseGame, ClearSession
<1>3. ASSUME NEW p \in Players, NEW stake \in Stakes, JoinRound(p, stake)
      PROVE  HandsWithinDeal'
  BY <1>1, <1>3 DEF JoinRound, roundVars
<1>4. ASSUME NEW p \in Players, LeaveBetweenRounds(p)
      PROVE  HandsWithinDeal'
  BY <1>1, <1>4 DEF LeaveBetweenRounds, roundVars
<1>5. ASSUME NEW deck \in Decks, CommitDeck(deck)
      PROVE  HandsWithinDeal'
  BY <1>1, <1>5 DEF CommitDeck, roundVars
<1>6. CASE EndRound
  BY <1>1, <1>6 DEF EndRound, EndRoundWithWinner, EndRoundRollover, EndRoundSweep, FinishRound
<1>7. CASE StartRound
  BY <1>0, <1>7, StartingHands
<1>8. ASSUME NEW p \in Players, NEW t \in Players, Hit(p, t)
      PROVE  HandsWithinDeal'
  BY <1>0, <1>8, HitHands
<1>9. ASSUME NEW p \in Players,
             Stay(p) \/ ForfeitMidRound(p) \/ BurnSecondChance(p) \/ BurnScry(p)
      PROVE  HandsWithinDeal'
  BY <1>0, <1>9, StandingHands
<1>10. CASE InitVault \/ UNCHANGED vars
  <2>1. UNCHANGED <<turn_order, accounts, merkle_root, draw_counter, round_active, player_state>>
    BY <1>10 DEF InitVault, vars, sessionVars, turnVars, deckVars, roundVars, playerVars
  <2>2. ASSUME NEW c, NEW q \in Players
        PROVE  Held(q, c)' <= Held(q, c)
    <3>1. Held(q, c) \in Nat
      BY HandsTyped, CopiesCount DEF Held
    <3>2. Held(q, c)' = Held(q, c)
      BY <2>1 DEF Held, Ps
    <3> QED BY <3>1, <3>2
  <2> QED BY <1>0, <2>1, <2>2, QuietHands
<1> QED
  BY <1>2, <1>3, <1>4, <1>5, <1>6, <1>7, <1>8, <1>9, <1>10 DEF Next, LeaveGame

(* No card is in more hands than it was dealt, through thefts, rug pulls,  *)
(* second chances and forfeits, for every deck and any number of seats.    *)
THEOREM HandsHoldTheDeal == Spec => []CardsComeFromDeck
<1>1. Init => HandsWithinDeal
  BY DEF Init, HandsWithinDeal, InPlay
<1>2. TypeOK /\ RoundIsSeated /\ HandsWithinDeal /\ [Next]_vars => HandsWithinDeal'
  BY NextHands
<1>3. HandsWithinDeal => CardsComeFromDeck
  BY HandsAreSummed
<1> QED BY <1>1, <1>2, <1>3, TypeCorrect, TableIsSeated, PTL DEF Spec

-----------------------------------------------------------------------------
(* A round whose players are all out can be ended.                         *)

(* Everything end_round checks before it pays, but for the overflow of the *)
(* fee: the accounts of all seats, a winner if anybody stayed, and a vault *)
(* that covers the pot.                                                    *)
EndRoundIsReady ==
  round_active /\ (\A p \in Seated : ~player_state[p].is_active) =>
    /\ CanEndRound /\ vault >= pot_amount
    /\ StayedSeats = {} \/ \E w \in 1..Len(turn_order) : IsWinningSeat(w)

(* Whoever stayed, one of them has the highest score at the first seat.    *)
LEMMA SomebodyWins ==
  ASSUME TypeOK, StayedSeats # {}
  PROVE  \E w \in 1..Len(turn_order) : IsWinningSeat(w)
<1> DEFINE score(i) == player_state[turn_order[i]].score
           Short == {MaxU64 - score(i) : i \in StayedSeats}
<1>1. turn_order \in Seq(Players) /\ Len(turn_order) \in Nat
  BY DEF TypeOK, TurnTypeOK
<1>2. StayedSeats \subseteq 1..Len(turn_order) /\ StayedSeats \subseteq Nat
  BY <1>1 DEF StayedSeats
<1>3. \A i \in StayedSeats : score(i) \in 0..MaxU64
  BY <1>1, <1>2, AccountsTyped, ElementOfSeq DEF PlayerState
<1>4. Short \subseteq Nat /\ Short # {}
  BY <1>3, U64Assumption
<1>5. PICK m \in Short : \A k \in Short : m <= k
  <2> HIDE DEF Short
  <2> QED BY <1>4, LeastNatural
<1> DEFINE Best == {i \in StayedSeats : MaxU64 - score(i) = m}
<1>6. Best # {} /\ Best \subseteq Nat
  BY <1>2, <1>5
<1>7. PICK w \in Best : \A i \in Best : w <= i
  <2> HIDE DEF Best
  <2> QED BY <1>6, LeastNatural
<1>8. ASSUME NEW i \in StayedSeats
      PROVE  score(i) <= score(w) /\ (i < w => score(i) < score(w))
  <2>1. m <= MaxU64 - score(i) /\ m = MaxU64 - score(w) /\ m \in Nat
    BY <1>4, <1>5, <1>7
  <2>2. score(i) \in 0..MaxU64 /\ score(w) \in 0..MaxU64 /\ i \in Nat /\ w \in Nat
    BY <1>2, <1>3, <1>7
  <2>3. i < w => MaxU64 - score(i) # m
    BY <1>7, <2>2
  <2> HIDE DEF score
  <2> QED BY <2>1, <2>2, <2>3, U64Assumption
<1> QED BY <1>2, <1>7, <1>8 DEF IsWinningSeat

(* Once every seated player is out, nothing but an overflow of the fee's   *)
(* product can stop end_round: the seats are open accounts, the vault      *)
(* covers the pot, and there is a winner or the pot is rolled over or      *)
(* swept.                                                                  *)
THEOREM RoundsCanEnd == Spec => []EndRoundIsReady
<1>1. TypeOK /\ RoundIsSeated /\ VaultBacksPot => EndRoundIsReady
  <2> SUFFICES ASSUME TypeOK, RoundIsSeated, VaultBacksPot, round_active,
                      \A p \in Seated : ~player_state[p].is_active
               PROVE  /\ CanEndRound /\ vault >= pot_amount
                      /\ StayedSeats = {} \/ \E w \in 1..Len(turn_order) : IsWinningSeat(w)
    BY DEF EndRoundIsReady
  <2>1. CanEndRound
    BY DEF CanEndRound, RoundIsSeated
  <2>2. vault >= pot_amount
    BY U64Assumption DEF VaultBacksPot, TypeOK, PotTypeOK
  <2> QED BY <2>1, <2>2, SomebodyWins
<1> QED BY <1>1, TypeCorrect, TableIsSeated, VaultIsExact, PTL

-----------------------------------------------------------------------------
(* Which hands may hide a bust.                                            *)

VampireCard == [card_type |-> PROTOCOL, value |-> VAMPIRE_ATTACK]

(* A value repeats among the first n cards of a hand; it does so, if at    *)
(* all, at the n-th only, which a vampire attack stole.                    *)
BustBy(h, n) == \E i \in 1..n : RepeatsAt(h, i)
TheftBy(h, n) == BustBy(h, n) => ~BustBy(h, n - 1) /\ h[n - 1] = VampireCard

(* A player who is out gave up, or may give up, the last card.             *)
Counted(s) == IF s.inactive_reason = BUST THEN Len(s.hand) - 1 ELSE Len(s.hand)
HidesTheftOnly(s) == TheftBy(s.hand, Counted(s))
TheftsOnly == \A q \in Players : HidesTheftOnly(Ps(q))

(* Only the cards themselves count.                                        *)
LEMMA SameCards ==
  ASSUME NEW g, NEW h, NEW n \in Nat, \A i \in 1..n : g[i] = h[i]
  PROVE  /\ BustBy(g, n) => BustBy(h, n)
         /\ TheftBy(h, n) => TheftBy(g, n)
<1>1. \A i \in 1..n : RepeatsAt(g, i) <=> RepeatsAt(h, i)
  BY DEF RepeatsAt, IsCountedAlpha
<1>2. BustBy(g, n) <=> BustBy(h, n)
  BY <1>1 DEF BustBy
<1>3. BustBy(g, n - 1) <=> BustBy(h, n - 1)
  BY <1>1 DEF BustBy
<1>4. BustBy(h, n) /\ ~BustBy(h, n - 1) => n \in 1..n /\ RepeatsAt(h, n)
  BY DEF BustBy
<1>5. BustBy(h, n) /\ ~BustBy(h, n - 1) => n - 1 \in 1..n
  BY <1>4 DEF RepeatsAt
<1> QED BY <1>2, <1>3, <1>5 DEF TheftBy

(* Without its last card a hand of this kind is no bust.                   *)
LEMMA OneLess ==
  ASSUME NEW h, NEW n \in Nat, TheftBy(h, n)
  PROVE  ~BustBy(h, n - 1) /\ TheftBy(h, n - 1)
<1>1. BustBy(h, n - 1) => BustBy(h, n)
  BY DEF BustBy
<1> QED BY <1>1 DEF TheftBy

(* pop_card, and what a theft leaves.                                      *)
LEMMA FrontCards ==
  ASSUME NEW h \in Hand, h # << >>
  PROVE  /\ Len(h) \in Nat /\ Len(h) - 1 \in Nat /\ Len(Front(h)) = Len(h) - 1
         /\ \A i \in 1..(Len(h) - 1) : Front(h)[i] = h[i]
<1>1. h \in Seq(Card) /\ Len(h) \in Nat
  BY DEF Hand
<1>2. PICK n \in Nat : n = Len(h) - 1
  BY <1>1
<1>3. /\ Len(SubSeq(h, 1, n)) = n /\ \A j \in 1..n : SubSeq(h, 1, n)[j] = h[j]
  BY <1>1, <1>2, PrefixOf
<1> QED BY <1>1, <1>2, <1>3 DEF Front

(* push_card.                                                              *)
LEMMA AppendCards ==
  ASSUME NEW h \in Hand, NEW c
  PROVE  /\ Len(h) \in Nat /\ Len(Append(h, c)) = Len(h) + 1
         /\ Append(h, c)[Len(h) + 1] = c
         /\ \A i \in 1..Len(h) : Append(h, c)[i] = h[i]
BY DEF Hand

(* A hand that is pulled an alpha card keeps hiding nothing but a theft.   *)
LEMMA PulledHand ==
  ASSUME NEW h \in Hand, NEW i, IsHighestAlpha(h, i), TheftBy(h, Len(h))
  PROVE  TheftBy(RemoveAt(h, i), Len(RemoveAt(h, i)))
<1> DEFINE r == RemoveAt(h, i)
           n == Len(h)
<1>1. h \in Seq(Card) /\ n \in Nat /\ i \in 1..n /\ h[i].card_type = ALPHA
  BY DEF Hand, IsHighestAlpha
<1>2. Len(r) = n - 1 /\ \A j \in 1..(n - 1) : r[j] = IF j < i THEN h[j] ELSE h[j + 1]
  BY <1>1, RemoveAtType
<1> HIDE DEF r, n
<1>3. ASSUME NEW j \in 1..(n - 1), RepeatsAt(r, j)
      PROVE  RepeatsAt(h, IF j < i THEN j ELSE j + 1)
  <2>1. PICK k \in 1..(j - 1) : IsCountedAlpha(r[k]) /\ r[k].value = r[j].value
    BY <1>3 DEF RepeatsAt
  <2>2. IsCountedAlpha(r[j])
    BY <1>3 DEF RepeatsAt
  <2>3. PICK jj, kk : /\ jj = (IF j < i THEN j ELSE j + 1) /\ kk = (IF k < i THEN k ELSE k + 1)
    OBVIOUS
  <2>4. r[j] = h[jj] /\ r[k] = h[kk] /\ kk \in 1..(jj - 1)
    BY <1>1, <1>2, <2>3
  <2>5. RepeatsAt(h, jj)
    BY <2>1, <2>2, <2>4 DEF RepeatsAt
  <2> QED BY <2>3, <2>5
<1>4. BustBy(r, n - 1) => BustBy(h, n)
  BY <1>1, <1>3 DEF BustBy
<1>5. CASE ~BustBy(h, n)
  BY <1>2, <1>4, <1>5 DEF TheftBy, r
<1>6. CASE BustBy(h, n)
  <2>1. ~BustBy(h, n - 1) /\ h[n - 1] = VampireCard
    BY <1>6 DEF TheftBy, n
  <2>2. i # n - 1
    BY <1>1, <2>1 DEF VampireCard, PROTOCOL, ALPHA
  <2>3. \A j \in 1..(n - 2) : ~RepeatsAt(r, j)
    <3>1. ASSUME NEW j \in 1..(n - 2) PROVE ~RepeatsAt(r, j)
      <4>1. (IF j < i THEN j ELSE j + 1) \in 1..(n - 1)
        BY <1>1
      <4> QED BY <1>1, <1>3, <2>1, <4>1 DEF BustBy
    <3> QED BY <3>1
  <2>4. CASE i = n
    <3>1. \A j \in 1..(n - 1) : ~RepeatsAt(r, j)
      <4>1. ASSUME NEW j \in 1..(n - 1) PROVE ~RepeatsAt(r, j)
        BY <1>1, <1>3, <2>1, <2>4 DEF BustBy
      <4> QED BY <4>1
    <3> QED BY <1>2, <3>1 DEF TheftBy, BustBy, r
  <2>5. CASE i # n
    <3>1. i < n - 1 /\ n - 2 \in 1..(n - 1)
      BY <1>1, <2>2, <2>5
    <3>2. r[n - 2] = h[n - 1]
      BY <1>1, <1>2, <3>1
    <3>3. (n - 1) - 1 = n - 2
      BY <1>1
    <3> QED BY <1>2, <2>1, <2>3, <3>2, <3>3 DEF TheftBy, BustBy, r
  <2> QED BY <2>4, <2>5
<1> QED BY <1>5, <1>6

(* A hand without a bust hides none.                                       *)
LEMMA NoBustHides ==
  ASSUME NEW h, ~IsBust(h)
  PROVE  TheftBy(h, Len(h)) /\ ~BustBy(h, Len(h))
BY DEF IsBust, BustBy, TheftBy

(* The player a draw leaves in the round, or a rug pull enriches, has no   *)
(* bust; the one who stole has one at most at the stolen card.             *)
LEMMA StolenHand ==
  ASSUME NEW g \in Hand, ~IsBust(g), Len(g) > 0, g[Len(g)] = VampireCard, NEW c
  PROVE  TheftBy(Append(g, c), Len(Append(g, c)))
<1>1. PICK n \in Nat : n = Len(g)
  BY AppendCards
<1>2. /\ Len(Append(g, c)) = n + 1 /\ (n + 1) - 1 = n
      /\ \A i \in 1..n : Append(g, c)[i] = g[i]
  BY <1>1, AppendCards
<1>3. ~BustBy(Append(g, c), n)
  BY <1>1, <1>2, NoBustHides, SameCards
<1>4. Append(g, c)[n] = VampireCard
  BY <1>1, <1>2
<1> QED BY <1>2, <1>3, <1>4 DEF TheftBy

(* The hand and the reason of an account are all that counts.              *)
LEMMA HandKept ==
  ASSUME TypeOK, TheftsOnly, NEW q \in Players, Ps(q)'.hand = Ps(q).hand,
         Ps(q).inactive_reason = BUST => Ps(q)'.inactive_reason = BUST
  PROVE  HidesTheftOnly(Ps(q)')
<1>1. HidesTheftOnly(Ps(q)) /\ Len(Ps(q).hand) \in Nat
  BY AccountsTyped DEF TheftsOnly, Ps
<1>2. CASE Ps(q).inactive_reason # BUST /\ Ps(q)'.inactive_reason = BUST
  <2>1. TheftBy(Ps(q).hand, Len(Ps(q).hand))
    BY <1>1, <1>2 DEF HidesTheftOnly, Counted
  <2>2. TheftBy(Ps(q).hand, Len(Ps(q).hand) - 1)
    BY <1>1, <2>1, OneLess
  <2> QED BY <1>2, <2>2 DEF HidesTheftOnly, Counted
<1>3. CASE Ps(q).inactive_reason = BUST <=> Ps(q)'.inactive_reason = BUST
  BY <1>1, <1>3 DEF HidesTheftOnly, Counted
<1> QED BY <1>2, <1>3

(* The instructions that write no hand, and those that empty one.          *)
LEMMA NoHandWritten ==
  ASSUME TypeOK, Coherent, TheftsOnly, NEW q \in Players,
         Kept(q) \/ Cleared(q) \/ Forfeits(q) \/ Stands(q)
  PROVE  HidesTheftOnly(Ps(q)')
<1>1. CASE Cleared(q)
  BY <1>1 DEF Cleared, FreshPlayerState, HidesTheftOnly, Counted, TheftBy, BustBy
<1>2. CASE Kept(q)
  BY <1>2, HandKept DEF Kept
<1>3. CASE Forfeits(q)
  BY <1>3, HandKept DEF Forfeits
<1>4. CASE Stands(q)
  BY <1>4, HandKept DEF Stands, Coherent
<1> QED BY <1>1, <1>2, <1>3, <1>4

(* Hands and the card drawn.                                               *)
LEMMA DrawTyped ==
  ASSUME TypeOK, Coherent, TheftsOnly, NEW p \in Players, CanDraw(p)
  PROVE  /\ Ps(p).hand \in Hand /\ DrawnHand(p) = Append(Ps(p).hand, NextCard)
         /\ Ps(p).inactive_reason # BUST /\ TheftBy(Ps(p).hand, Len(Ps(p).hand))
<1>1. Ps(p).hand \in Hand
  BY AccountsTyped DEF Ps, PlayerState
<1>2. Ps(p).inactive_reason = ACTIVE
  BY DEF CanDraw, Coherent, Ps
<1> QED BY <1>1, <1>2 DEF DrawnHand, Ps, TheftsOnly, HidesTheftOnly, Counted

(* hit, when the draw busts: without the draw it is the hand it was.       *)
LEMMA HitBustHides ==
  ASSUME TypeOK, Coherent, TheftsOnly, NEW p \in Players, HitBust(p)
  PROVE  HidesTheftOnly(Ps(p)')
<1>0. player_state \in [Players -> PlayerState] /\ CanDraw(p)
  BY AccountsTyped DEF HitBust
<1>1. PICK h : h = DrawnHand(p)
  OBVIOUS
<1>2. PICK v : player_state' = [player_state EXCEPT ![p].hand = h,
                                ![p].is_active = FALSE,
                                ![p].inactive_reason = BUST,
                                ![p].bust_card_value = v]
  BY <1>1 DEF HitBust
<1>3. Ps(p)'.hand = h /\ Ps(p)'.inactive_reason = BUST
  BY <1>0, <1>2 DEF Ps, PlayerState
<1>4. PICK n \in Nat : n = Len(Ps(p).hand)
  BY <1>0, DrawTyped, AppendCards
<1>5. Len(h) = n + 1 /\ \A i \in 1..n : h[i] = Ps(p).hand[i]
  BY <1>0, <1>1, <1>4, DrawTyped, AppendCards
<1>6. TheftBy(h, n)
  BY <1>0, <1>4, <1>5, DrawTyped, SameCards
<1>7. (n + 1) - 1 = n
  OBVIOUS
<1> QED BY <1>3, <1>5, <1>6, <1>7 DEF HidesTheftOnly, Counted

(* burn_second_chance: the hand is the one the reason counted.             *)
LEMMA SecondChanceHides ==
  ASSUME TypeOK, TheftsOnly, NEW p \in Players, BurnSecondChance(p)
  PROVE  HidesTheftOnly(Ps(p)')
<1>0. player_state \in [Players -> PlayerState] /\ Ps(p).hand \in Hand
  BY AccountsTyped DEF Ps, PlayerState
<1>1. PICK h : h = PopCard(Ps(p).hand)
  OBVIOUS
<1>2. player_state' = [player_state EXCEPT ![p].hand = h, ![p].is_active = TRUE,
                                           ![p].inactive_reason = ACTIVE,
                                           ![p].bust_card_value = 0,
                                           ![p].has_used_second_chance = TRUE]
  BY <1>1 DEF BurnSecondChance, Ps
<1>3. Ps(p)'.hand = h /\ Ps(p)'.inactive_reason = ACTIVE
  BY <1>0, <1>2 DEF Ps, PlayerState
<1>4. TheftBy(Ps(p).hand, Len(Ps(p).hand) - 1)
  BY DEF BurnSecondChance, TheftsOnly, HidesTheftOnly, Counted, Ps
<1>5. CASE Ps(p).hand = << >>
  BY <1>1, <1>3, <1>5 DEF PopCard, HidesTheftOnly, Counted, TheftBy, BustBy
<1>6. CASE Ps(p).hand # << >>
  <2>1. PICK n \in Nat : n = Len(Ps(p).hand) - 1
    BY <1>0, <1>6, FrontCards
  <2>2. Len(h) = n /\ \A i \in 1..n : h[i] = Ps(p).hand[i]
    BY <1>0, <1>1, <1>6, <2>1, FrontCards DEF PopCard
  <2>3. TheftBy(h, n)
    <3>1. PICK g : g = Ps(p).hand
      OBVIOUS
    <3>2. TheftBy(g, n) /\ \A i \in 1..n : h[i] = g[i]
      BY <1>4, <2>1, <2>2, <3>1
    <3> QED BY ONLY n \in Nat, <3>2, SameCards
  <2> QED BY <1>3, <2>2, <2>3 DEF HidesTheftOnly, Counted
<1> QED BY <1>5, <1>6

(* A hand written to a player who plays on.                                *)
LEMMA WrittenHides ==
  ASSUME TypeOK, Coherent, NEW q \in Players, NEW h, Ps(q).is_active,
         Ps(q)' = [Ps(q) EXCEPT !.hand = h], TheftBy(h, Len(h))
  PROVE  HidesTheftOnly(Ps(q)')
<1>1. Ps(q) \in PlayerState /\ Ps(q).inactive_reason = ACTIVE
  BY AccountsTyped DEF Ps, Coherent
<1>2. Ps(q)'.hand = h /\ Ps(q)'.inactive_reason = ACTIVE
  BY <1>1 DEF PlayerState
<1> QED BY <1>2 DEF HidesTheftOnly, Counted

(* Two hands written in one hit.                                           *)
LEMMA TwoHandsHide ==
  ASSUME TypeOK, Coherent, TheftsOnly, NEW p \in Players, NEW t \in Players, NEW q \in Players,
         NEW h, NEW k, CanDraw(p), IsTarget(p, t),
         player_state' = [player_state EXCEPT ![p].hand = h, ![t].hand = k],
         TheftBy(h, Len(h)), TheftBy(k, Len(k))
  PROVE  HidesTheftOnly(Ps(q)')
<1>0. player_state \in [Players -> PlayerState] /\ t # p /\ Ps(t).is_active /\ Ps(p).is_active
  BY AccountsTyped DEF IsTarget, CanDraw, Ps
<1>1. CASE q = p
  <2>1. Ps(q)' = [Ps(q) EXCEPT !.hand = h]
    BY <1>0, <1>1 DEF Ps
  <2> QED BY <1>0, <1>1, <2>1, WrittenHides
<1>2. CASE q = t
  <2>1. Ps(q)' = [Ps(q) EXCEPT !.hand = k]
    BY <1>0, <1>2 DEF Ps
  <2> QED BY <1>0, <1>2, <2>1, WrittenHides
<1>3. CASE q # p /\ q # t
  BY <1>0, <1>3, NoHandWritten DEF Kept, Ps
<1> QED BY <1>1, <1>2, <1>3

(* The target of a protocol card.                                          *)
LEMMA TargetTyped ==
  ASSUME TypeOK, Coherent, TheftsOnly, NEW p \in Players, NEW t \in Players, IsTarget(p, t)
  PROVE  player_state[t].hand \in Hand
         /\ TheftBy(player_state[t].hand, Len(player_state[t].hand))
<1>1. player_state[t].inactive_reason = ACTIVE
  BY DEF IsTarget, Coherent, Ps
<1> QED BY <1>1, AccountsTyped DEF PlayerState, TheftsOnly, HidesTheftOnly, Counted, Ps

(* hit, when a rug pull takes the target's best card.                      *)
LEMMA HitRugPullHides ==
  ASSUME TypeOK, Coherent, TheftsOnly, NEW p \in Players, NEW t \in Players, NEW q \in Players,
         HitRugPull(p, t)
  PROVE  HidesTheftOnly(Ps(q)')
<1>1. PICK i \in 1..MaxHandSize :
       /\ IsHighestAlpha(player_state[t].hand, i)
       /\ player_state' = [player_state EXCEPT ![p].hand = DrawnHand(p),
                                               ![t].hand = RemoveAt(@, i)]
  BY DEF HitRugPull
<1>2. CanDraw(p) /\ IsTarget(p, t) /\ ~IsBust(DrawnHand(p)) /\ t # p
  BY DEF HitRugPull, DrawsEffect, IsTarget
<1>3. PICK h, k : h = DrawnHand(p) /\ k = RemoveAt(player_state[t].hand, i)
  OBVIOUS
<1>4. player_state' = [player_state EXCEPT ![p].hand = h, ![t].hand = k]
  BY <1>1, <1>2, <1>3, AccountsTyped
<1>5. TheftBy(h, Len(h))
  BY <1>2, <1>3, NoBustHides
<1>6. TheftBy(k, Len(k))
  BY <1>1, <1>2, <1>3, TargetTyped, PulledHand
<1> QED BY <1>2, <1>4, <1>5, <1>6, TwoHandsHide

(* hit, when a vampire attack steals the target's last card: the one hand  *)
(* that may come to hide a bust.                                           *)
LEMMA HitVampireAttackHides ==
  ASSUME TypeOK, Coherent, TheftsOnly, NEW p \in Players, NEW t \in Players, NEW q \in Players,
         HitVampireAttack(p, t)
  PROVE  HidesTheftOnly(Ps(q)')
<1>1. /\ CanDraw(p) /\ IsTarget(p, t) /\ ~IsBust(DrawnHand(p)) /\ t # p
      /\ NextCard = VampireCard /\ player_state[t].hand # << >>
      /\ Len(DrawnHand(p)) < MaxHandSize
  BY DEF HitVampireAttack, DrawsEffect, IsTarget, VampireCard
<1>2. PICK g, h, k : /\ g = DrawnHand(p) /\ h = Append(g, Last(player_state[t].hand))
                     /\ k = Front(player_state[t].hand)
  OBVIOUS
<1>3. player_state' = [player_state EXCEPT ![p].hand = h, ![t].hand = k]
  BY <1>1, <1>2, AccountsTyped DEF HitVampireAttack
<1>4. g \in Hand /\ Len(g) > 0 /\ g[Len(g)] = VampireCard
  <2>1. Ps(p).hand \in Hand /\ g = Append(Ps(p).hand, VampireCard)
    BY <1>1, <1>2, DrawTyped
  <2>2. VampireCard \in Card /\ Len(Ps(p).hand) < MaxHandSize
    BY <1>1 DEF VampireCard, Card, PROTOCOL, VAMPIRE_ATTACK, CanDraw, Ps
  <2> QED BY <2>1, <2>2, AppendType, AppendCards
<1>5. TheftBy(h, Len(h))
  BY <1>1, <1>2, <1>4, StolenHand
<1>6. TheftBy(k, Len(k))
  <2>1. PICK m : m = player_state[t].hand
    OBVIOUS
  <2>2. m \in Hand /\ m # << >> /\ TheftBy(m, Len(m))
    BY <1>1, <2>1, TargetTyped
  <2>3. PICK n \in Nat : n = Len(m) - 1
    BY <2>2, FrontCards
  <2>4. Len(k) = n /\ \A i \in 1..n : k[i] = m[i]
    BY <1>2, <2>1, <2>2, <2>3, FrontCards
  <2>5. TheftBy(m, n)
    BY <2>2, <2>3, OneLess, AppendCards
  <2> QED BY <2>4, <2>5, SameCards
<1> QED BY <1>1, <1>3, <1>5, <1>6, TwoHandsHide

(* What one instruction makes of a hand, whoever signs it.                 *)
LEMMA StepHidesTheftOnly ==
  ASSUME TypeOK, Coherent, TheftsOnly, [Next]_vars, NEW q \in Players
  PROVE  HidesTheftOnly(Ps(q)')
<1>0. player_state \in [Players -> PlayerState]
  BY AccountsTyped
<1>1. CASE Kept(q) \/ Cleared(q) \/ Forfeits(q) \/ Stands(q)
  BY <1>1, NoHandWritten
<1>2. ASSUME NEW p \in Players, NEW t \in Players, Hit(p, t)
      PROVE  HidesTheftOnly(Ps(q)')
  <2>1. CASE HitBust(p)
    <3>1. q # p => Kept(q)
      BY <1>0, <2>1 DEF HitBust, Kept, Ps
    <3> QED BY <2>1, <3>1, HitBustHides, NoHandWritten
  <2>2. CASE HitPlain(p)
    <3>1. player_state' = [player_state EXCEPT ![p].hand = DrawnHand(p)]
          /\ Ps(p).is_active /\ ~IsBust(DrawnHand(p))
      BY <2>2 DEF HitPlain, CanDraw, Ps
    <3>2. TheftBy(DrawnHand(p), Len(DrawnHand(p)))
      BY <3>1, NoBustHides
    <3>3. CASE q = p
      <4>1. Ps(q)' = [Ps(q) EXCEPT !.hand = DrawnHand(p)]
        BY <1>0, <3>1, <3>3 DEF Ps
      <4> QED BY <3>1, <3>2, <3>3, <4>1, WrittenHides
    <3>4. CASE q # p
      BY <1>0, <3>1, <3>4, NoHandWritten DEF Kept, Ps
    <3> QED BY <3>3, <3>4
  <2> QED BY <1>2, <2>1, <2>2, HitRugPullHides, HitVampireAttackHides DEF Hit
<1>3. ASSUME NEW p \in Players, BurnSecondChance(p)
      PROVE  HidesTheftOnly(Ps(q)')
  <2>1. q # p => Kept(q)
    BY <1>0, <1>3 DEF BurnSecondChance, Kept, Ps
  <2> QED BY <1>3, <2>1, SecondChanceHides, NoHandWritten
<1>4. ASSUME NEW p \in Players, BurnScry(p)
      PROVE  HidesTheftOnly(Ps(q)')
  <2>1. Ps(q)'.hand = Ps(q).hand /\ Ps(q)'.inactive_reason = Ps(q).inactive_reason
    BY <1>0, <1>4 DEF BurnScry, Ps, PlayerState
  <2> QED BY <2>1, HandKept
<1>5. CASE UNCHANGED player_state
  BY <1>1, <1>5 DEF Kept, Ps
<1>6. CASE \E p \in Players, stake \in Stakes : JoinRound(p, stake)
  BY <1>0, <1>1, <1>6, ParameterAssumption DEF JoinRound, Cleared, Kept, Ps
<1>7. CASE \E p \in Players : LeaveGame(p)
  <2>1. PICK p \in Players : LeaveBetweenRounds(p) \/ ForfeitMidRound(p)
    BY <1>7 DEF LeaveGame
  <2>2. CASE LeaveBetweenRounds(p)
    BY <1>0, <1>1, <2>2 DEF LeaveBetweenRounds, Cleared, Kept, Ps
  <2>3. CASE ForfeitMidRound(p)
    <3>1. Ps(q)'.hand = Ps(q).hand
          /\ (Ps(q).inactive_reason = BUST => Ps(q)'.inactive_reason = BUST)
      BY <1>0, <2>3 DEF ForfeitMidRound, Ps, PlayerState
    <3> QED BY <3>1, HandKept
  <2> QED BY <2>1, <2>2, <2>3
<1>8. CASE StartRound
  <2>1. ~round_active /\ Ps(q)' = IF q \in Seated
                                  THEN FreshPlayerState(player_state[q].staked_amount)
                                  ELSE player_state[q]
    BY <1>8 DEF StartRound, Ps
  <2>2. player_state[q].staked_amount \in Nat
    BY <1>0 DEF PlayerState
  <2> QED BY <1>1, <2>1, <2>2 DEF Cleared, Kept, Ps
<1>9. CASE \E p \in Players : Stay(p)
  <2>1. PICK p \in Players : Stay(p)
    BY <1>9
  <2>2. Ps(q)'.hand = Ps(q).hand
        /\ (q # p => Ps(q)'.inactive_reason = Ps(q).inactive_reason)
    <3>1. PICK n : player_state' = [player_state EXCEPT ![p].score = n, ![p].is_active = FALSE,
                                                       ![p].inactive_reason = STAYED]
      BY <2>1 DEF Stay
    <3> QED BY <1>0, <3>1 DEF Ps, PlayerState
  <2>3. Ps(p).inactive_reason # BUST
    BY <2>1 DEF Stay, Coherent, Ps
  <2> QED BY <2>2, <2>3, HandKept
<1>10. CASE EndRound
  <2>1. UNCHANGED player_state
    BY <1>10 DEF EndRound, EndRoundWithWinner, EndRoundRollover, EndRoundSweep,
                FinishRound, playerVars
  <2> QED BY <1>5, <2>1
<1>11. CASE \/ \E fee \in Fees : Initialize(fee)
            \/ InitVault
            \/ CloseGame
            \/ \E deck \in Decks : CommitDeck(deck)
            \/ UNCHANGED vars
  <2>1. UNCHANGED player_state
    BY <1>11 DEF Initialize, InitVault, CloseGame, CommitDeck, playerVars, vars
  <2> QED BY <1>5, <2>1
<1> QED BY <1>2, <1>3, <1>4, <1>6, <1>7, <1>8, <1>9, <1>10, <1>11 DEF Next

(* Before the first session every hand is empty.                           *)
LEMMA TheftsOnlyInit == Init => TheftsOnly
BY DEF Init, FreshPlayerState, TheftsOnly, HidesTheftOnly, Counted, TheftBy, BustBy, Ps

(* In any order of draws, thefts, rug pulls, forfeits and second chances,  *)
(* for any number of players, slots and decks, a player who goes on with a *)
(* bust has just stolen the card that makes it one.                        *)
THEOREM HiddenBustsAreStolen == Spec => []HiddenBustIsStolen
<1>1. TypeOK /\ Coherent /\ TheftsOnly /\ [Next]_vars => TheftsOnly'
  <2> SUFFICES ASSUME TypeOK, Coherent, TheftsOnly, [Next]_vars, NEW q \in Players
               PROVE  HidesTheftOnly(Ps(q)')
    BY DEF TheftsOnly, HidesTheftOnly, Counted, Ps
  <2> QED BY StepHidesTheftOnly
<1>2. TypeOK /\ TheftsOnly => HiddenBustIsStolen
  <2> SUFFICES ASSUME TypeOK, TheftsOnly, NEW p \in accounts, NEW h, h = player_state[p].hand,
                      player_state[p].inactive_reason # BUST, IsBust(h)
               PROVE  ~IsBust(Front(h)) /\ h[Len(h) - 1] = VampireCard
    BY DEF HiddenBustIsStolen, VampireCard
  <2>1. h \in Hand /\ p \in Players
    BY AccountsTyped DEF TypeOK, PlayerTypeOK, PlayerState
  <2>2. TheftBy(h, Len(h)) /\ BustBy(h, Len(h)) /\ Len(h) \in Nat
    BY <2>1, AppendCards DEF TheftsOnly, HidesTheftOnly, Counted, Ps, IsBust, BustBy
  <2>3. h # << >>
    BY DEF IsBust
  <2>4. PICK n \in Nat : n = Len(h) - 1
    BY <2>1, <2>3, FrontCards
  <2>5. Len(Front(h)) = n /\ \A i \in 1..n : Front(h)[i] = h[i]
    BY <2>1, <2>3, <2>4, FrontCards
  <2>6. ~BustBy(Front(h), n)
    BY <2>2, <2>4, <2>5, SameCards DEF TheftBy
  <2>7. ~IsBust(Front(h))
    BY ONLY <2>5, <2>6 DEF IsBust, BustBy
  <2> QED BY ONLY <2>2, <2>7 DEF TheftBy
<1> QED BY <1>1, <1>2, TheftsOnlyInit, AlwaysCoherent, TypeCorrect, PTL DEF Spec
=============================================================================
