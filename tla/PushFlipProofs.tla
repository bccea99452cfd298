--------------------------- MODULE PushFlipProofs ---------------------------
(***************************************************************************)
(* Theorems of PushFlip, for every set of wallets and decks and every      *)
(* value of the parameters: types, the lifecycle it implements, seats, the *)
(* vault and the supply of $FLIP.                                          *)
(***************************************************************************)
EXTENDS PushFlip, CardsProofs

USE DEF ACTIVE, BUST, STAYED

-----------------------------------------------------------------------------
(* The records an instruction writes into a PlayerState account.           *)

(* The largest rake is an ordinary number, kept by its name where its size *)
(* does not matter.                                                        *)
LEMMA FeeBound == MaxFeeBps \in Nat
BY DEF MaxFeeBps

(* The account join_round and start_round write.                           *)
LEMMA FreshType ==
  ASSUME NEW s \in Nat
  PROVE  FreshPlayerState(s) \in PlayerState
BY HandSizeAssumption, U64Assumption DEF FreshPlayerState, PlayerState, Hand

(* The account hit writes when the draw busts.                             *)
LEMMA BustedType ==
  ASSUME NEW r \in PlayerState, NEW h \in Hand, NEW v \in 0..13
  PROVE  [r EXCEPT !.hand = h, !.is_active = FALSE, !.inactive_reason = BUST,
                   !.bust_card_value = v] \in PlayerState
BY DEF PlayerState

(* The account leave_game writes in a round.                               *)
LEMMA ForfeitedType ==
  ASSUME NEW r \in PlayerState, NEW n \in 0..MaxU64
  PROVE  [r EXCEPT !.is_active = FALSE, !.inactive_reason = BUST, !.score = n]
           \in PlayerState
BY DEF PlayerState

(* The account stay writes.                                                *)
LEMMA StayedType ==
  ASSUME NEW r \in PlayerState, NEW n \in 0..MaxU64
  PROVE  [r EXCEPT !.score = n, !.is_active = FALSE, !.inactive_reason = STAYED]
           \in PlayerState
BY DEF PlayerState

(* The account burn_second_chance writes.                                  *)
LEMMA ComebackType ==
  ASSUME NEW r \in PlayerState, NEW h \in Hand, NEW v \in 0..13
  PROVE  [r EXCEPT !.hand = h, !.is_active = TRUE, !.inactive_reason = ACTIVE,
                   !.bust_card_value = v, !.has_used_second_chance = TRUE] \in PlayerState
<1> DEFINE q == [r EXCEPT !.hand = h, !.inactive_reason = ACTIVE, !.bust_card_value = v]
<1>1. q \in PlayerState
  BY DEF PlayerState
<1>2. [q EXCEPT !.is_active = TRUE, !.has_used_second_chance = TRUE] \in PlayerState
  <2> HIDE DEF q
  <2> QED BY <1>1 DEF PlayerState
<1>3. [q EXCEPT !.is_active = TRUE, !.has_used_second_chance = TRUE]
        = [r EXCEPT !.hand = h, !.is_active = TRUE, !.inactive_reason = ACTIVE,
                    !.bust_card_value = v, !.has_used_second_chance = TRUE]
  <2>1. r = [hand |-> r.hand, is_active |-> r.is_active,
             inactive_reason |-> r.inactive_reason, bust_card_value |-> r.bust_card_value,
             score |-> r.score, staked_amount |-> r.staked_amount,
             has_used_second_chance |-> r.has_used_second_chance,
             has_used_scry |-> r.has_used_scry]
    BY DEF PlayerState
  <2> QED BY <2>1
<1> QED BY <1>2, <1>3

(* An instruction that writes one account.                                 *)
LEMMA UpdateType ==
  ASSUME PlayerTypeOK, NEW p \in Players, NEW ps \in PlayerState
  PROVE  [player_state EXCEPT ![p] = ps] \in [Players -> PlayerState]
BY DEF PlayerTypeOK

(* A rug pull and a theft write the hands of two accounts.                 *)
LEMMA HandsUpdateType ==
  ASSUME NEW f \in [Players -> PlayerState], NEW p \in Players, NEW t \in Players,
         NEW h \in Hand, NEW k \in Hand
  PROVE  [f EXCEPT ![p].hand = h, ![t].hand = k] \in [Players -> PlayerState]
<1> DEFINE g == [f EXCEPT ![p].hand = h]
<1>1. g \in [Players -> PlayerState]
  BY DEF PlayerState
<1> HIDE DEF g
<1>2. [g EXCEPT ![t].hand = k] \in [Players -> PlayerState]
  BY <1>1 DEF PlayerState
<1> QED BY <1>2 DEF g

-----------------------------------------------------------------------------
(* Type correctness: each part of TypeOK survives a step that leaves its   *)
(* variables alone, and the instructions take care of the others.          *)

(* Whatever part of the state an instruction leaves alone keeps its type.  *)
LEMMA FrameType ==
  ASSUME TypeOK
  PROVE  /\ UNCHANGED creationVars => CreationTypeOK'
         /\ UNCHANGED turnVars => TurnTypeOK'
         /\ UNCHANGED roundVars => RoundTypeOK'
         /\ UNCHANGED potVars => PotTypeOK'
         /\ UNCHANGED deckVars => DeckTypeOK'
         /\ UNCHANGED playerVars => PlayerTypeOK'
         /\ UNCHANGED tokenVars => TokenTypeOK'
<1>1. UNCHANGED creationVars => CreationTypeOK'
  <2>1. CreationTypeOK
    BY DEF TypeOK
  <2> QED BY <2>1 DEF CreationTypeOK, creationVars
<1>2. UNCHANGED turnVars => TurnTypeOK'
  BY DEF TypeOK, TurnTypeOK, turnVars
<1>3. UNCHANGED roundVars => RoundTypeOK'
  BY DEF TypeOK, RoundTypeOK, roundVars
<1>4. UNCHANGED potVars => PotTypeOK'
  BY DEF TypeOK, PotTypeOK, potVars
<1>5. UNCHANGED deckVars => DeckTypeOK'
  BY DEF TypeOK, DeckTypeOK, deckVars
<1>6. UNCHANGED playerVars => PlayerTypeOK'
  BY DEF TypeOK, PlayerTypeOK, playerVars
<1>7. UNCHANGED tokenVars => TokenTypeOK'
  BY DEF TypeOK, TokenTypeOK, tokenVars
<1> QED BY <1>1, <1>2, <1>3, <1>4, <1>5, <1>6, <1>7

(* Before the first session.                                               *)
LEMMA InitType ==
  ASSUME Init
  PROVE  TypeOK
<1>1. CreationTypeOK
  <2>1. session_exists \in BOOLEAN
    BY DEF Init
  <2> QED BY <2>1, FeeBound, ParameterAssumption DEF Init, CreationTypeOK
<1>2. TurnTypeOK
  BY ParameterAssumption DEF Init, TurnTypeOK
<1>3. RoundTypeOK
  <2>1. round_active \in BOOLEAN
    BY DEF Init
  <2> QED BY <2>1, ParameterAssumption DEF Init, RoundTypeOK
<1>4. PotTypeOK
  BY ParameterAssumption, U64Assumption DEF Init, PotTypeOK
<1>5. DeckTypeOK
  <2>1. deck_committed \in BOOLEAN
    BY DEF Init
  <2> QED BY <2>1 DEF Init, DeckTypeOK
<1>6. PlayerTypeOK
  <2>1. \A p \in Players : FreshPlayerState(0) \in PlayerState
    BY FreshType
  <2> QED BY <2>1 DEF Init, PlayerTypeOK
<1>7. TokenTypeOK
  <2>1. Cardinality(Players) * InitialBalance \in Int
    BY ParameterAssumption, FS_CardinalityType
  <2>2. vault_ready \in BOOLEAN
    BY DEF Init
  <2> QED BY <2>1, <2>2, ParameterAssumption DEF Init, TokenTypeOK
<1> QED BY <1>1, <1>2, <1>3, <1>4, <1>5, <1>6, <1>7 DEF TypeOK

(* What initialize and close_game write into the session.                  *)
LEMMA ClearSessionType ==
  ASSUME TypeOK, ClearSession, CreationTypeOK', UNCHANGED playerVars, UNCHANGED tokenVars
  PROVE  TypeOK'
<1>1. TurnTypeOK'
  BY ParameterAssumption DEF ClearSession, TurnTypeOK
<1>2. RoundTypeOK'
  <2>1. round_active' \in BOOLEAN
    BY DEF ClearSession
  <2> QED BY <2>1, ParameterAssumption DEF ClearSession, RoundTypeOK
<1>3. PotTypeOK'
  BY ParameterAssumption, U64Assumption DEF ClearSession, PotTypeOK
<1>4. DeckTypeOK'
  <2>1. deck_committed' \in BOOLEAN
    BY DEF ClearSession
  <2> QED BY <2>1 DEF ClearSession, DeckTypeOK
<1>5. PlayerTypeOK' /\ TokenTypeOK'
  BY FrameType
<1> QED BY <1>1, <1>2, <1>3, <1>4, <1>5 DEF TypeOK

(* initialize.                                                             *)
LEMMA InitializeType ==
  ASSUME TypeOK, NEW fee \in Fees, Initialize(fee)
  PROVE  TypeOK'
<1>1. session_exists' = TRUE
  BY DEF Initialize
<1>2. /\ sessions' = sessions + 1 /\ sessions < MaxSessions
      /\ treasury_fee_bps' = fee /\ fee <= MaxFeeBps
      /\ ClearSession /\ UNCHANGED <<playerVars, tokenVars>>
  BY DEF Initialize
<1>3. sessions \in 0..MaxSessions
  BY DEF TypeOK, CreationTypeOK
<1>4. MaxSessions \in Nat /\ fee \in Nat
  BY ParameterAssumption
<1>5. sessions' \in 0..MaxSessions
  BY <1>2, <1>3, <1>4
<1>6. treasury_fee_bps' \in 0..MaxFeeBps
  BY <1>2, <1>4, FeeBound
<1>7. session_exists' \in BOOLEAN
  BY <1>1, Zenon
<1>8. CreationTypeOK'
  BY <1>5, <1>6, <1>7 DEF CreationTypeOK
<1> QED BY <1>2, <1>8, ClearSessionType

(* close_game.                                                             *)
LEMMA CloseGameType ==
  ASSUME TypeOK, CloseGame
  PROVE  TypeOK'
<1>1. session_exists' = FALSE
  BY DEF CloseGame
<1>2. /\ sessions' = sessions /\ treasury_fee_bps' = 0
      /\ ClearSession /\ UNCHANGED <<playerVars, tokenVars>>
  BY DEF CloseGame
<1>3. sessions' \in 0..MaxSessions
  BY <1>2 DEF TypeOK, CreationTypeOK
<1>4. treasury_fee_bps' \in 0..MaxFeeBps
  BY <1>2, FeeBound
<1>5. session_exists' \in BOOLEAN
  BY <1>1, Zenon
<1>6. CreationTypeOK'
  BY <1>3, <1>4, <1>5 DEF CreationTypeOK
<1> QED BY <1>2, <1>6, ClearSessionType

(* init_vault.                                                             *)
LEMMA InitVaultType ==
  ASSUME TypeOK, InitVault
  PROVE  TypeOK'
<1>1. vault_ready' \in BOOLEAN
  BY DEF InitVault
<1>2. TokenTypeOK'
  BY <1>1 DEF TypeOK, InitVault, TokenTypeOK
<1> QED BY <1>2, FrameType DEF TypeOK, InitVault, sessionVars

(* join_round: the checked sum of the pot stays in its u64.                *)
LEMMA JoinRoundType ==
  ASSUME TypeOK, NEW p \in Players, NEW stake \in Stakes, JoinRound(p, stake)
  PROVE  TypeOK'
<1> DEFINE staked == IF vault_ready THEN stake ELSE 0
<1>1. staked \in Nat /\ wallet[p] >= staked /\ pot_amount + staked <= MaxU64
  BY ParameterAssumption DEF JoinRound
<1>2. /\ wallet' = [wallet EXCEPT ![p] = @ - staked]
      /\ pot_amount' = pot_amount + staked
      /\ vault' = vault + staked
      /\ player_state' = [player_state EXCEPT ![p] = FreshPlayerState(staked)]
      /\ accounts' = accounts \cup {p}
  BY DEF JoinRound
<1> HIDE DEF staked
<1>3. PlayerTypeOK'
  <2>1. player_state' \in [Players -> PlayerState]
    BY <1>1, <1>2, FreshType, UpdateType DEF TypeOK
  <2> QED BY <1>2, <2>1 DEF TypeOK, PlayerTypeOK
<1>4. TokenTypeOK'
  <2>1. wallet \in [Players -> Nat] /\ vault \in Nat
    BY DEF TypeOK, TokenTypeOK
  <2>2. wallet' \in [Players -> Nat] /\ vault' \in Nat
    BY <1>1, <1>2, <2>1
  <2>3. UNCHANGED <<vault_ready, treasury, supply>>
    BY DEF JoinRound
  <2> QED BY <2>2, <2>3 DEF TypeOK, TokenTypeOK
<1>5. PotTypeOK'
  <2>1. UNCHANGED rollover_count
    BY DEF JoinRound
  <2> QED BY <1>1, <1>2, <2>1, U64Assumption DEF TypeOK, PotTypeOK
<1>6. TurnTypeOK'
  <2>1. /\ turn_order' = Append(turn_order, p) /\ UNCHANGED current_turn_index
        /\ Len(turn_order) < MaxPlayers
    BY DEF JoinRound
  <2> QED BY <2>1, ParameterAssumption DEF TypeOK, TurnTypeOK
<1> QED
  BY <1>3, <1>4, <1>5, <1>6, FrameType DEF TypeOK, JoinRound

(* leave_game between rounds: the shifted seats are seats.                 *)
LEMMA LeaveBetweenRoundsType ==
  ASSUME TypeOK, NEW p \in Players, LeaveBetweenRounds(p)
  PROVE  TypeOK'
<1>1. TurnTypeOK'
  <2>1. PICK i \in 1..Len(turn_order) : turn_order' = RemoveAt(turn_order, i)
    BY DEF LeaveBetweenRounds
  <2>2. turn_order \in Seq(Players) /\ Len(turn_order) <= MaxPlayers /\ MaxPlayers \in Nat
    BY ParameterAssumption DEF TypeOK, TurnTypeOK
  <2>3. turn_order' \in Seq(Players) /\ Len(turn_order') = Len(turn_order) - 1
    BY <2>1, <2>2, RemoveAtType
  <2>4. turn_order' \in Seq(Players) /\ Len(turn_order') <= MaxPlayers
    BY <2>2, <2>3
  <2> QED BY <2>4 DEF TypeOK, TurnTypeOK, LeaveBetweenRounds
<1>2. PlayerTypeOK'
  <2>1. player_state' \in [Players -> PlayerState]
    BY FreshType, UpdateType DEF TypeOK, LeaveBetweenRounds
  <2> QED BY <2>1 DEF TypeOK, PlayerTypeOK, LeaveBetweenRounds
<1> QED
  BY <1>1, <1>2, FrameType DEF TypeOK, LeaveBetweenRounds

(* leave_game in a round.                                                  *)
LEMMA ForfeitMidRoundType ==
  ASSUME TypeOK, NEW p \in Players, ForfeitMidRound(p)
  PROVE  TypeOK'
<1> DEFINE ps == [player_state[p] EXCEPT !.is_active = FALSE, !.inactive_reason = BUST,
                                        !.score = 0]
<1>1. ps \in PlayerState
  <2>1. 0 \in 0..MaxU64 /\ player_state[p] \in PlayerState
    BY U64Assumption DEF TypeOK, PlayerTypeOK
  <2> QED BY <2>1, ForfeitedType
<1>2. player_state' \in [Players -> PlayerState]
  <2>1. player_state' = [player_state EXCEPT ![p] = ps]
    BY DEF ForfeitMidRound
  <2> HIDE DEF ps
  <2> QED BY <1>1, <2>1, UpdateType DEF TypeOK
<1>3. PlayerTypeOK'
  BY <1>2 DEF TypeOK, PlayerTypeOK, ForfeitMidRound
<1> QED
  BY <1>3, FrameType DEF TypeOK, ForfeitMidRound, sessionVars

(* commit_deck.                                                            *)
LEMMA CommitDeckType ==
  ASSUME TypeOK, NEW deck \in Decks, CommitDeck(deck)
  PROVE  TypeOK'
<1>1. DeckTypeOK'
  <2>1. deck_committed' \in BOOLEAN
    BY DEF CommitDeck
  <2> QED BY <2>1 DEF DeckTypeOK, CommitDeck
<1> QED
  BY <1>1, FrameType DEF TypeOK, CommitDeck

(* start_round resets every seated account.                                *)
LEMMA StartRoundType ==
  ASSUME TypeOK, StartRound
  PROVE  TypeOK'
<1>1. player_state \in [Players -> PlayerState]
  BY DEF TypeOK, PlayerTypeOK
<1>2. ASSUME NEW p \in Players
      PROVE  FreshPlayerState(player_state[p].staked_amount) \in PlayerState
  <2>1. player_state[p].staked_amount \in Nat
    BY <1>1 DEF PlayerState
  <2> QED BY <2>1, FreshType
<1>3. player_state' \in [Players -> PlayerState]
  BY <1>1, <1>2 DEF StartRound
<1>4. PlayerTypeOK'
  BY <1>3 DEF TypeOK, PlayerTypeOK, StartRound
<1>5. RoundTypeOK'
  <2>1. round_active' \in BOOLEAN
    BY DEF StartRound
  <2>2. round_number' \in 0..MaxRounds
    BY ParameterAssumption DEF TypeOK, RoundTypeOK, StartRound
  <2> QED BY <2>1, <2>2 DEF RoundTypeOK
<1>6. TurnTypeOK'
  BY DEF TypeOK, TurnTypeOK, StartRound
<1> QED
  BY <1>4, <1>5, <1>6, FrameType DEF TypeOK, StartRound

(* The card at draw_counter, and the hand push_card makes of it.           *)
LEMMA NextCardType ==
  ASSUME TypeOK, NEW p \in Players, CanDraw(p)
  PROVE  NextCard \in Card /\ DrawnHand(p) \in Hand
<1>1. merkle_root \in Seq(Card)
  <2>1. merkle_root \in Decks \/ merkle_root = << >>
    BY DEF TypeOK, DeckTypeOK
  <2>2. Decks \subseteq Seq(Card) /\ << >> \in Seq(Card)
    BY ParameterAssumption
  <2> QED BY <2>1, <2>2
<1>2. draw_counter + 1 \in 1..Len(merkle_root)
  <2>1. Len(merkle_root) \in Nat /\ draw_counter \in Nat /\ draw_counter < Len(merkle_root)
    BY <1>1 DEF TypeOK, DeckTypeOK, CanDraw
  <2> QED BY <2>1
<1>3. NextCard \in Card
  BY <1>1, <1>2, ElementOfSeq DEF NextCard
<1>4. player_state[p].hand \in Hand
  BY DEF TypeOK, PlayerTypeOK, PlayerState
<1> QED BY <1>3, <1>4, AppendType DEF CanDraw, DrawnHand

(* advance_turn stays inside the seats.                                    *)
LEMMA TurnType ==
  ASSUME TypeOK, NEW p \in Players, IsCurrentPlayer(p), AdvanceTurn
  PROVE  current_turn_index' \in Nat /\ current_turn_index' < Len(turn_order)
<1>1. Len(turn_order) \in Nat \ {0} /\ current_turn_index + 1 \in Nat
  BY DEF TypeOK, TurnTypeOK, IsCurrentPlayer
<1> QED BY <1>1 DEF AdvanceTurn

(* The rest of the state after a draw, given the accounts and the turn.    *)
LEMMA CountDrawType ==
  ASSUME TypeOK, CountDraw, current_turn_index' \in Nat,
         player_state' \in [Players -> PlayerState]
  PROVE  TypeOK'
<1>1. TurnTypeOK'
  BY DEF TypeOK, TurnTypeOK, CountDraw
<1>2. DeckTypeOK'
  BY DEF TypeOK, DeckTypeOK, CountDraw
<1>3. PlayerTypeOK'
  BY DEF TypeOK, PlayerTypeOK, CountDraw
<1> QED BY <1>1, <1>2, <1>3, FrameType DEF TypeOK, CountDraw

(* hit, when the draw busts.                                               *)
LEMMA HitBustType ==
  ASSUME TypeOK, NEW p \in Players, HitBust(p)
  PROVE  TypeOK'
<1>0. player_state \in [Players -> PlayerState] /\ player_state[p] \in PlayerState
  BY DEF TypeOK, PlayerTypeOK
<1>1. CanDraw(p) /\ DrawnHand(p) \in Hand
  BY NextCardType DEF HitBust
<1>2. PICK i \in 1..MaxHandSize :
       /\ BustsAt(DrawnHand(p), i)
       /\ player_state' = [player_state EXCEPT ![p].hand = DrawnHand(p),
                                               ![p].is_active = FALSE,
                                               ![p].inactive_reason = BUST,
                                               ![p].bust_card_value = DrawnHand(p)[i].value]
  BY DEF HitBust
<1>3. DrawnHand(p)[i].value \in 0..13
  <2>1. DrawnHand(p)[i] \in Card
    BY <1>1, <1>2, ElementOfSeq DEF BustsAt, Hand
  <2> QED BY <2>1 DEF Card
<1> DEFINE ps == [player_state[p] EXCEPT !.hand = DrawnHand(p),
                                         !.is_active = FALSE,
                                         !.inactive_reason = BUST,
                                         !.bust_card_value = DrawnHand(p)[i].value]
<1>4. player_state' = [player_state EXCEPT ![p] = ps]
  BY <1>0, <1>2, Zenon
<1>5. player_state' \in [Players -> PlayerState]
  BY <1>0, <1>1, <1>3, <1>4, BustedType, UpdateType, Zenon DEF TypeOK
<1>6. current_turn_index' \in Nat
  BY <1>1, TurnType DEF HitBust, CanDraw
<1> QED
  BY <1>5, <1>6, CountDrawType DEF HitBust

(* hit, when it only draws.                                                *)
LEMMA HitPlainType ==
  ASSUME TypeOK, NEW p \in Players, HitPlain(p)
  PROVE  TypeOK'
<1>1. DrawnHand(p) \in Hand
  BY NextCardType DEF HitPlain
<1>2. player_state \in [Players -> PlayerState] /\ current_turn_index \in Nat
  BY DEF TypeOK, PlayerTypeOK, TurnTypeOK
<1>3. player_state' \in [Players -> PlayerState]
  BY <1>1, <1>2 DEF HitPlain, PlayerState
<1> QED
  BY <1>2, <1>3, CountDrawType DEF HitPlain

(* hit, when the card is a rug pull.                                       *)
LEMMA HitRugPullType ==
  ASSUME TypeOK, NEW p \in Players, NEW t \in Players, HitRugPull(p, t)
  PROVE  TypeOK'
<1>0. player_state \in [Players -> PlayerState] /\ current_turn_index \in Nat
  BY DEF TypeOK, PlayerTypeOK, TurnTypeOK
<1>1. DrawnHand(p) \in Hand
  BY NextCardType DEF HitRugPull, DrawsEffect
<1>2. PICK i \in 1..MaxHandSize :
       /\ IsHighestAlpha(player_state[t].hand, i)
       /\ player_state' = [player_state EXCEPT ![p].hand = DrawnHand(p),
                                               ![t].hand = RemoveAt(@, i)]
  BY DEF HitRugPull
<1>3. t # p
  BY DEF HitRugPull, IsTarget
<1>4. RemoveAt(player_state[t].hand, i) \in Hand
  BY <1>0, <1>2, RemoveAtHand DEF IsHighestAlpha, PlayerState
<1>5. player_state' = [player_state EXCEPT ![p].hand = DrawnHand(p),
                                           ![t].hand = RemoveAt(player_state[t].hand, i)]
  BY <1>0, <1>2, <1>3
<1>6. player_state' \in [Players -> PlayerState]
  BY <1>0, <1>1, <1>4, <1>5, HandsUpdateType
<1> QED
  BY <1>0, <1>6, CountDrawType DEF HitRugPull

(* hit, when the card is a vampire attack: neither hand outgrows its       *)
(* slots.                                                                  *)
LEMMA HitVampireAttackType ==
  ASSUME TypeOK, NEW p \in Players, NEW t \in Players, HitVampireAttack(p, t)
  PROVE  TypeOK'
<1> DEFINE stolen == Last(player_state[t].hand)
           rest == Front(player_state[t].hand)
<1>0. player_state \in [Players -> PlayerState] /\ current_turn_index \in Nat
  BY DEF TypeOK, PlayerTypeOK, TurnTypeOK
<1>1. DrawnHand(p) \in Hand /\ Len(DrawnHand(p)) < MaxHandSize /\ t # p
  BY NextCardType DEF HitVampireAttack, DrawsEffect, IsTarget
<1>2. stolen \in Card /\ rest \in Hand
  <2>1. player_state[t].hand \in Hand /\ player_state[t].hand # << >>
    BY <1>0 DEF PlayerState, HitVampireAttack
  <2> QED BY <2>1, FrontHand
<1>3. Append(DrawnHand(p), stolen) \in Hand
  BY <1>1, <1>2, AppendType
<1>4. player_state' = [player_state EXCEPT ![p].hand = Append(DrawnHand(p), stolen),
                                           ![t].hand = rest]
  BY <1>0, <1>1 DEF HitVampireAttack
<1> HIDE DEF stolen, rest
<1>5. player_state' \in [Players -> PlayerState]
  BY <1>0, <1>2, <1>3, <1>4, HandsUpdateType
<1> QED
  BY <1>0, <1>5, CountDrawType DEF HitVampireAttack

(* stay: the score it computes fits its u64.                               *)
LEMMA StayType ==
  ASSUME TypeOK, NEW p \in Players, Stay(p)
  PROVE  TypeOK'
<1>0. player_state \in [Players -> PlayerState] /\ player_state[p] \in PlayerState
  BY DEF TypeOK, PlayerTypeOK
<1> DEFINE ps == [player_state[p] EXCEPT !.score = CalculateHandScore(player_state[p].hand),
                                         !.is_active = FALSE,
                                         !.inactive_reason = STAYED]
<1>1. player_state' = [player_state EXCEPT ![p] = ps]
  BY <1>0 DEF Stay
<1>2. player_state' \in [Players -> PlayerState]
  BY <1>0, <1>1, ScoreType, StayedType, UpdateType DEF TypeOK
<1>3. PlayerTypeOK'
  BY <1>2 DEF TypeOK, PlayerTypeOK, Stay
<1>4. TurnTypeOK'
  BY TurnType DEF Stay, TypeOK, TurnTypeOK
<1> QED
  BY <1>3, <1>4, FrameType DEF TypeOK, Stay

(* The burn of either price.                                               *)
LEMMA BurnType ==
  ASSUME TypeOK, NEW p \in Players, NEW cost \in Nat, Burn(p, cost)
  PROVE  TokenTypeOK'
<1>1. wallet \in [Players -> Nat] /\ wallet[p] >= cost /\ wallet' = [wallet EXCEPT ![p] = @ - cost]
  BY DEF TypeOK, TokenTypeOK, Burn
<1>2. wallet' \in [Players -> Nat]
  BY <1>1
<1> QED BY <1>2 DEF TypeOK, TokenTypeOK, Burn

(* burn_second_chance.                                                     *)
LEMMA BurnSecondChanceType ==
  ASSUME TypeOK, NEW p \in Players, BurnSecondChance(p)
  PROVE  TypeOK'
<1>0. player_state \in [Players -> PlayerState] /\ player_state[p] \in PlayerState
  BY DEF TypeOK, PlayerTypeOK
<1>1. PopCard(player_state[p].hand) \in Hand
  BY <1>0, FrontHand DEF PlayerState, PopCard
<1> DEFINE ps == [player_state[p] EXCEPT !.hand = PopCard(player_state[p].hand),
                                         !.is_active = TRUE,
                                         !.inactive_reason = ACTIVE,
                                         !.bust_card_value = 0,
                                         !.has_used_second_chance = TRUE]
<1>2. player_state' = [player_state EXCEPT ![p] = ps]
  BY <1>0, Zenon DEF BurnSecondChance
<1>3. ps \in PlayerState
  <2>1. 0 \in 0..13
    OBVIOUS
  <2> QED BY <1>0, <1>1, <2>1, ComebackType, Zenon
<1>4. PlayerTypeOK'
  BY <1>2, <1>3, UpdateType DEF TypeOK, PlayerTypeOK, BurnSecondChance
<1>5. TokenTypeOK'
  BY BurnType, ParameterAssumption DEF BurnSecondChance
<1> QED
  BY <1>4, <1>5, FrameType DEF TypeOK, BurnSecondChance, sessionVars

(* burn_scry.                                                              *)
LEMMA BurnScryType ==
  ASSUME TypeOK, NEW p \in Players, BurnScry(p)
  PROVE  TypeOK'
<1> DEFINE ps == [player_state[p] EXCEPT !.has_used_scry = TRUE]
<1>0. ps \in PlayerState
  <2>1. player_state[p] \in PlayerState
    BY DEF TypeOK, PlayerTypeOK
  <2> QED BY <2>1 DEF PlayerState
<1>1. player_state' \in [Players -> PlayerState]
  <2>1. player_state' = [player_state EXCEPT ![p] = ps]
    BY DEF BurnScry
  <2> HIDE DEF ps
  <2> QED BY <1>0, <2>1, UpdateType DEF TypeOK
<1>2. PlayerTypeOK'
  BY <1>1 DEF TypeOK, PlayerTypeOK, BurnScry
<1>3. TokenTypeOK'
  BY BurnType, ParameterAssumption DEF BurnScry
<1> QED
  BY <1>2, <1>3, FrameType DEF TypeOK, BurnScry, sessionVars

-----------------------------------------------------------------------------
(* The rake is a share of the pot, rounded down: the winner of a pot that  *)
(* is not empty is always left with something.                             *)
LEMMA RakeType ==
  ASSUME TypeOK
  PROVE  Rake \in 0..pot_amount /\ (pot_amount > 0 => Rake < pot_amount)
<1> DEFINE n == pot_amount * treasury_fee_bps
           k == n \div 10000
<1>1. pot_amount \in Nat /\ treasury_fee_bps \in Nat /\ treasury_fee_bps <= 9999
  <2>1. pot_amount \in 0..MaxU64 /\ treasury_fee_bps \in 0..MaxFeeBps
    BY DEF TypeOK, PotTypeOK, CreationTypeOK
  <2>2. MaxFeeBps = 9999
    BY DEF MaxFeeBps
  <2>3. treasury_fee_bps \in Nat /\ treasury_fee_bps <= MaxFeeBps
    BY <2>1, FeeBound
  <2> QED BY <2>1, <2>2, <2>3, U64Assumption
<1>2. n \in Nat /\ n <= pot_amount * 9999
  BY <1>1
<1>3. k \in Nat /\ k * 10000 <= n
  <2> HIDE DEF n
  <2> QED BY <1>2
<1> HIDE DEF n, k
<1>4. k \in 0..pot_amount /\ (pot_amount > 0 => k < pot_amount)
  BY <1>1, <1>2, <1>3
<1> QED BY <1>4 DEF n, k, Rake

(* The reset at the end of end_round, given the payments.                  *)
LEMMA FinishRoundType ==
  ASSUME TypeOK, FinishRound, pot_amount' \in 0..MaxU64, rollover_count' \in 0..RolloverCap,
         vault' \in Nat, treasury' \in Nat, wallet' \in [Players -> Nat]
  PROVE  TypeOK'
<1>1. RoundTypeOK'
  <2>1. round_active' \in BOOLEAN
    BY DEF FinishRound
  <2> QED BY <2>1 DEF TypeOK, RoundTypeOK, FinishRound
<1>2. DeckTypeOK'
  <2>1. deck_committed' \in BOOLEAN
    BY DEF FinishRound
  <2> QED BY <2>1 DEF TypeOK, DeckTypeOK, FinishRound
<1>3. TokenTypeOK'
  BY DEF TypeOK, TokenTypeOK, FinishRound
<1>4. PotTypeOK'
  BY DEF PotTypeOK
<1> QED BY <1>1, <1>2, <1>3, <1>4, FrameType DEF TypeOK, FinishRound

(* end_round in its three outcomes.                                        *)
LEMMA EndRoundType ==
  ASSUME TypeOK, EndRound
  PROVE  TypeOK'
<1>0. /\ pot_amount \in 0..MaxU64 /\ rollover_count \in 0..RolloverCap
      /\ vault \in Nat /\ treasury \in Nat /\ wallet \in [Players -> Nat]
      /\ MaxU64 \in Nat /\ RolloverCap \in Nat
  BY ParameterAssumption, U64Assumption DEF TypeOK, PotTypeOK, TokenTypeOK
<1>1. ASSUME NEW w \in 1..Len(turn_order), EndRoundWithWinner(w)
      PROVE  TypeOK'
  <2> DEFINE rake == Rake
             winner == turn_order[w]
  <2>1. winner \in Players
    BY ElementOfSeq DEF TypeOK, TurnTypeOK
  <2>2. rake \in 0..pot_amount
    BY RakeType
  <2>3. /\ vault >= pot_amount
        /\ treasury' = treasury + rake
        /\ wallet' = [wallet EXCEPT ![winner] = @ + (pot_amount - rake)]
        /\ vault' = vault - pot_amount /\ pot_amount' = 0 /\ rollover_count' = 0
        /\ FinishRound
    BY <1>1 DEF EndRoundWithWinner
  <2> HIDE DEF rake, winner
  <2>4. wallet' \in [Players -> Nat]
    BY <1>0, <2>1, <2>2, <2>3
  <2>5. /\ pot_amount' \in 0..MaxU64 /\ rollover_count' \in 0..RolloverCap
        /\ vault' \in Nat /\ treasury' \in Nat
    BY <1>0, <2>2, <2>3
  <2> QED BY <2>3, <2>4, <2>5, FinishRoundType
<1>2. ASSUME EndRoundRollover
      PROVE  TypeOK'
  BY <1>0, <1>2, FinishRoundType DEF EndRoundRollover
<1>3. ASSUME EndRoundSweep
      PROVE  TypeOK'
  BY <1>0, <1>3, FinishRoundType DEF EndRoundSweep
<1> QED BY <1>1, <1>2, <1>3 DEF EndRound

(* Every instruction keeps the types.                                      *)
LEMMA NextType ==
  ASSUME TypeOK, [Next]_vars
  PROVE  TypeOK'
<1>1. CASE \E fee \in Fees : Initialize(fee)
  BY <1>1, InitializeType
<1>2. CASE InitVault
  BY <1>2, InitVaultType
<1>3. CASE CloseGame
  BY <1>3, CloseGameType
<1>4. CASE \E p \in Players, stake \in Stakes : JoinRound(p, stake)
  BY <1>4, JoinRoundType
<1>5. CASE \E p \in Players : LeaveGame(p)
  BY <1>5, LeaveBetweenRoundsType, ForfeitMidRoundType DEF LeaveGame
<1>6. CASE \E deck \in Decks : CommitDeck(deck)
  BY <1>6, CommitDeckType
<1>7. CASE StartRound
  BY <1>7, StartRoundType
<1>8. CASE \E p, t \in Players : Hit(p, t)
  BY <1>8, HitBustType, HitPlainType, HitRugPullType, HitVampireAttackType DEF Hit
<1>9. CASE \E p \in Players : Stay(p)
  BY <1>9, StayType
<1>10. CASE \E p \in Players : BurnSecondChance(p)
  BY <1>10, BurnSecondChanceType
<1>11. CASE \E p \in Players : BurnScry(p)
  BY <1>11, BurnScryType
<1>12. CASE EndRound
  BY <1>12, EndRoundType
<1>13. CASE UNCHANGED vars
  BY <1>13, FrameType DEF vars, sessionVars, TypeOK
<1> QED
  BY <1>1, <1>2, <1>3, <1>4, <1>5, <1>6, <1>7, <1>8, <1>9, <1>10, <1>11, <1>12, <1>13 DEF Next

(* Every account stays well typed: no pot, score or balance leaves its     *)
(* u64, no hand its slots, no rollover count its cap.                      *)
THEOREM TypeCorrect == Spec => []TypeOK
<1>1. Init => TypeOK
  BY InitType
<1>2. TypeOK /\ [Next]_vars => TypeOK'
  BY NextType
<1> QED BY <1>1, <1>2, PTL DEF Spec

-----------------------------------------------------------------------------
(* The program implements RoundLifecycle: each instruction is a step of it *)
(* or leaves its variables alone.                                          *)
THEOREM LifecycleImplemented == Spec => ImplementsLifecycle
<1> USE DEF Lifecycle!roundVars
<1>1. Init => Lifecycle!Init
  BY DEF Init, Lifecycle!Init
<1>2. ASSUME TypeOK, [Next]_vars
      PROVE  [Lifecycle!Next]_(Lifecycle!roundVars)
  <2>1. ASSUME NEW fee \in Fees, Initialize(fee)
        PROVE  Lifecycle!OpenSession
    BY <2>1 DEF Initialize, ClearSession, Lifecycle!OpenSession, Lifecycle!ClearSession
  <2>2. ASSUME CloseGame
        PROVE  Lifecycle!CloseSession
    BY <2>2 DEF CloseGame, ClearSession, Lifecycle!CloseSession, Lifecycle!ClearSession
  <2>3. ASSUME NEW p \in Players, NEW stake \in Stakes, JoinRound(p, stake)
        PROVE  Lifecycle!Seat
    <3>1. /\ turn_order \in Seq(Players) /\ Len(turn_order) < MaxPlayers
          /\ turn_order' = Append(turn_order, p)
      BY <1>2, <2>3 DEF TypeOK, TurnTypeOK, JoinRound
    <3>2. Len(turn_order') = Len(turn_order) + 1
      BY <3>1
    <3> QED BY <2>3, <3>1, <3>2 DEF JoinRound, creationVars, roundVars, deckVars, Lifecycle!Seat
  <2>4. ASSUME NEW p \in Players, LeaveBetweenRounds(p)
        PROVE  Lifecycle!Unseat
    <3>1. PICK i \in 1..Len(turn_order) : turn_order' = RemoveAt(turn_order, i)
      BY <2>4 DEF LeaveBetweenRounds
    <3>2. Len(turn_order) > 0 /\ Len(turn_order') = Len(turn_order) - 1
      BY <1>2, <3>1, RemoveAtType DEF TypeOK, TurnTypeOK
    <3> QED BY <2>4, <3>2 DEF LeaveBetweenRounds, creationVars, roundVars, deckVars,
                              Lifecycle!Unseat
  <2>5. ASSUME NEW deck \in Decks, CommitDeck(deck)
        PROVE  Lifecycle!Commit(deck)
    BY <2>5 DEF CommitDeck, creationVars, turnVars, roundVars, Lifecycle!Commit
  <2>6. ASSUME StartRound
        PROVE  Lifecycle!Start
    BY <2>6 DEF StartRound, creationVars, deckVars, Lifecycle!Start
  <2>7. ASSUME NEW p \in Players, CanDraw(p), CountDraw
        PROVE  Lifecycle!Draw
    BY <2>7 DEF CanDraw, IsCurrentPlayer, CountDraw, creationVars, roundVars, Lifecycle!Draw
  <2>8. ASSUME NEW p \in Players, NEW t \in Players, Hit(p, t)
        PROVE  Lifecycle!Draw
    BY <2>7, <2>8 DEF Hit, HitBust, HitPlain, HitRugPull, HitVampireAttack, DrawsEffect
  <2>9. ASSUME CanEndRound, FinishRound
        PROVE  Lifecycle!End
    BY <2>9 DEF CanEndRound, FinishRound, creationVars, turnVars, Lifecycle!End
  <2>10. ASSUME EndRound
         PROVE  Lifecycle!End
    BY <2>9, <2>10 DEF EndRound, EndRoundWithWinner, EndRoundRollover, EndRoundSweep
  <2>11. ASSUME NEW p \in Players,
                ForfeitMidRound(p) \/ Stay(p) \/ BurnSecondChance(p) \/ BurnScry(p)
         PROVE  UNCHANGED Lifecycle!roundVars
    BY <2>11 DEF ForfeitMidRound, Stay, BurnSecondChance, BurnScry,
                 sessionVars, creationVars, turnVars, roundVars, deckVars
  <2>12. ASSUME InitVault \/ UNCHANGED vars
         PROVE  UNCHANGED Lifecycle!roundVars
    BY <2>12 DEF InitVault, vars, sessionVars, creationVars, turnVars, roundVars, deckVars
  <2> QED
    BY <1>2, <2>1, <2>2, <2>3, <2>4, <2>5, <2>6, <2>8, <2>10, <2>11, <2>12
       DEF Next, LeaveGame, Lifecycle!Next
<1> QED BY <1>1, <1>2, TypeCorrect, PTL DEF Spec, ImplementsLifecycle, Lifecycle!Spec

-----------------------------------------------------------------------------
(* The seats: no instruction leaves a round without its table.             *)

(* The seats after a player leaves: each is a former seat, none is the     *)
(* leaver's, and they are still different wallets.                         *)
LEMMA LeaverIsGone ==
  ASSUME NEW s \in Seq(Players), NEW i \in 1..Len(s),
         \A j, k \in 1..Len(s) : s[j] = s[k] => j = k
  PROVE  /\ \A j \in 1..Len(RemoveAt(s, i)) :
              RemoveAt(s, i)[j] \in {s[k] : k \in 1..Len(s)} \ {s[i]}
         /\ \A j, k \in 1..Len(RemoveAt(s, i)) :
              RemoveAt(s, i)[j] = RemoveAt(s, i)[k] => j = k
<1> DEFINE r == RemoveAt(s, i)
           from(j) == IF j < i THEN j ELSE j + 1
<1>1. /\ Len(r) = Len(s) - 1
      /\ \A j \in 1..(Len(s) - 1) : r[j] = s[from(j)]
  BY RemoveAtType
<1>2. \A j \in 1..(Len(s) - 1) : from(j) \in 1..Len(s) /\ from(j) # i
  OBVIOUS
<1>3. \A j, k \in 1..(Len(s) - 1) : from(j) = from(k) => j = k
  OBVIOUS
<1> HIDE DEF r, from
<1>4. \A j \in 1..Len(r) : r[j] \in {s[k] : k \in 1..Len(s)} \ {s[i]}
  BY <1>1, <1>2
<1>5. \A j, k \in 1..Len(r) : r[j] = r[k] => j = k
  BY <1>1, <1>2, <1>3
<1> QED BY <1>4, <1>5 DEF r

(* Before the first session nobody is seated.                              *)
LEMMA InitSeated ==
  ASSUME Init
  PROVE  RoundIsSeated
BY DEF Init, RoundIsSeated, Seated

(* initialize and close_game leave no seat.                                *)
LEMMA ClearSessionSeated ==
  ASSUME ClearSession, UNCHANGED accounts
  PROVE  RoundIsSeated'
BY DEF ClearSession, RoundIsSeated, Seated

(* join_round seats a wallet that had no seat, and opens its account.      *)
LEMMA JoinRoundSeated ==
  ASSUME TypeOK, RoundIsSeated, NEW p \in Players, NEW stake \in Stakes, JoinRound(p, stake)
  PROVE  RoundIsSeated'
<1>1. /\ turn_order \in Seq(Players) /\ p \notin Seated
      /\ turn_order' = Append(turn_order, p) /\ accounts' = accounts \cup {p}
      /\ ~round_active /\ UNCHANGED roundVars
  BY DEF TypeOK, TurnTypeOK, JoinRound
<1> DEFINE n == Len(turn_order)
<1>2. /\ n \in Nat /\ Len(turn_order') = n + 1
      /\ \A i \in 1..n : turn_order'[i] = turn_order[i]
      /\ turn_order'[n + 1] = p
  BY <1>1, AppendProperties
<1>3. \A i \in 1..n : turn_order[i] # p /\ turn_order[i] \in accounts
  BY <1>1 DEF Seated, RoundIsSeated
<1>4. \A i, j \in 1..Len(turn_order') : turn_order'[i] = turn_order'[j] => i = j
  <2>1. \A i, j \in 1..n : turn_order[i] = turn_order[j] => i = j
    BY DEF RoundIsSeated
  <2> TAKE i, j \in 1..Len(turn_order')
  <2>2. i \in 1..n \/ i = n + 1
    BY <1>2
  <2>3. j \in 1..n \/ j = n + 1
    BY <1>2
  <2> QED BY <1>2, <1>3, <2>1, <2>2, <2>3
<1>5. Seated' \subseteq accounts'
  <2>1. ASSUME NEW i \in 1..Len(turn_order')
        PROVE  turn_order'[i] \in accounts \cup {p}
    <3>1. i \in 1..n \/ i = n + 1
      BY <1>2
    <3> QED BY <1>2, <1>3, <3>1
  <2> QED BY <1>1, <2>1 DEF Seated
<1>6. ~round_active'
  BY <1>1 DEF roundVars
<1> QED BY <1>4, <1>5, <1>6 DEF RoundIsSeated

(* leave_game closes the account of the one seat it removes.               *)
LEMMA LeaveBetweenRoundsSeated ==
  ASSUME TypeOK, RoundIsSeated, NEW p \in Players, LeaveBetweenRounds(p)
  PROVE  RoundIsSeated'
<1>1. PICK i \in 1..Len(turn_order) :
        turn_order[i] = p /\ turn_order' = RemoveAt(turn_order, i)
  BY DEF LeaveBetweenRounds
<1>2. turn_order \in Seq(Players) /\ \A j, k \in 1..Len(turn_order) :
        turn_order[j] = turn_order[k] => j = k
  BY DEF TypeOK, TurnTypeOK, RoundIsSeated
<1>3. /\ \A j \in 1..Len(turn_order') : turn_order'[j] \in Seated \ {p}
      /\ \A j, k \in 1..Len(turn_order') : turn_order'[j] = turn_order'[k] => j = k
  <2>1. /\ \A j \in 1..Len(RemoveAt(turn_order, i)) :
              RemoveAt(turn_order, i)[j]
                \in {turn_order[k] : k \in 1..Len(turn_order)} \ {turn_order[i]}
        /\ \A j, k \in 1..Len(RemoveAt(turn_order, i)) :
              RemoveAt(turn_order, i)[j] = RemoveAt(turn_order, i)[k] => j = k
    BY <1>2, LeaverIsGone
  <2> QED BY <1>1, <2>1 DEF Seated
<1>4. Seated' \subseteq accounts'
  BY <1>3 DEF LeaveBetweenRounds, RoundIsSeated, Seated
<1>5. ~round_active'
  BY DEF LeaveBetweenRounds, roundVars
<1> QED BY <1>3, <1>4, <1>5 DEF RoundIsSeated

(* The seats and the accounts behind them do not change during a round.    *)
LEMMA SameSeats ==
  ASSUME RoundIsSeated, UNCHANGED <<turn_order, accounts>>,
         round_active' =>
           /\ session_exists' /\ deck_committed' /\ Len(turn_order) >= 2
           /\ current_turn_index' < Len(turn_order)
  PROVE  RoundIsSeated'
BY DEF RoundIsSeated, Seated

(* start_round checks what a round needs.                                  *)
LEMMA StartRoundSeated ==
  ASSUME TypeOK, RoundIsSeated, StartRound
  PROVE  RoundIsSeated'
<1>1. /\ session_exists' /\ deck_committed' /\ Len(turn_order) >= 2
      /\ current_turn_index' = 0 /\ UNCHANGED <<turn_order, accounts>>
  BY DEF StartRound, creationVars, deckVars
<1>2. Len(turn_order) \in Nat
  BY DEF TypeOK, TurnTypeOK
<1> QED BY <1>1, <1>2, SameSeats

(* An instruction of a round that keeps it running.                        *)
LEMMA PlaySeated ==
  ASSUME TypeOK, RoundIsSeated, NEW p \in Players,
         UNCHANGED <<turn_order, accounts, session_exists, round_active, deck_committed>>,
         IsCurrentPlayer(p), AdvanceTurn \/ UNCHANGED current_turn_index
  PROVE  RoundIsSeated'
BY TurnType, SameSeats DEF IsCurrentPlayer, RoundIsSeated

(* hit.                                                                    *)
LEMMA HitSeated ==
  ASSUME TypeOK, RoundIsSeated, NEW p \in Players, NEW t \in Players, Hit(p, t)
  PROVE  RoundIsSeated'
<1>1. IsCurrentPlayer(p) /\ (AdvanceTurn \/ UNCHANGED current_turn_index) /\ CountDraw
  BY DEF Hit, HitBust, HitPlain, HitRugPull, HitVampireAttack, DrawsEffect, CanDraw
<1>2. UNCHANGED <<turn_order, accounts, session_exists, round_active, deck_committed>>
  BY <1>1 DEF CountDraw, creationVars, roundVars
<1> QED BY <1>1, <1>2, PlaySeated

(* stay.                                                                   *)
LEMMA StaySeated ==
  ASSUME TypeOK, RoundIsSeated, NEW p \in Players, Stay(p)
  PROVE  RoundIsSeated'
BY PlaySeated DEF Stay, creationVars, roundVars, deckVars

(* An instruction that moves no seat and starts no round.                  *)
LEMMA QuietSeated ==
  ASSUME RoundIsSeated, UNCHANGED <<session_exists, turn_order, current_turn_index, accounts>>,
         round_active' => round_active /\ deck_committed' = deck_committed
  PROVE  RoundIsSeated'
BY SameSeats DEF RoundIsSeated

(* Every instruction keeps the table seated.                               *)
LEMMA NextSeated ==
  ASSUME TypeOK, RoundIsSeated, [Next]_vars
  PROVE  RoundIsSeated'
<1> USE DEF sessionVars, creationVars, turnVars, roundVars, deckVars, playerVars
<1>1. CASE \E fee \in Fees : Initialize(fee)
  BY <1>1, ClearSessionSeated DEF Initialize
<1>2. CASE InitVault
  BY <1>2, QuietSeated DEF InitVault
<1>3. CASE CloseGame
  BY <1>3, ClearSessionSeated DEF CloseGame
<1>4. CASE \E p \in Players, stake \in Stakes : JoinRound(p, stake)
  BY <1>4, JoinRoundSeated
<1>5. CASE \E p \in Players : LeaveGame(p)
  <2>1. ASSUME NEW p \in Players, ForfeitMidRound(p)
        PROVE  RoundIsSeated'
    BY <2>1, QuietSeated DEF ForfeitMidRound
  <2> QED BY <1>5, <2>1, LeaveBetweenRoundsSeated DEF LeaveGame
<1>6. CASE \E deck \in Decks : CommitDeck(deck)
  <2>1. ~round_active /\ round_active' = round_active
        /\ UNCHANGED <<session_exists, turn_order, current_turn_index, accounts>>
    BY <1>6 DEF CommitDeck, roundVars
  <2>2. ~round_active'
    BY <2>1
  <2> QED BY <2>1, <2>2, QuietSeated
<1>7. CASE StartRound
  BY <1>7, StartRoundSeated
<1>8. CASE \E p, t \in Players : Hit(p, t)
  BY <1>8, HitSeated
<1>9. CASE \E p \in Players : Stay(p)
  BY <1>9, StaySeated
<1>10. CASE \E p \in Players : BurnSecondChance(p) \/ BurnScry(p)
  BY <1>10, QuietSeated DEF BurnSecondChance, BurnScry
<1>11. CASE EndRound
  <2>1. FinishRound
    BY <1>11 DEF EndRound, EndRoundWithWinner, EndRoundRollover, EndRoundSweep
  <2> QED BY <2>1, QuietSeated DEF FinishRound
<1>12. CASE UNCHANGED vars
  BY <1>12, QuietSeated DEF vars
<1> QED
  BY <1>1, <1>2, <1>3, <1>4, <1>5, <1>6, <1>7, <1>8, <1>9, <1>10, <1>11, <1>12 DEF Next

(* A round is only played on a committed deck by at least two different    *)
(* wallets with open accounts, with the turn on one of the seats: what     *)
(* hit, stay and end_round rely on without checking.                       *)
THEOREM TableIsSeated == Spec => []RoundIsSeated
<1>1. Init => RoundIsSeated
  BY InitSeated
<1>2. TypeOK /\ RoundIsSeated /\ [Next]_vars => RoundIsSeated'
  BY NextSeated
<1> QED BY <1>1, <1>2, TypeCorrect, PTL DEF Spec

-----------------------------------------------------------------------------
(* The vault and the pot move together.                                    *)

(* Every instruction keeps the vault equal to the pot.                     *)
LEMMA NextBacked ==
  ASSUME TypeOK, VaultBacksPot, [Next]_vars
  PROVE  VaultBacksPot'
<1> USE DEF sessionVars, creationVars, potVars, playerVars, tokenVars
<1>0. pot_amount \in Nat /\ vault \in Nat
  BY U64Assumption DEF TypeOK, PotTypeOK, TokenTypeOK
<1>1. ASSUME NEW fee \in Fees, Initialize(fee)
      PROVE  VaultBacksPot'
  BY <1>1 DEF Initialize, ClearSession, VaultBacksPot
<1>2. CASE InitVault
  BY <1>2 DEF InitVault, VaultBacksPot
<1>3. CASE CloseGame
  BY <1>3 DEF CloseGame, ClearSession, VaultBacksPot
<1>4. ASSUME NEW p \in Players, NEW stake \in Stakes, JoinRound(p, stake)
      PROVE  VaultBacksPot'
  <2> DEFINE staked == IF vault_ready THEN stake ELSE 0
  <2>1. /\ pot_amount' = pot_amount + staked /\ vault' = vault + staked
        /\ session_exists /\ session_exists' = session_exists
    BY <1>4 DEF JoinRound
  <2> HIDE DEF staked
  <2>2. session_exists'
    BY <2>1
  <2> QED BY <2>1, <2>2 DEF VaultBacksPot
<1>5. ASSUME NEW p \in Players, LeaveGame(p)
      PROVE  VaultBacksPot'
  BY <1>5 DEF LeaveGame, LeaveBetweenRounds, ForfeitMidRound, VaultBacksPot
<1>6. ASSUME NEW deck \in Decks, CommitDeck(deck)
      PROVE  VaultBacksPot'
  BY <1>6 DEF CommitDeck, VaultBacksPot
<1>7. CASE StartRound
  BY <1>7 DEF StartRound, VaultBacksPot
<1>8. ASSUME NEW p \in Players, NEW t \in Players, Hit(p, t)
      PROVE  VaultBacksPot'
  <2>1. CountDraw
    BY <1>8 DEF Hit, HitBust, HitPlain, HitRugPull, HitVampireAttack
  <2> QED BY <2>1 DEF CountDraw, VaultBacksPot
<1>9. ASSUME NEW p \in Players, Stay(p)
      PROVE  VaultBacksPot'
  BY <1>9 DEF Stay, VaultBacksPot
<1>10. ASSUME NEW p \in Players, BurnSecondChance(p) \/ BurnScry(p)
       PROVE  VaultBacksPot'
  BY <1>10 DEF BurnSecondChance, BurnScry, Burn, VaultBacksPot
<1>11. CASE EndRound
  <2>1. /\ session_exists /\ session_exists' = session_exists
        /\ \/ pot_amount' = 0 /\ vault' = vault - pot_amount
           \/ UNCHANGED <<pot_amount, vault>>
    BY <1>11 DEF EndRound, EndRoundWithWinner, EndRoundRollover, EndRoundSweep,
                 FinishRound, CanEndRound
  <2>2. session_exists'
    BY <2>1
  <2> QED BY <1>0, <2>1, <2>2 DEF VaultBacksPot
<1>12. CASE UNCHANGED vars
  BY <1>12 DEF vars, VaultBacksPot
<1> QED
  BY <1>1, <1>2, <1>3, <1>4, <1>5, <1>6, <1>7, <1>8, <1>9, <1>10, <1>11, <1>12 DEF Next

(* The vault holds exactly the pot after every sequence of joins, leaves,  *)
(* rounds, rollovers and sweeps, and a closed game leaves nothing in it.   *)
THEOREM VaultIsExact == Spec => []VaultBacksPot
<1>1. Init => VaultBacksPot
  BY DEF Init, VaultBacksPot
<1>2. TypeOK /\ VaultBacksPot /\ [Next]_vars => VaultBacksPot'
  BY NextBacked
<1> QED BY <1>1, <1>2, TypeCorrect, PTL DEF Spec

-----------------------------------------------------------------------------
(* No $FLIP is made or lost.                                               *)

Holdings == SumOver(wallet, Players)

(* A change of one wallet changes what the wallets hold by as much, and    *)
(* wallets left alone hold what they held.                                 *)
LEMMA HoldingsChange ==
  ASSUME TypeOK, TypeOK'
  PROVE  /\ Holdings \in Int
         /\ wallet' = wallet => Holdings' = Holdings
         /\ \A p \in Players : (\A q \in Players : q # p => wallet'[q] = wallet[q]) =>
              Holdings' = Holdings + (wallet'[p] - wallet[p])
<1>1. /\ IsFiniteSet(Players)
      /\ \A p \in Players : wallet[p] \in Int /\ wallet'[p] \in Int
  BY ParameterAssumption DEF TypeOK, TokenTypeOK
<1>2. Holdings \in Int
  BY <1>1, SumTakeOut DEF Holdings
<1>3. ASSUME wallet' = wallet
      PROVE  Holdings' = Holdings
  BY <1>1, <1>3, SumSame DEF Holdings
<1>4. ASSUME NEW p \in Players, \A q \in Players : q # p => wallet'[q] = wallet[q]
      PROVE  Holdings' = Holdings + (wallet'[p] - wallet[p])
  BY <1>1, <1>4, SumChange DEF Holdings
<1> QED BY <1>2, <1>3, <1>4

(* What the sum over the wallets says, in this state and the next.         *)
LEMMA SupplyIsSum ==
  /\ SupplyConserved <=> vault + treasury + Holdings = supply
  /\ SupplyConserved' <=> vault' + treasury' + Holdings' = supply'
BY DEF SupplyConserved, Holdings, SumOver, MapThenSumSet, MapThenFoldSet

(* Every instruction conserves the supply, or lowers it by what it burns.  *)
LEMMA NextConserves ==
  ASSUME TypeOK, SupplyConserved, [Next]_vars
  PROVE  SupplyConserved'
<1>0. TypeOK'
  BY NextType
<1>1. /\ pot_amount \in Nat /\ vault \in Nat /\ treasury \in Nat /\ supply \in Int
      /\ wallet \in [Players -> Nat] /\ wallet' \in [Players -> Nat] /\ Holdings \in Int
      /\ vault + treasury + Holdings = supply
  <2>1. Holdings \in Int
    BY <1>0, HoldingsChange
  <2>2. vault + treasury + Holdings = supply
    BY SupplyIsSum
  <2> QED BY <1>0, <2>1, <2>2, U64Assumption DEF TypeOK, PotTypeOK, TokenTypeOK
<1>2. ASSUME UNCHANGED <<vault, treasury, wallet, supply>>
      PROVE  SupplyConserved'
  BY <1>0, <1>1, <1>2, HoldingsChange, SupplyIsSum
<1>3. ASSUME NEW p \in Players, NEW stake \in Stakes, JoinRound(p, stake)
      PROVE  SupplyConserved'
  <2> DEFINE staked == IF vault_ready THEN stake ELSE 0
  <2>1. staked \in Nat
    BY ParameterAssumption
  <2>2. /\ wallet' = [wallet EXCEPT ![p] = @ - staked]
        /\ vault' = vault + staked /\ UNCHANGED <<treasury, supply>>
    BY <1>3 DEF JoinRound
  <2> HIDE DEF staked
  <2>3. /\ wallet'[p] = wallet[p] - staked /\ wallet[p] \in Nat
        /\ \A q \in Players : q # p => wallet'[q] = wallet[q]
    BY <1>1, <2>2
  <2>4. Holdings' = Holdings + (wallet'[p] - wallet[p])
    BY <1>0, <2>3, HoldingsChange
  <2>5. vault' + treasury' + Holdings' = supply'
    BY <1>1, <2>1, <2>2, <2>3, <2>4
  <2> QED BY <2>5, SupplyIsSum
<1>4. ASSUME NEW p \in Players, BurnSecondChance(p) \/ BurnScry(p)
      PROVE  SupplyConserved'
  <2>1. PICK cost \in Nat : Burn(p, cost)
    BY <1>4, ParameterAssumption DEF BurnSecondChance, BurnScry
  <2>2. /\ wallet'[p] = wallet[p] - cost /\ wallet[p] \in Nat
        /\ \A q \in Players : q # p => wallet'[q] = wallet[q]
    BY <1>1, <2>1 DEF Burn
  <2>3. Holdings' = Holdings + (wallet'[p] - wallet[p])
    BY <1>0, <2>2, HoldingsChange
  <2>4. vault' + treasury' + Holdings' = supply'
    BY <1>1, <2>1, <2>2, <2>3 DEF Burn
  <2> QED BY <2>4, SupplyIsSum
<1>5. ASSUME NEW w \in 1..Len(turn_order), EndRoundWithWinner(w)
      PROVE  SupplyConserved'
  <2>1. turn_order[w] \in Players /\ Rake \in Int
    <3>1. turn_order \in Seq(Players)
      BY DEF TypeOK, TurnTypeOK
    <3>2. Rake \in 0..pot_amount
      BY RakeType
    <3> QED BY <1>1, <3>1, <3>2, ElementOfSeq
  <2>2. PICK p \in Players, r \in Int : p = turn_order[w] /\ r = Rake
    BY <2>1
  <2>3. /\ treasury' = treasury + r /\ vault' = vault - pot_amount /\ UNCHANGED supply
        /\ wallet' = [wallet EXCEPT ![p] = @ + (pot_amount - r)]
    BY <1>5, <2>2 DEF EndRoundWithWinner, FinishRound
  <2>4. /\ wallet'[p] = wallet[p] + (pot_amount - r) /\ wallet[p] \in Nat
        /\ \A q \in Players : q # p => wallet'[q] = wallet[q]
    BY <1>1, <2>3
  <2>5. Holdings' = Holdings + (pot_amount - r)
    <3>1. Holdings' = Holdings + (wallet'[p] - wallet[p])
      BY <1>0, <2>4, HoldingsChange
    <3>2. wallet'[p] - wallet[p] = pot_amount - r
      BY <1>1, <2>2, <2>4
    <3> QED BY <3>1, <3>2
  <2>6. vault' + treasury' + Holdings' = supply'
    BY <1>1, <2>2, <2>3, <2>5
  <2> QED BY <2>6, SupplyIsSum
<1>6. CASE EndRoundSweep
  <2>1. /\ treasury' = treasury + pot_amount /\ vault' = vault - pot_amount
        /\ UNCHANGED <<supply, wallet>>
    BY <1>6 DEF EndRoundSweep, FinishRound
  <2>2. Holdings' = Holdings
    BY <1>0, <2>1, HoldingsChange
  <2>3. vault' + treasury' + Holdings' = supply'
    BY <1>1, <2>1, <2>2
  <2> QED BY <2>3, SupplyIsSum
<1>7. CASE EndRoundRollover
  <2>1. UNCHANGED <<vault, treasury, wallet, supply>>
    BY <1>7 DEF EndRoundRollover, FinishRound
  <2> QED BY <1>2, <2>1
<1>8. CASE (\E fee \in Fees : Initialize(fee)) \/ (\E deck \in Decks : CommitDeck(deck))
  <2>1. UNCHANGED <<vault, treasury, wallet, supply>>
    BY <1>8 DEF Initialize, CommitDeck, tokenVars
  <2> QED BY <1>2, <2>1
<1>9. CASE InitVault \/ CloseGame \/ StartRound
  <2>1. UNCHANGED <<vault, treasury, wallet, supply>>
    <3>1. CASE InitVault
      BY <3>1 DEF InitVault
    <3>2. CASE CloseGame
      BY <3>2 DEF CloseGame, tokenVars
    <3>3. CASE StartRound
      <4>1. UNCHANGED tokenVars
        BY <3>3, SMTT(30) DEF StartRound
      <4> QED BY <4>1 DEF tokenVars
    <3> QED BY <1>9, <3>1, <3>2, <3>3
  <2> QED BY <1>2, <2>1
<1>10. CASE \/ \E p \in Players : LeaveGame(p)
           \/ \E p \in Players : Stay(p)
  <2>1. UNCHANGED <<vault, treasury, wallet, supply>>
    BY <1>10 DEF LeaveGame, LeaveBetweenRounds, ForfeitMidRound, Stay, tokenVars
  <2> QED BY <1>2, <2>1
<1>11. ASSUME NEW p \in Players, NEW t \in Players, Hit(p, t)
       PROVE  SupplyConserved'
  <2>1. CountDraw
    BY <1>11 DEF Hit, HitBust, HitPlain, HitRugPull, HitVampireAttack
  <2>2. UNCHANGED <<vault, treasury, wallet, supply>>
    BY <2>1 DEF CountDraw, tokenVars
  <2> QED BY <1>2, <2>2
<1>12. CASE UNCHANGED vars
  BY <1>2, <1>12 DEF vars, tokenVars
<1> QED
  BY <1>3, <1>4, <1>5, <1>6, <1>7, <1>8, <1>9, <1>10, <1>11, <1>12 DEF Next, EndRound

(* Nobody's $FLIP is created or lost: what the wallets, the vault and the  *)
(* treasury hold adds up to the supply whatever is joined, left, won,      *)
(* rolled over, swept or burned, for any number of wallets.                *)
THEOREM NothingIsLost == Spec => []SupplyConserved
<1>1. Init => SupplyConserved
  <2> SUFFICES ASSUME Init PROVE SupplyConserved
    OBVIOUS
  <2>1. \A p \in Players : wallet[p] = InitialBalance
    BY DEF Init
  <2>2. Holdings = Cardinality(Players) * InitialBalance
    BY <2>1, ParameterAssumption, SumConstant DEF Holdings
  <2>3. Cardinality(Players) \in Nat
    BY ParameterAssumption, FS_CardinalityType
  <2>4. vault = 0 /\ treasury = 0 /\ supply = Cardinality(Players) * InitialBalance
    BY DEF Init
  <2>5. Cardinality(Players) * InitialBalance \in Int
    BY <2>3, ParameterAssumption
  <2>6. vault + treasury + Holdings = supply
    BY <2>2, <2>4, <2>5
  <2> QED BY <2>6, SupplyIsSum
<1>2. TypeOK /\ SupplyConserved /\ [Next]_vars => SupplyConserved'
  BY NextConserves
<1> QED BY <1>1, <1>2, TypeCorrect, PTL DEF Spec
=============================================================================
