------------------------------ MODULE PushFlip ------------------------------
(***************************************************************************)
(* The on-chain program: one game, its GameSession account, the            *)
(* PlayerState account of each wallet, the vault and the $FLIP balances    *)
(* the program moves.  One action per instruction.                         *)
(*                                                                         *)
(* A Solana transaction is atomic: an instruction that returns an error or *)
(* panics leaves no trace.  So every early return, every failing CPI and   *)
(* every assert of the source is a guard here, and an action is the whole  *)
(* handler.                                                                *)
(*                                                                         *)
(* Signatures and account addresses are not modelled: an instruction for   *)
(* the authority or the dealer is an action without a signer, and callers  *)
(* pass this game's own accounts.  end_round may be signed by the          *)
(* authority, the dealer or any seated player, so somebody always may.     *)
(***************************************************************************)
EXTENDS Cards, FiniteSets

CONSTANTS
  Players,           \* the wallets that may take a seat
  Decks,             \* the shuffles a Merkle root can commit to
  Stakes,            \* the stake amounts a join asks for
  Fees,              \* the treasury fees, in basis points, a game is created with
  MaxPlayers,        \* MAX_PLAYERS (4)
  MinStake,          \* MIN_STAKE
  SecondChanceCost,  \* SECOND_CHANCE_COST
  ScryCost,          \* SCRY_COST
  RolloverCap,       \* the all-bust rounds after which a pot is swept (10)
  InitialBalance,    \* what each wallet holds at the start
  MaxSessions,       \* bound of the model: sessions created
  MaxRounds          \* bound of the model: rounds started per session

ASSUME ParameterAssumption ==
  /\ IsFiniteSet(Players)
  /\ Decks \subseteq Seq(Card)
  /\ Stakes \subseteq Nat
  /\ Fees \subseteq Nat
  /\ MaxPlayers \in Nat /\ MinStake \in Nat
  /\ SecondChanceCost \in Nat /\ ScryCost \in Nat
  /\ RolloverCap \in Nat
  /\ InitialBalance \in Nat
  /\ MaxSessions \in Nat /\ MaxRounds \in Nat

VARIABLES
  session_exists,      \* the GameSession account is open
  sessions,            \* how often it was created (counts against MaxSessions)
  turn_order,          \* the seated wallets, turn_order[1..player_count]
  current_turn_index,  \* 0-based, as in the account
  round_active,
  round_number,
  pot_amount,
  deck_committed,
  merkle_root,         \* the shuffle committed to; << >> for the zero root
  draw_counter,
  treasury_fee_bps,
  rollover_count,
  accounts,            \* the wallets whose PlayerState account is open
  player_state,        \* the contents of those accounts
  vault_ready,         \* the vault token account is open
  vault, treasury,     \* $FLIP in the vault and in the treasury's account
  wallet,              \* $FLIP of each wallet
  supply               \* $FLIP in existence

turnVars == <<turn_order, current_turn_index>>
deckVars == <<deck_committed, merkle_root, draw_counter>>
roundVars == <<round_active, round_number>>
potVars == <<pot_amount, rollover_count>>
creationVars == <<session_exists, sessions, treasury_fee_bps>>
sessionVars == <<creationVars, turnVars, roundVars, potVars, deckVars>>
playerVars == <<accounts, player_state>>
tokenVars == <<vault_ready, vault, treasury, wallet, supply>>
vars == <<sessionVars, playerVars, tokenVars>>

-----------------------------------------------------------------------------
(* PlayerState.                                                            *)

ACTIVE == "active"
BUST == "bust"
STAYED == "stayed"

PlayerState ==
  [hand: Hand,
   is_active: BOOLEAN,
   inactive_reason: {ACTIVE, BUST, STAYED},
   bust_card_value: 0..13,
   score: 0..MaxU64,
   staked_amount: Nat,
   has_used_second_chance: BOOLEAN,
   has_used_scry: BOOLEAN]

(* What join_round writes, and what start_round resets an account to.      *)
FreshPlayerState(stake) ==
  [hand |-> << >>,
   is_active |-> TRUE,
   inactive_reason |-> ACTIVE,
   bust_card_value |-> 0,
   score |-> 0,
   staked_amount |-> stake,
   has_used_second_chance |-> FALSE,
   has_used_scry |-> FALSE]

Seated == {turn_order[i] : i \in 1..Len(turn_order)}

IsCurrentPlayer(p) ==
  /\ session_exists
  /\ round_active
  /\ current_turn_index < Len(turn_order)
  /\ turn_order[current_turn_index + 1] = p
  /\ p \in accounts

(* Mutants: the index runs past the last seat; the turn does not move.     *)
AdvanceWithoutWrap == current_turn_index' = current_turn_index + 1
KeepTurn == UNCHANGED current_turn_index

(* The seat after the current one: inactive players are not skipped.       *)
AdvanceTurn == current_turn_index' = (current_turn_index + 1) % Len(turn_order)

-----------------------------------------------------------------------------
(* initialize, init_vault, close_game.  The vault token account is not     *)
(* closed with the game.                                                   *)

ClearSession ==
  /\ turn_order' = << >>
  /\ current_turn_index' = 0
  /\ round_active' = FALSE
  /\ round_number' = 0
  /\ pot_amount' = 0
  /\ deck_committed' = FALSE
  /\ merkle_root' = << >>
  /\ draw_counter' = 0
  /\ rollover_count' = 0

Init ==
  /\ session_exists = FALSE
  /\ sessions = 0
  /\ treasury_fee_bps = 0
  /\ turn_order = << >>
  /\ current_turn_index = 0
  /\ round_active = FALSE
  /\ round_number = 0
  /\ pot_amount = 0
  /\ deck_committed = FALSE
  /\ merkle_root = << >>
  /\ draw_counter = 0
  /\ rollover_count = 0
  /\ accounts = {}
  /\ player_state = [p \in Players |-> FreshPlayerState(0)]
  /\ vault_ready = FALSE
  /\ vault = 0
  /\ treasury = 0
  /\ wallet = [p \in Players |-> InitialBalance]
  /\ supply = Cardinality(Players) * InitialBalance

(* The largest rake, in hundredths of a percent.                           *)
MaxFeeBps == 9999

Initialize(fee) ==
  /\ ~session_exists
  /\ sessions < MaxSessions
  /\ fee <= MaxFeeBps
  /\ session_exists' = TRUE
  /\ sessions' = sessions + 1
  /\ treasury_fee_bps' = fee
  /\ ClearSession
  /\ UNCHANGED <<playerVars, tokenVars>>

InitVault ==
  /\ session_exists
  /\ ~vault_ready
  /\ vault_ready' = TRUE
  /\ UNCHANGED <<sessionVars, playerVars, vault, treasury, wallet, supply>>

(* Mutant: a game is closed with a pot in the vault.                       *)
CloseGameWithPot ==
  /\ session_exists
  /\ ~round_active
  /\ session_exists' = FALSE
  /\ treasury_fee_bps' = 0
  /\ UNCHANGED sessions
  /\ ClearSession
  /\ UNCHANGED <<playerVars, tokenVars>>

CloseGame ==
  /\ session_exists
  /\ ~round_active
  /\ pot_amount = 0
  /\ session_exists' = FALSE
  /\ treasury_fee_bps' = 0
  /\ UNCHANGED sessions
  /\ ClearSession
  /\ UNCHANGED <<playerVars, tokenVars>>

-----------------------------------------------------------------------------
(* join_round, leave_game.                                                 *)

JoinRound(p, stake) ==
  LET staked == IF vault_ready THEN stake ELSE 0 IN
  /\ session_exists
  /\ stake >= MinStake
  /\ ~round_active
  /\ Len(turn_order) < MaxPlayers
  /\ p \notin Seated
  /\ p \notin accounts             \* create_account refuses an open account
  /\ wallet[p] >= staked
  /\ pot_amount + staked <= MaxU64  \* checked_add
  /\ turn_order' = Append(turn_order, p)
  /\ accounts' = accounts \cup {p}
  /\ player_state' = [player_state EXCEPT ![p] = FreshPlayerState(staked)]
  /\ pot_amount' = pot_amount + staked
  /\ wallet' = [wallet EXCEPT ![p] = @ - staked]
  /\ vault' = vault + staked
  /\ UNCHANGED <<creationVars, current_turn_index, roundVars, deckVars, rollover_count,
                 vault_ready, treasury, supply>>

LeaveBetweenRounds(p) ==
  /\ session_exists
  /\ ~round_active
  /\ p \in accounts
  /\ \E i \in 1..Len(turn_order) :
       /\ turn_order[i] = p
       /\ \A j \in 1..(i - 1) : turn_order[j] # p
       /\ turn_order' = RemoveAt(turn_order, i)
  /\ accounts' = accounts \ {p}
  /\ player_state' = [player_state EXCEPT ![p] = FreshPlayerState(0)]
  /\ UNCHANGED <<creationVars, current_turn_index, roundVars, potVars, deckVars, tokenVars>>

(* Mutant: a forfeit leaves the score of an earlier stay.                  *)
ForfeitKeepsScore(p) ==
  /\ session_exists
  /\ round_active
  /\ p \in accounts
  /\ p \in Seated
  /\ player_state' = [player_state EXCEPT ![p].is_active = FALSE,
                                          ![p].inactive_reason = BUST]
  /\ UNCHANGED <<sessionVars, accounts, tokenVars>>

ForfeitMidRound(p) ==
  /\ session_exists
  /\ round_active
  /\ p \in accounts
  /\ p \in Seated
  /\ player_state' = [player_state EXCEPT ![p].is_active = FALSE,
                                          ![p].inactive_reason = BUST,
                                          ![p].score = 0]
  /\ UNCHANGED <<sessionVars, accounts, tokenVars>>

LeaveGame(p) == LeaveBetweenRounds(p) \/ ForfeitMidRound(p)

-----------------------------------------------------------------------------
(* commit_deck, start_round.  The Groth16 proof and the Merkle tree are    *)
(* taken as sound: the root determines one shuffle of the deck.            *)

CommitDeck(deck) ==
  /\ session_exists
  /\ ~round_active
  /\ ~deck_committed
  /\ merkle_root' = deck
  /\ deck_committed' = TRUE
  /\ draw_counter' = 0
  /\ UNCHANGED <<creationVars, turnVars, roundVars, potVars, playerVars, tokenVars>>

StartRound ==
  /\ session_exists
  /\ ~round_active
  /\ deck_committed
  /\ Len(turn_order) >= 2
  /\ Seated \subseteq accounts
  /\ round_number < MaxRounds
  /\ player_state' = [p \in Players |->
                        IF p \in Seated THEN FreshPlayerState(player_state[p].staked_amount)
                        ELSE player_state[p]]
  /\ round_active' = TRUE
  /\ current_turn_index' = 0
  /\ round_number' = round_number + 1
  /\ UNCHANGED <<creationVars, turn_order, potVars, deckVars, accounts, tokenVars>>

-----------------------------------------------------------------------------
(* hit.  The card is the leaf at draw_counter; the caller may append the   *)
(* account of a target for a protocol card, and the first account that is  *)
(* another active player's is the target.  A caller who appends none draws *)
(* plainly.                                                                *)

NextCard == merkle_root[draw_counter + 1]
DrawnHand(p) == Append(player_state[p].hand, NextCard)

(* Mutant: a full hand takes another card.                                 *)
CanDrawUnbounded(p) ==
  /\ IsCurrentPlayer(p)
  /\ draw_counter < Len(merkle_root)
  /\ player_state[p].is_active

CanDraw(p) ==
  /\ IsCurrentPlayer(p)
  /\ draw_counter < Len(merkle_root)
  /\ player_state[p].is_active
  /\ Len(player_state[p].hand) < MaxHandSize       \* push_card panics when full

(* Mutant: the target need not be in the round any more.                   *)
IsAnyTarget(p, t) == t # p /\ t \in accounts

IsTarget(p, t) == t # p /\ t \in accounts /\ player_state[t].is_active

(* Mutant: the next draw deals the same card.                              *)
DrawUncounted ==
  UNCHANGED <<creationVars, turn_order, roundVars, potVars, deckVars, accounts, tokenVars>>

CountDraw ==
  /\ draw_counter' = draw_counter + 1
  /\ UNCHANGED <<creationVars, turn_order, roundVars, potVars, deck_committed, merkle_root,
                 accounts, tokenVars>>

DrawsEffect(p, effect) ==
  /\ CanDraw(p)
  /\ ~IsBust(DrawnHand(p))
  /\ NextCard = [card_type |-> PROTOCOL, value |-> effect]

HitBust(p) ==
  /\ CanDraw(p)
  /\ \E i \in 1..MaxHandSize :
       /\ BustsAt(DrawnHand(p), i)
       /\ player_state' = [player_state EXCEPT ![p].hand = DrawnHand(p),
                                               ![p].is_active = FALSE,
                                               ![p].inactive_reason = BUST,
                                               ![p].bust_card_value = DrawnHand(p)[i].value]
  /\ AdvanceTurn
  /\ CountDraw

HitPlain(p) ==
  /\ CanDraw(p)
  /\ ~IsBust(DrawnHand(p))
  /\ player_state' = [player_state EXCEPT ![p].hand = DrawnHand(p)]
  /\ UNCHANGED current_turn_index
  /\ CountDraw

HitRugPull(p, t) ==
  /\ DrawsEffect(p, RUG_PULL)
  /\ IsTarget(p, t)
  /\ \E i \in 1..MaxHandSize :
       /\ IsHighestAlpha(player_state[t].hand, i)
       /\ player_state' = [player_state EXCEPT ![p].hand = DrawnHand(p),
                                               ![t].hand = RemoveAt(@, i)]
  /\ UNCHANGED current_turn_index
  /\ CountDraw

(* The stolen card is the target's last.  It is pushed without a second    *)
(* bust check, and the push panics when the drawn card filled the hand.    *)
HitVampireAttack(p, t) ==
  /\ DrawsEffect(p, VAMPIRE_ATTACK)
  /\ IsTarget(p, t)
  /\ player_state[t].hand # << >>
  /\ Len(DrawnHand(p)) < MaxHandSize
  /\ player_state' = [player_state EXCEPT
                        ![p].hand = Append(DrawnHand(p), Last(player_state[t].hand)),
                        ![t].hand = Front(@)]
  /\ UNCHANGED current_turn_index
  /\ CountDraw

Hit(p, t) == HitBust(p) \/ HitPlain(p) \/ HitRugPull(p, t) \/ HitVampireAttack(p, t)

-----------------------------------------------------------------------------
(* stay, burn_second_chance, burn_scry.                                    *)

Stay(p) ==
  /\ IsCurrentPlayer(p)
  /\ player_state[p].is_active
  /\ player_state' = [player_state EXCEPT
                        ![p].score = CalculateHandScore(player_state[p].hand),
                        ![p].is_active = FALSE,
                        ![p].inactive_reason = STAYED]
  /\ AdvanceTurn
  /\ UNCHANGED <<creationVars, turn_order, roundVars, potVars, deckVars, accounts, tokenVars>>

(* Mutant: the player pays and the mint's supply does not fall.            *)
BurnUncounted(p, cost) ==
  /\ wallet[p] >= cost
  /\ wallet' = [wallet EXCEPT ![p] = @ - cost]
  /\ UNCHANGED <<vault_ready, vault, treasury, supply>>

Burn(p, cost) ==
  /\ wallet[p] >= cost
  /\ wallet' = [wallet EXCEPT ![p] = @ - cost]
  /\ supply' = supply - cost
  /\ UNCHANGED <<vault_ready, vault, treasury>>

BurnSecondChance(p) ==
  /\ session_exists
  /\ round_active
  /\ p \in accounts
  /\ player_state[p].inactive_reason = BUST
  /\ ~player_state[p].has_used_second_chance
  /\ Burn(p, SecondChanceCost)
  /\ player_state' = [player_state EXCEPT ![p].hand = PopCard(@),
                                          ![p].is_active = TRUE,
                                          ![p].inactive_reason = ACTIVE,
                                          ![p].bust_card_value = 0,
                                          ![p].has_used_second_chance = TRUE]
  /\ UNCHANGED <<sessionVars, accounts>>

BurnScry(p) ==
  /\ IsCurrentPlayer(p)
  /\ player_state[p].is_active
  /\ ~player_state[p].has_used_scry
  /\ Burn(p, ScryCost)
  /\ player_state' = [player_state EXCEPT ![p].has_used_scry = TRUE]
  /\ UNCHANGED <<sessionVars, accounts>>

-----------------------------------------------------------------------------
(* end_round.  The winner is the first seat, in turn order, of the highest *)
(* score among the players who stayed.                                     *)

StayedSeats == {i \in 1..Len(turn_order) :
                  player_state[turn_order[i]].inactive_reason = STAYED}

(* Mutant: the first player who stayed wins, whatever the scores.          *)
IsFirstStayedSeat(w) == w \in StayedSeats /\ \A i \in StayedSeats : w <= i

IsWinningSeat(w) ==
  /\ w \in StayedSeats
  /\ \A i \in StayedSeats :
       /\ player_state[turn_order[i]].score <= player_state[turn_order[w]].score
       /\ i < w => player_state[turn_order[i]].score < player_state[turn_order[w]].score

CanEndRound ==
  /\ session_exists
  /\ round_active
  /\ Seated \subseteq accounts
  /\ \A p \in Seated : ~player_state[p].is_active

(* Mutant: the ended round's deck stays committed.                         *)
FinishRoundKeepsDeck ==
  /\ round_active' = FALSE
  /\ draw_counter' = 0
  /\ UNCHANGED <<creationVars, turnVars, round_number, deck_committed, merkle_root,
                 playerVars, vault_ready, supply>>

FinishRound ==
  /\ round_active' = FALSE
  /\ deck_committed' = FALSE
  /\ draw_counter' = 0
  /\ UNCHANGED <<creationVars, turnVars, round_number, merkle_root, playerVars,
                 vault_ready, supply>>

Rake == (pot_amount * treasury_fee_bps) \div 10000

(* The checked product of pot and fee.                                     *)
FeeFits == pot_amount * treasury_fee_bps <= MaxU64

EndRoundWithWinner(w) ==
  /\ CanEndRound
  /\ IsWinningSeat(w)
  /\ FeeFits
  /\ vault >= pot_amount
  /\ treasury' = treasury + Rake
  /\ wallet' = [wallet EXCEPT ![turn_order[w]] = @ + (pot_amount - Rake)]
  /\ vault' = vault - pot_amount
  /\ pot_amount' = 0
  /\ rollover_count' = 0
  /\ FinishRound

(* Mutant: the rake is computed before anybody is known to have stayed.    *)
EndRoundRolloverAfterFee ==
  /\ CanEndRound
  /\ StayedSeats = {}
  /\ FeeFits
  /\ rollover_count < RolloverCap
  /\ rollover_count' = rollover_count + 1
  /\ UNCHANGED <<pot_amount, vault, treasury, wallet>>
  /\ FinishRound

EndRoundRollover ==
  /\ CanEndRound
  /\ StayedSeats = {}
  /\ rollover_count < RolloverCap
  /\ rollover_count' = rollover_count + 1
  /\ UNCHANGED <<pot_amount, vault, treasury, wallet>>
  /\ FinishRound

(* Mutant: the round at the cap is neither rolled over nor swept.          *)
EndRoundSweepAboveCap ==
  /\ CanEndRound
  /\ StayedSeats = {}
  /\ rollover_count > RolloverCap
  /\ vault >= pot_amount
  /\ treasury' = treasury + pot_amount
  /\ vault' = vault - pot_amount
  /\ pot_amount' = 0
  /\ rollover_count' = 0
  /\ UNCHANGED wallet
  /\ FinishRound

EndRoundSweep ==
  /\ CanEndRound
  /\ StayedSeats = {}
  /\ rollover_count >= RolloverCap
  /\ vault >= pot_amount
  /\ treasury' = treasury + pot_amount
  /\ vault' = vault - pot_amount
  /\ pot_amount' = 0
  /\ rollover_count' = 0
  /\ UNCHANGED wallet
  /\ FinishRound

EndRound == (\E w \in 1..Len(turn_order) : EndRoundWithWinner(w))
            \/ EndRoundRollover \/ EndRoundSweep

-----------------------------------------------------------------------------
Next ==
  \/ \E fee \in Fees : Initialize(fee)
  \/ InitVault
  \/ CloseGame
  \/ \E p \in Players, stake \in Stakes : JoinRound(p, stake)
  \/ \E p \in Players : LeaveGame(p)
  \/ \E deck \in Decks : CommitDeck(deck)
  \/ StartRound
  \/ \E p, t \in Players : Hit(p, t)
  \/ \E p \in Players : Stay(p)
  \/ \E p \in Players : BurnSecondChance(p)
  \/ \E p \in Players : BurnScry(p)
  \/ EndRound

Spec == Init /\ [][Next]_vars

-----------------------------------------------------------------------------
(* Invariants.                                                             *)

CreationTypeOK ==
  /\ session_exists \in BOOLEAN
  /\ sessions \in 0..MaxSessions
  /\ treasury_fee_bps \in 0..MaxFeeBps

TurnTypeOK ==
  /\ turn_order \in Seq(Players)
  /\ Len(turn_order) <= MaxPlayers
  /\ current_turn_index \in Nat

RoundTypeOK ==
  /\ round_active \in BOOLEAN
  /\ round_number \in 0..MaxRounds

PotTypeOK ==
  /\ pot_amount \in 0..MaxU64
  /\ rollover_count \in 0..RolloverCap

DeckTypeOK ==
  /\ deck_committed \in BOOLEAN
  /\ merkle_root \in Decks \cup {<< >>}
  /\ draw_counter \in Nat

PlayerTypeOK ==
  /\ accounts \subseteq Players
  /\ player_state \in [Players -> PlayerState]

TokenTypeOK ==
  /\ vault_ready \in BOOLEAN
  /\ vault \in Nat /\ treasury \in Nat
  /\ wallet \in [Players -> Nat]
  /\ supply \in Int

(* Type invariant of every account the program reads or writes: no sum     *)
(* leaves its u64, no hand its slots, no rollover count its cap.           *)
TypeOK ==
  /\ CreationTypeOK
  /\ TurnTypeOK
  /\ RoundTypeOK
  /\ PotTypeOK
  /\ DeckTypeOK
  /\ PlayerTypeOK
  /\ TokenTypeOK

(* A round is only played by a session with a committed deck, at least two *)
(* seats and a turn index inside them; every seat is a different wallet    *)
(* with an open PlayerState.  join_round, leave_game and close_game change *)
(* these pieces one at a time, and hit, stay and end_round rely on all.    *)
RoundIsSeated ==
  /\ round_active => /\ session_exists /\ deck_committed
                     /\ Len(turn_order) >= 2
                     /\ current_turn_index < Len(turn_order)
  /\ \A i, j \in 1..Len(turn_order) : turn_order[i] = turn_order[j] => i = j
  /\ Seated \subseteq accounts

(* The vault always holds exactly the pot: join_round books what it        *)
(* transfers, end_round pays what it clears, rounding included, and a game *)
(* is only closed with nothing left in the vault.                          *)
VaultBacksPot ==
  /\ vault = pot_amount
  /\ ~session_exists => pot_amount = 0

(* No instruction creates $FLIP or loses it: wallets, vault and treasury   *)
(* add up to the supply, which only the burns lower.                       *)
SupplyConserved ==
  vault + treasury + MapThenSumSet(LAMBDA p : wallet[p], Players) = supply

(* The flags of a PlayerState agree however hit, stay, leave_game and      *)
(* burn_second_chance follow one another: active means no reason, a score  *)
(* is held only by a player who stayed, a bust value by one who busted.    *)
StatusCoherent ==
  \A p \in accounts :
    LET ps == player_state[p] IN
    /\ ps.is_active <=> ps.inactive_reason = ACTIVE
    /\ ps.score > 0 => ps.inactive_reason = STAYED
    /\ ps.bust_card_value > 0 => ps.inactive_reason = BUST

(* A score set by stay stays true of the hand: no later rug pull, vampire  *)
(* attack or second chance of the round touches the hand of a player who   *)
(* stayed without taking the score with it.                                *)
StayedScoreStands ==
  \A p \in accounts :
    player_state[p].inactive_reason = STAYED =>
      player_state[p].score = CalculateHandScore(player_state[p].hand)

(* No card is in play twice: of each card, the seated hands together hold  *)
(* at most as many as the deck has dealt this round, through thefts, rug   *)
(* pulls and second chances.  (An account that outlived a closed session   *)
(* can still be robbed: the claim is about games that left none behind.)   *)
CardsComeFromDeck ==
  LET Copies(s, n, c) == Cardinality({i \in 1..n : s[i] = c})
  IN  round_active /\ accounts \subseteq Seated =>
        \A c \in {merkle_root[i] : i \in 1..Len(merkle_root)} :
          MapThenSumSet(LAMBDA p : Copies(player_state[p].hand, Len(player_state[p].hand), c),
                        Seated)
            <= Copies(merkle_root, draw_counter, c)

(* Once every seated player is out, end_round is never blocked by a        *)
(* missing account, a short vault or a score nobody holds.  One thing      *)
(* blocks it, and for as long as the players who stayed keep their seat in *)
(* the round: a pot whose product with the fee leaves its u64.  Without a  *)
(* player who stayed the pot is rolled over or swept, whatever its size.   *)
EndRoundAvailable ==
  round_active /\ (\A p \in Seated : ~player_state[p].is_active) =>
    (ENABLED EndRound <=>
       \/ pot_amount * treasury_fee_bps <= MaxU64
       \/ \A p \in Seated : player_state[p].inactive_reason # STAYED)

(* A player goes on with a hand that is a bust in one case only: the last  *)
(* card was stolen by the vampire attack drawn just before it, and the     *)
(* hand without it is none.  No second chance, theft, rug pull or forfeit  *)
(* in any order hides a repeated value deeper in a hand, where giving up   *)
(* the last card would not undo it.                                        *)
HiddenBustIsStolen ==
  \A p \in accounts :
    LET hand == player_state[p].hand IN
    player_state[p].inactive_reason # BUST /\ IsBust(hand) =>
      /\ ~IsBust(Front(hand))
      /\ hand[Len(hand) - 1] = [card_type |-> PROTOCOL, value |-> VAMPIRE_ATTACK]

-----------------------------------------------------------------------------
(* What a step may never do.                                               *)

(* A hand only grows in its owner's turn, while the owner is active, and   *)
(* only by drawing; an inactive player's hand only shrinks by the owner's  *)
(* own second chance.  Thefts and rug pulls reach no one who is out.       *)
HandsMoveInTurn ==
  [][\A p \in Seated :
       round_active /\ round_active' =>
         /\ Len(player_state'[p].hand) > Len(player_state[p].hand) =>
              /\ IsCurrentPlayer(p) /\ player_state[p].is_active
              /\ draw_counter' = draw_counter + 1
         /\ ~player_state[p].is_active /\ ~player_state'[p].is_active =>
              player_state'[p].hand = player_state[p].hand]_vars

(* A player who is out comes back into the round at most once, only from a *)
(* bust, and only by burning the price of the second chance.               *)
ComebackIsPaid ==
  [][\A p \in accounts :
       round_active /\ round_active' /\ ~player_state[p].is_active /\ player_state'[p].is_active =>
         /\ player_state[p].inactive_reason = BUST
         /\ ~player_state[p].has_used_second_chance /\ player_state'[p].has_used_second_chance
         /\ supply' = supply - SecondChanceCost]_vars

(* The pot leaves the vault only when a round ends with every player out,  *)
(* all of it at once: to one player who stayed and whose hand no other     *)
(* player who stayed beats, less the rake, or to the treasury when nobody  *)
(* stayed and the rollovers have reached the cap.                          *)
PotGoesToBestHand ==
  [][pot_amount' < pot_amount =>
       LET stayed == {p \in Seated : player_state[p].inactive_reason = STAYED}
           paid == {p \in Players : wallet'[p] # wallet[p]}
           Worth(p) == CalculateHandScore(player_state[p].hand)
       IN /\ pot_amount' = 0
          /\ \A p \in Seated : ~player_state[p].is_active
          /\ paid = {} => stayed = {} /\ rollover_count = RolloverCap
          /\ \A p \in paid :
               /\ p \in stayed
               /\ \A q \in stayed : Worth(q) <= Worth(p)
               /\ wallet'[p] = wallet[p] + pot_amount - (treasury' - treasury)
          /\ Cardinality(paid) <= 1]_vars

-----------------------------------------------------------------------------
(* The program implements the lifecycle its services rely on.              *)

Lifecycle == INSTANCE RoundLifecycle WITH player_count <- Len(turn_order)

(* Every instruction is a step of RoundLifecycle or leaves it unchanged.   *)
ImplementsLifecycle == Lifecycle!Spec
=============================================================================
