------------------------------- MODULE Scripts -------------------------------
(***************************************************************************)
(* The operator's scripts: four devnet smoke tests, each a fixed list of   *)
(* transactions with assertions in between over a game of its own and a    *)
(* shuffle nobody chose, and the two tools that create the game everybody  *)
(* plays and open its vault.  A script runs alone against the program and  *)
(* the bounty board.                                                       *)
(*                                                                         *)
(* A step sends one transaction.  It is taken only when the conditions in  *)
(* "when" hold of its signer; an "again" step is repeated while they hold; *)
(* a "refused" step is a negative test.  What a script asserts about the   *)
(* accounts after a transaction is in Asserted; what it asserts about      *)
(* compute units and rent is left out.                                     *)
(***************************************************************************)
EXTENDS Bounty

CONSTANTS
  A, B,           \* the two ephemeral players
  Names,          \* the scripts that are run
  MintAmount,     \* MINT_AMOUNT
  Unreachable     \* the HIGH_SCORE threshold no single card meets (100 000)

VARIABLES
  script,   \* the script that runs
  step,     \* the index of its next step
  cursor,   \* the dealer object's own count of revealed cards
  outcome   \* "running", "passed", "failed" (fail, or a refusal) or "crashed"

scriptVars == <<script, step, cursor, outcome>>

Operator == "operator"   \* the CLI wallet: authority, treasury, fee payer
Anybody == "anybody"     \* a placeholder the program never reads

Tx(ix, who) ==
  [ix |-> ix, by |-> who, arg |-> Anybody, when |-> {}, again |-> FALSE, refused |-> FALSE]
With(tx, arg) == [tx EXCEPT !.arg = arg]
When(tx, facts) == [tx EXCEPT !.when = facts]
While(tx, facts) == [tx EXCEPT !.when = facts, !.again = TRUE]
Rejected(tx) == [tx EXCEPT !.refused = TRUE]

-----------------------------------------------------------------------------
(* The four smoke tests, phase by phase.                                   *)

Opening == <<Tx("initialize", Operator)>>
Vault == <<Tx("init_vault", Operator), Tx("mint_to", Operator)>>
Seating == <<Tx("join_round", A), Tx("join_round", B)>>
Dealing == <<Tx("commit_deck", Operator), Tx("start_round", Operator)>>
HitThenStay(p) == <<Tx("hit", p), When(Tx("stay", p), {"active"})>>

SmokeTable == Opening \o Seating \o Dealing
SmokeRound == HitThenStay(A) \o HitThenStay(B)

BountyTable ==
  Opening \o <<Tx("init_bounty_board", Operator),
               With(Tx("add_bounty", Operator), [type |-> SURVIVOR, reward |-> 1]),
               With(Tx("add_bounty", Operator), [type |-> HIGH_SCORE, reward |-> Unreachable])>>
    \o Seating \o Dealing
BountyRound ==
  <<Tx("hit", A), Tx("stay", A), Rejected(With(Tx("claim_bounty", A), 1)),
    Tx("hit", B), Tx("stay", B)>>

TokensTable == Opening \o Vault \o Seating
TokensRound == Dealing \o <<Tx("hit", A), Tx("stay", A), Tx("hit", B), Tx("stay", B)>>

BurnsTable == Opening \o Vault \o Seating
BurnsScry == Dealing \o <<Tx("hit", A), Tx("burn_scry", A)>>
BurnsBust ==
  <<While(Tx("hit", A), {"active", "has_room"}), When(Tx("burn_second_chance", A), {"bust"})>>
BurnsWrapUp ==
  <<When(Tx("hit", B), {"active", "on_turn", "new"}),
    When(Tx("stay", B), {"active", "on_turn"}),
    When(Tx("stay", A), {"active", "on_turn"}),
    When(Tx("stay", B), {"active", "on_turn"})>>

(* How a smoke test ends: the round is settled and the table cleared.  Two *)
(* of them name the operator's own token account for the payout.           *)
Settle == Tx("end_round", Operator)
SettleToOperator == With(Settle, Operator)
Ending(settle) ==
  <<settle, Tx("leave_game", B), Tx("leave_game", A), Tx("close_game", Operator)>>
(* Mutant: the board is left behind.                                       *)
BountyEndingKeepsBoard ==
  <<Settle, With(Tx("claim_bounty", A), 1), Rejected(With(Tx("claim_bounty", B), 2)),
    Tx("leave_game", B), Tx("leave_game", A), Tx("close_game", Operator)>>
BountyEnding ==
  <<Settle, With(Tx("claim_bounty", A), 1), Rejected(With(Tx("claim_bounty", B), 2)),
    Tx("leave_game", B), Tx("leave_game", A),
    Tx("close_bounty_board", Operator), Tx("close_game", Operator)>>

(* The tools leave alone what is already there, so that the operator can   *)
(* run them again.                                                         *)
InitGameTool == <<When(Tx("initialize", Operator), {"no_game"})>>
InitVaultTool == <<When(Tx("init_vault", Operator), {"no_vault"})>>

Steps ==
  [smoke_test |-> SmokeTable \o SmokeRound \o Ending(Settle),
   smoke_test_bounty |-> BountyTable \o BountyRound \o BountyEnding,
   smoke_test_tokens |-> TokensTable \o TokensRound \o Ending(SettleToOperator),
   smoke_test_burns |->
     BurnsTable \o BurnsScry \o BurnsBust \o BurnsWrapUp \o Ending(SettleToOperator),
   tools |-> InitGameTool \o InitVaultTool]

ASSUME ScriptAssumption ==
  /\ {A, B} \subseteq Players /\ A # B
  /\ Names \subseteq DOMAIN Steps
  /\ MinStake \in Stakes /\ MintAmount \in Nat

-----------------------------------------------------------------------------
(* One transaction: an instruction of the program or the board, or the     *)
(* token program's mint_to for both players at once.                       *)

MintTo ==
  /\ wallet' = [p \in Players |-> wallet[p] + MintAmount]
  /\ supply' = supply + Cardinality(Players) * MintAmount
  /\ UNCHANGED <<sessionVars, playerVars, vault_ready, vault, treasury>>

(* A payout goes to the account the caller passes, which must be the       *)
(* winner's own.                                                           *)
PaysTo(account) ==
  pot_amount > 0 => \A w \in StayedSeats : IsWinningSeat(w) => turn_order[w] = account

(* hit names the leaf the dealer object revealed; no target is passed.     *)
HitOf(p) == cursor = draw_counter /\ (HitBust(p) \/ HitPlain(p))

GameTx(tx) ==
  \/ tx.ix = "initialize" /\ \E fee \in Fees : Initialize(fee)
  \/ tx.ix = "init_vault" /\ InitVault
  \/ tx.ix = "mint_to" /\ MintTo
  \/ tx.ix = "join_round" /\ JoinRound(tx.by, MinStake)
  \/ tx.ix = "commit_deck" /\ \E deck \in Decks : CommitDeck(deck)
  \/ tx.ix = "start_round" /\ StartRound
  \/ tx.ix = "hit" /\ HitOf(tx.by)
  \/ tx.ix = "stay" /\ Stay(tx.by)
  \/ tx.ix = "burn_scry" /\ BurnScry(tx.by)
  \/ tx.ix = "burn_second_chance" /\ BurnSecondChance(tx.by)
  \/ tx.ix = "end_round" /\ PaysTo(tx.arg) /\ EndRound
  \/ tx.ix = "leave_game" /\ LeaveGame(tx.by)
  \/ tx.ix = "close_game" /\ CloseGame

BoardTx(tx) ==
  \/ tx.ix = "init_bounty_board" /\ InitBountyBoard
  \/ tx.ix = "add_bounty" /\ AddBounty(tx.arg.type, tx.arg.reward)
  \/ tx.ix = "claim_bounty" /\ ClaimBounty(tx.by, tx.arg)
  \/ tx.ix = "close_bounty_board" /\ CloseBountyBoard

Accepted(tx) == (GameTx(tx) /\ UNCHANGED bountyVars) \/ BoardTx(tx)
Errs(tx) == ~ENABLED Accepted(tx)

-----------------------------------------------------------------------------
(* What a script reads back and asserts after a transaction.               *)

BurnsExactly(p, cost) ==
  supply' = supply - cost /\ wallet'[p] = wallet[p] - cost

SmokeAsserts(tx) ==
  /\ tx.ix = "initialize" => turn_order' = << >>
  /\ tx.ix = "join_round" /\ tx.by = B => Len(turn_order') = 2
  /\ tx.ix = "start_round" => round_active' /\ current_turn_index' = 0
  /\ tx.ix = "hit" =>
       /\ tx.by = A => player_state'[A].hand = <<NextCard>>
       /\ tx.by = B => current_turn_index = 1
  /\ tx.ix = "end_round" => ~round_active' /\ ~deck_committed' /\ draw_counter' = 0
  /\ tx.ix = "leave_game" =>
       tx.by \notin accounts' /\ turn_order' = SelectSeq(turn_order, LAMBDA p : p # tx.by)
  /\ tx.ix = "close_game" => ~session_exists'

BountyAsserts(tx) ==
  /\ tx.ix = "init_bounty_board" => bounties' = << >>
  /\ tx.ix = "add_bounty" => Last(bounties').is_active /\ Last(bounties').bounty_type = tx.arg.type
  /\ tx.ix = "claim_bounty" =>
       ~bounties'[tx.arg].is_active /\ bounties'[tx.arg].claimed_by = tx.by /\ bounties'[2].is_active
  /\ tx.ix = "close_bounty_board" => ~board_exists'

TokensAsserts(tx) ==
  /\ tx.ix = "init_vault" => vault' = 0
  /\ tx.ix = "mint_to" => wallet' = [p \in Players |-> MintAmount]
  /\ tx.ix = "join_round" /\ tx.by = B =>
       /\ vault' = 2 * MinStake /\ pot_amount' = vault'
       /\ wallet' = [p \in Players |-> MintAmount - MinStake]
  /\ tx.ix = "end_round" =>
       /\ vault' = 0 /\ pot_amount' = 0 /\ ~round_active'
       /\ wallet' = wallet /\ treasury' = treasury + 2 * MinStake
  /\ tx.ix = "close_game" => ~session_exists'

BurnsAsserts(tx) ==
  /\ tx.ix = "hit" /\ tx.by = A /\ ~tx.again => player_state'[A].is_active
  /\ tx.ix = "burn_scry" =>
       /\ BurnsExactly(tx.by, ScryCost)
       /\ player_state'[tx.by].has_used_scry
       /\ Len(player_state'[tx.by].hand) = Len(player_state[tx.by].hand)
  /\ tx.ix = "burn_second_chance" =>
       /\ BurnsExactly(tx.by, SecondChanceCost)
       /\ player_state'[tx.by].is_active /\ player_state'[tx.by].has_used_second_chance

Asserted(tx) ==
  /\ script = "smoke_test" => SmokeAsserts(tx)
  /\ script = "smoke_test_bounty" => BountyAsserts(tx)
  /\ script = "smoke_test_tokens" => TokensAsserts(tx)
  /\ script = "smoke_test_burns" => BurnsAsserts(tx)

-----------------------------------------------------------------------------
Current == Steps[script][step]

Holds(tx) ==
  LET ps == player_state[tx.by] IN
  /\ "no_game" \in tx.when => ~session_exists
  /\ "no_vault" \in tx.when => ~vault_ready
  /\ "active" \in tx.when => ps.is_active
  /\ "bust" \in tx.when => ~ps.is_active
  /\ "has_room" \in tx.when => Len(ps.hand) < MaxHandSize
  /\ "new" \in tx.when => ps.hand = << >>
  /\ "on_turn" \in tx.when => turn_order[current_turn_index + 1] = tx.by

ScriptInit ==
  /\ Init /\ BoardInit
  /\ script \in Names /\ step = 1 /\ cursor = 0 /\ outcome = "running"

GoOn ==
  /\ step' = step + 1
  /\ outcome' = IF step = Len(Steps[script]) THEN "passed" ELSE "running"

(* The dealer object deals from the first leaf after a commit.             *)
CountReveal(tx) ==
  cursor' = CASE tx.ix = "commit_deck" -> 0 [] tx.ix = "hit" -> cursor + 1 [] OTHER -> cursor

Succeed ==
  /\ outcome = "running" /\ Holds(Current)
  /\ Accepted(Current)
  /\ CountReveal(Current)
  /\ IF Asserted(Current) /\ ~Current.refused
     THEN IF Current.again THEN UNCHANGED <<step, outcome>> ELSE GoOn
     ELSE outcome' = "failed" /\ UNCHANGED step
  /\ UNCHANGED script

Refuse ==
  /\ outcome = "running" /\ Holds(Current)
  /\ Errs(Current)
  /\ IF Current.refused THEN GoOn ELSE outcome' = "failed" /\ UNCHANGED step
  /\ UNCHANGED <<vars, bountyVars, script, cursor>>

Skip ==
  /\ outcome = "running" /\ ~Holds(Current)
  /\ GoOn
  /\ UNCHANGED <<vars, bountyVars, script, cursor>>

(* sendTx throws, before the transaction lands or after.                   *)
Crash ==
  /\ outcome = "running" /\ Holds(Current)
  /\ outcome' = "crashed"
  /\ (Accepted(Current) \/ UNCHANGED <<vars, bountyVars>>)
  /\ UNCHANGED <<script, step, cursor>>

(* A smoke test starts over with a game id of its own; only the tools come *)
(* back to the game they left.                                             *)
Rerun ==
  /\ outcome \in {"crashed", "passed"} /\ script = "tools"
  /\ outcome' = "running" /\ step' = 1
  /\ UNCHANGED <<vars, bountyVars, script, cursor>>

ScriptNext == Succeed \/ Refuse \/ Skip \/ Crash \/ Rerun

ScriptSpec == ScriptInit /\ [][ScriptNext]_<<vars, bountyVars, scriptVars>>

-----------------------------------------------------------------------------
(* Whatever the shuffle, no transaction of a script is refused that it     *)
(* relies on, no negative test is accepted and no assertion fails, with    *)
(* one exception: the two scripts that play for a pot hand end_round the   *)
(* operator's token account, and the winner's is asked for.                *)
OnlyPayoutFails ==
  outcome = "failed" => Current.ix = "end_round" /\ pot_amount > 0 /\ Current.arg = Operator

(* A smoke test that prints PASSED has given everything back: the game,    *)
(* its board and both players' accounts are closed and the vault is empty. *)
(* (A vault account stays open.)                                           *)
PassedLeavesNothing ==
  outcome = "passed" /\ script # "tools" =>
    ~session_exists /\ accounts = {} /\ ~board_exists /\ vault = 0
=============================================================================
