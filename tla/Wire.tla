-------------------------------- MODULE Wire --------------------------------
(***************************************************************************)
(* What the TypeScript client and the program write for each other: the    *)
(* instructions the client builds and the handlers take apart, the         *)
(* accounts the program lays out and the client decodes, and the numbers   *)
(* typed by people that end up in a u64.                                   *)
(*                                                                         *)
(* A byte string is a sequence of chunks: a value with the bytes it takes. *)
(* A reader gets a value only where a chunk starts and with its width;     *)
(* anything else is GARBLED.  U8, U16 and U64 are the integers' moduli.    *)
(***************************************************************************)
EXTENDS Cards

CONSTANTS U8, U16, U64, FLIP_SCALE, MIN_STAKE, DEFAULT_AMOUNT_WHOLE

ASSUME WidthAssumption == {U8, U16, U64} \subseteq Nat \ {0} /\ FLIP_SCALE \in Nat \ {0}

(* Numbers that nothing is stored as: no chunk here, no fee given.         *)
GARBLED == U64
NoFee == U16

Chunk(width, value) == [width |-> width, value |-> value]
Byte(v) == Chunk(1, v % U8)
u16Le(v) == Chunk(2, v % U16)
u64Le(v) == Chunk(8, v % U64)

(* Where the i-th chunk of a byte string starts.                           *)
StartOf(bytes, i) == MapThenSumSet(LAMBDA j : bytes[j].width, 1..(i - 1))
Size(bytes) == StartOf(bytes, Len(bytes) + 1)

ReadAt(bytes, at, width) ==
  LET here == {i \in DOMAIN bytes : StartOf(bytes, i) = at /\ bytes[i].width = width}
  IN  IF here = {} THEN GARBLED ELSE bytes[CHOOSE i \in here : TRUE].value

-----------------------------------------------------------------------------
(* Numbers people type: blank, decimal digits that denote n, or else.      *)
Invalid == U64

ParseUnbounded(text) == IF text.form = "digits" THEN text.n ELSE Invalid   \* mutant

parseU64(text) ==
  IF text.form = "digits" /\ text.n < U64 THEN text.n ELSE Invalid

(* The stake typed in whole $FLIP, as the join dialog turns it into base   *)
(* units.                                                                  *)
parseStakeInput(text) ==
  LET whole == parseU64(text) IN
  IF whole = Invalid THEN Invalid
  ELSE IF whole * FLIP_SCALE >= U64 \/ whole * FLIP_SCALE < MIN_STAKE THEN Invalid
  ELSE whole * FLIP_SCALE

(* mint-test-flip: --to and --amount, the latter in whole $FLIP.           *)
parseCliArgs(args) ==
  LET whole == IF args.amount.form = "absent" THEN DEFAULT_AMOUNT_WHOLE
               ELSE parseU64(args.amount)
  IN  IF args.to = Invalid \/ whole = 0 THEN Invalid ELSE whole
amountBaseUnits(args) ==
  LET whole == parseCliArgs(args) IN
  IF whole = Invalid \/ whole * FLIP_SCALE >= U64 THEN Invalid ELSE whole * FLIP_SCALE

-----------------------------------------------------------------------------
(* Addresses the client derives: the seeds stand for the address.          *)
deriveGamePda(gameId) == <<"game", u64Le(gameId)>>
derivePlayerPda(gameId, player) == <<"player", u64Le(gameId), player>>
deriveVaultPda(session) == <<"vault", session>>
deriveBountyPda(session) == <<"bounty", session>>

(* Account metas: an account with the privileges it is passed with.        *)
Meta(who, signer, writable) == [account |-> who, signer |-> signer, writable |-> writable]
WS(who) == Meta(who, TRUE, TRUE)
W(who) == Meta(who, FALSE, TRUE)
RS(who) == Meta(who, TRUE, FALSE)
R(who) == Meta(who, FALSE, FALSE)
Each(Role(_), n) == [i \in 1..n |-> Role(<<"player_state", i>>)]

buildIx(data, accounts) == [data |-> data, accounts |-> accounts]

(* The builders, in the order of their discriminators.                     *)
getInitializeInstruction(a) ==
  buildIx(<<Byte(0), u64Le(a.game_id), Byte(a.bump), Byte(a.vault_bump)>>
            \o IF a.fee = NoFee THEN << >> ELSE <<u16Le(a.fee)>>,
          <<WS("authority"), W("game_session"), R("house"), R("dealer"), R("treasury"),
            R("token_mint"), R("system_program")>>)
getCommitDeckInstruction(a) ==
  buildIx(<<Byte(1), Chunk(32, a.root), Chunk(64, a.a), Chunk(128, a.b), Chunk(64, a.c)>>,
          <<W("game_session"), RS("dealer")>>)
getJoinRoundInstruction(a) ==
  buildIx(<<Byte(2), Byte(a.bump), u64Le(a.stake)>>,
          <<W("game_session"), W("player_state"), WS("player"), R("system_program"),
            W("player_token_account"), W("vault"), R("token_program")>>)
getStartRoundInstruction(a) ==
  buildIx(<<Byte(3)>>, <<W("game_session"), RS("authority")>> \o Each(W, a.players))
getHitInstruction(a) ==
  buildIx(<<Byte(4), Byte(a.value), Byte(a.card_type), Byte(a.suit)>>
            \o [i \in 1..7 |-> Chunk(32, i)] \o <<Byte(a.leaf_index)>>,
          <<W("game_session"), W("player_state"), RS("player")>> \o Each(W, a.players))
getStayInstruction(a) ==
  buildIx(<<Byte(5)>>, <<W("game_session"), W("player_state"), RS("player")>>)
getEndRoundInstruction(a) ==
  buildIx(<<Byte(6)>>,
          <<W("game_session"), RS("caller"), W("vault"), W("winner_token_account"),
            W("treasury_token_account"), R("token_program")>> \o Each(R, a.players))
getCloseGameInstruction(a) ==
  buildIx(<<Byte(7)>>, <<W("game_session"), RS("authority"), W("recipient")>>)
getLeaveGameInstruction(a) ==
  buildIx(<<Byte(8)>>, <<W("game_session"), W("player_state"), RS("player"), W("recipient")>>)
BurnAccounts == <<R("game_session"), W("player_state"), RS("player"),
                  W("player_token_account"), W("token_mint"), R("token_program")>>
getBurnSecondChanceInstruction(a) == buildIx(<<Byte(9)>>, BurnAccounts)
getBurnScryInstruction(a) == buildIx(<<Byte(10)>>, BurnAccounts)
getInitVaultInstruction(a) ==
  buildIx(<<Byte(11)>>, <<WS("payer"), R("game_session"), W("vault"), R("token_mint"),
                          R("system_program"), R("token_program")>>)
getInitBountyBoardInstruction(a) ==
  buildIx(<<Byte(12), Byte(a.bump)>>,
          <<WS("payer"), R("game_session"), W("bounty_board"), R("system_program")>>)
AddBountySwapped(a) ==                                         \* mutant
  buildIx(<<Byte(13), u64Le(a.reward), Byte(a.bounty_type)>>,
          <<RS("authority"), R("game_session"), W("bounty_board")>>)
getAddBountyInstruction(a) ==
  buildIx(<<Byte(13), Byte(a.bounty_type), u64Le(a.reward)>>,
          <<RS("authority"), R("game_session"), W("bounty_board")>>)
getClaimBountyInstruction(a) ==
  buildIx(<<Byte(14), Byte(a.index)>>,
          <<RS("player"), R("game_session"), R("player_state"), W("bounty_board")>>)
getCloseBountyBoardInstruction(a) ==
  buildIx(<<Byte(15)>>,
          <<W("bounty_board"), RS("authority"), R("game_session"), W("recipient")>>)

Build(kind, a) ==
  CASE kind = "initialize" -> getInitializeInstruction(a)
    [] kind = "commit_deck" -> getCommitDeckInstruction(a)
    [] kind = "join_round" -> getJoinRoundInstruction(a)
    [] kind = "start_round" -> getStartRoundInstruction(a)
    [] kind = "hit" -> getHitInstruction(a)
    [] kind = "stay" -> getStayInstruction(a)
    [] kind = "end_round" -> getEndRoundInstruction(a)
    [] kind = "close_game" -> getCloseGameInstruction(a)
    [] kind = "leave_game" -> getLeaveGameInstruction(a)
    [] kind = "burn_second_chance" -> getBurnSecondChanceInstruction(a)
    [] kind = "burn_scry" -> getBurnScryInstruction(a)
    [] kind = "init_vault" -> getInitVaultInstruction(a)
    [] kind = "init_bounty_board" -> getInitBountyBoardInstruction(a)
    [] kind = "add_bounty" -> getAddBountyInstruction(a)
    [] kind = "claim_bounty" -> getClaimBountyInstruction(a)
    [] kind = "close_bounty_board" -> getCloseBountyBoardInstruction(a)

-----------------------------------------------------------------------------
(* The program: process_instruction takes the first byte for the handler   *)
(* and passes it the rest.  The handlers in the order of the dispatcher.   *)
Handlers ==
  <<"initialize", "commit_deck", "join_round", "start_round", "hit", "stay", "end_round",
    "close_game", "leave_game", "burn_second_chance", "burn_scry", "init_vault",
    "init_bounty_board", "add_bounty", "claim_bounty", "close_bounty_board">>

process_instruction(ix) == Handlers[ix.data[1].value + 1]

(* What a handler destructures its accounts into and demands of each.      *)
PlayerDemands == <<W("game_session"), W("player_state"), RS("player")>>
BurnDemands == <<R("game_session"), W("player_state"), RS("player"),
                 W("player_token_account"), W("token_mint"), R("token_program")>>
Demands(kind, players) ==
  CASE kind = "initialize" ->
         <<WS("authority"), W("game_session"), R("house"), R("dealer"), R("treasury"),
           R("token_mint"), R("system_program")>>
    [] kind = "commit_deck" -> <<W("game_session"), RS("dealer")>>
    [] kind = "join_round" ->
         <<W("game_session"), W("player_state"), WS("player"), R("system_program"),
           W("player_token_account"), W("vault"), R("token_program")>>
    [] kind = "start_round" -> <<W("game_session"), RS("authority")>> \o Each(W, players)
    [] kind = "hit" -> PlayerDemands \o Each(W, players)
    [] kind = "stay" -> PlayerDemands
    [] kind = "end_round" ->
         <<W("game_session"), RS("caller"), W("vault"), W("winner_token_account"),
           W("treasury_token_account"), R("token_program")>> \o Each(R, players)
    [] kind = "close_game" -> <<W("game_session"), RS("authority"), W("recipient")>>
    [] kind = "leave_game" -> PlayerDemands \o <<W("recipient")>>
    [] kind \in {"burn_second_chance", "burn_scry"} -> BurnDemands
    [] kind = "init_vault" ->
         <<WS("payer"), R("game_session"), W("vault"), R("token_mint"),
           R("system_program"), R("token_program")>>
    [] kind = "init_bounty_board" ->
         <<WS("payer"), R("game_session"), W("bounty_board"), R("system_program")>>
    [] kind = "add_bounty" -> <<RS("authority"), R("game_session"), W("bounty_board")>>
    [] kind = "claim_bounty" ->
         <<RS("player"), R("game_session"), R("player_state"), W("bounty_board")>>
    [] kind = "close_bounty_board" ->
         <<W("bounty_board"), RS("authority"), R("game_session"), W("recipient")>>

Grants(metas, demands) ==
  /\ Len(metas) >= Len(demands)
  /\ \A i \in DOMAIN demands :
       /\ metas[i].account = demands[i].account
       /\ demands[i].signer => metas[i].signer
       /\ demands[i].writable => metas[i].writable

(* What a handler reads from the bytes after the first.                    *)
Reads(kind, data) ==
  LET get(at, width) == ReadAt(data, at, width) IN
  CASE kind = "initialize" ->
         [game_id |-> get(0, 8), bump |-> get(8, 1), vault_bump |-> get(9, 1),
          fee |-> IF Size(data) >= 12 THEN get(10, 2) ELSE 200]
    [] kind = "commit_deck" ->
         [root |-> get(0, 32), a |-> get(32, 64), b |-> get(96, 128), c |-> get(224, 64)]
    [] kind = "join_round" -> [bump |-> get(0, 1), stake |-> get(1, 8)]
    [] kind = "hit" ->
         [value |-> get(0, 1), card_type |-> get(1, 1), suit |-> get(2, 1),
          proof |-> [i \in 1..7 |-> get(3 + 32 * (i - 1), 32)], leaf_index |-> get(227, 1)]
    [] kind = "init_bounty_board" -> [bump |-> get(0, 1)]
    [] kind = "add_bounty" -> [bounty_type |-> get(0, 1), reward |-> get(1, 8)]
    [] kind = "claim_bounty" -> [index |-> get(0, 1)]
    [] OTHER -> << >>
=============================================================================
